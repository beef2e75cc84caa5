SPECIFICATION FairSpec
CONSTANTS
  Users = {u1, u2}
  Threads = {t1, t2}
  MaxVersions = 2
  MaxFaults = 1
INVARIANTS GrantWasEntitled OnlineGrantWasCurrent AmbiguousGrantNeedsPartialRead
PROPERTIES CacheCatchesUp
