SPECIFICATION Spec
CONSTANTS
  Users = {u1, u2}
  Threads = {t1}
  MaxVersions = 1
  MaxFaults = 0
INVARIANTS AmbiguityNeedsTwoUsers
