SPECIFICATION FairSpec
CONSTANTS
  Flushers = {t1, t2}
  MaxRows = 3
  BatchLimit = 2
  MaxFaults = 2
INVARIANTS DuplicatesNeedFaults NoOvertaking
PROPERTIES ImplementsOutbox PendingIsSettled
