SPECIFICATION FairSpec
CONSTANTS
  Nil = Nil
  Workers = {w1}
  Requests = {r1}
  LastDay = 2
  MaxRecords = 1
  MaxFaults = 0
PROPERTIES EveryCheckInIsClosed
CHECK_DEADLOCK FALSE
