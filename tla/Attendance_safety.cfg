SPECIFICATION FairSpec
CONSTANTS
  Nil = Nil
  Workers = {w1}
  Requests = {r1, r2}
  LastDay = 2
  MaxRecords = 2
  MaxFaults = 2
INVARIANTS SecondRecordNeedsOverlap OverwriteNeedsOverlap
PROPERTIES ClosedUnlessMidnight
CHECK_DEADLOCK FALSE
