SPECIFICATION FairSpec
CONSTANTS
  Flushers = {t1}
  MaxRows = 1
  BatchLimit = 2
  MaxFaults = 0
PROPERTIES FlushedWhenReachable
