\* A job of one batch, one with an empty source, a refresh, a deletion, and one failure or death.
SPECIFICATION Spec
CONSTANTS
  j1 = j1
  j2 = j2
  p1 = p1
  Refresher = Refresher
  Jobs <- TwoJobs
  Parts <- OneBatch
  JobRetries = 1
  BatchRetries = 1
  MaxFaults = 1
INVARIANTS TypeOK CountedIsStored CountsKept LeftIndexing
\* The jobs end, and nothing makes a caller start another.
CHECK_DEADLOCK FALSE
