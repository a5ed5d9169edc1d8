\* Two jobs ingest the same source; nothing fails.
SPECIFICATION Spec
CONSTANTS
  j1 = j1
  j2 = j2
  p1 = p1
  Refresher = Refresher
  Jobs <- TwoJobs
  Parts <- SameSource
  JobRetries = 1
  BatchRetries = 1
  MaxFaults = 0
INVARIANT Replaced
CHECK_DEADLOCK FALSE
