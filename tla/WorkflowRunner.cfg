CONSTANTS
  s1 = s1
  s2 = s2
  s3 = s3
  s4 = s4
  Steps <- MCSteps
  Conditional <- MCConditional
  MaxParallel = 2
SPECIFICATION FairSpec
INVARIANTS TypeOK InputsComplete RoundIsIsolated VerdictSound
PROPERTIES ImplementsDag RunEnds
CHECK_DEADLOCK FALSE
