\* Two runs of the same agent at the same time.
SPECIFICATION Spec
CONSTANTS
  r1 = r1
  r2 = r2
  p1 = p1
  p2 = p2
  Runs <- TwoRuns
  Pausers = {}
  MaxIterations = 2
  MaxErrors = 3
  MaxToolCalls = 1
  QueueSize = 2
INVARIANT IterationBudget
CHECK_DEADLOCK FALSE
