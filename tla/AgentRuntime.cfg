\* One run of the agent, two callers of pause and a small event queue.
SPECIFICATION FairSpec
CONSTANTS
  r1 = r1
  r2 = r2
  p1 = p1
  p2 = p2
  Runs <- OneRun
  Pausers <- TwoPausers
  MaxIterations = 3
  MaxErrors = 2
  MaxToolCalls = 2
  QueueSize = 1
INVARIANTS TypeOK IterationBudget StepsCounted PauseHonoured NoGhostRun
PROPERTY RunEnds
\* A run ends, and nothing makes a caller begin another.
CHECK_DEADLOCK FALSE
