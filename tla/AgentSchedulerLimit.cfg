\* Two agents are admitted before the first of them runs.
SPECIFICATION FairSpec
CONSTANTS
  a1 = a1
  a2 = a2
  l1 = l1
  l2 = l2
  l3 = l3
  k1 = k1
  k2 = k2
  Priority <- Priorities
  Agents <- TwoAgents
  Starts <- OneStart
  Stops <- NoStop
  MaxAgents = 1
  MaxConcurrent = 2
INVARIANT ConcurrencyLimit
CHECK_DEADLOCK FALSE
