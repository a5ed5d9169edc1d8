\* Two runs of different priority; three calls of start(), two of stop().
SPECIFICATION FairSpec
CONSTANTS
  a1 = a1
  a2 = a2
  l1 = l1
  l2 = l2
  l3 = l3
  k1 = k1
  k2 = k2
  Priority <- Priorities
  Agents <- TwoAgents
  Starts <- ThreeStarts
  Stops <- TwoStops
  MaxAgents = 1
  MaxConcurrent = 1
INVARIANTS TypeOK OnePlace StopIsFinal
PROPERTIES PriorityOrder Served
\* Nobody has to call anything.
CHECK_DEADLOCK FALSE
