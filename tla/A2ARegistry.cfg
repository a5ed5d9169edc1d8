\* Two agents that register, send heartbeats, hang, crash and stop, and one lookup.
SPECIFICATION Spec
SYMMETRY Alike
CONSTANTS
  a1 = a1
  a2 = a2
  l1 = l1
  Nobody = Nobody
  Agents <- TwoAgents
  Lookups <- OneLookup
  Interval = 1
  AgentTtl = 2
  IndexTtl = 3
  MaxEvents = 5
INVARIANTS TypeOK TimelyIsKnown FreshIsFindable StoppedIsGone DeadIsForgotten
