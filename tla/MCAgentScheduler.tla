-------------------------- MODULE MCAgentScheduler --------------------------
(* Instances of AgentScheduler for TLC. *)
EXTENDS AgentScheduler

CONSTANTS a1, a2, l1, l2, l3, k1, k2

TwoAgents   == {a1, a2}
OneStart    == {l1}
ThreeStarts == {l1, l2, l3}
NoStop      == {}
TwoStops    == {k1, k2}

(* An urgent run and one that can wait. *)
Priorities == [a \in Agents |-> IF a = a1 THEN 4 ELSE 0]
=============================================================================
