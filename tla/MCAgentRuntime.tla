--------------------------- MODULE MCAgentRuntime ---------------------------
(* Instances of AgentRuntime for TLC. *)
EXTENDS AgentRuntime

CONSTANTS r1, r2, p1, p2

OneRun     == {r1}
TwoRuns    == {r1, r2}
TwoPausers == {p1, p2}
=============================================================================
