---------------------------- MODULE MCA2ARegistry ----------------------------
(* An instance of A2ARegistry for TLC. *)
EXTENDS A2ARegistry, TLC

CONSTANTS a1, a2, l1

TwoAgents == {a1, a2}
Alike == Permutations(TwoAgents)
OneLookup == {l1}
=============================================================================
