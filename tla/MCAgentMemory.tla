---------------------------- MODULE MCAgentMemory ----------------------------
(* An instance of AgentMemory for TLC.                                     *)
EXTENDS AgentMemory, TLC

CONSTANTS e1, e2, e3, m1, t1, p1, f1

ThreeEpisodes == {e1, e2, e3}
AlikeEpisodes == Permutations(ThreeEpisodes)
=============================================================================
