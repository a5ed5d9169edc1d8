--------------------------- MODULE MCKnowledgeBase ---------------------------
(* Instances of KnowledgeBase for TLC: a job of one batch and one whose    *)
(* source is empty; two jobs that load the same source.                    *)
EXTENDS KnowledgeBase, TLC

CONSTANTS j1, j2, p1

TwoJobs == {j1, j2}
OneBatch == [j \in Jobs |-> IF j = j1 THEN {p1} ELSE {}]
SameSource == [j \in Jobs |-> {p1}]
=============================================================================
