----------------------------- MODULE MCA2AQueue -----------------------------
(* Instances of A2AQueue for TLC. *)
EXTENDS A2AQueue

CONSTANTS m1, m2, w1, w2

OneMessage  == {m1}
TwoMessages == {m1, m2}
OneWorker   == {w1}
TwoWorkers  == {w1, w2}
=============================================================================
