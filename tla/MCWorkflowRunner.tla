-------------------------- MODULE MCWorkflowRunner --------------------------
(* Four steps, the second of which has a condition; two run in parallel.   *)
EXTENDS WorkflowRunner, TLC

CONSTANTS s1, s2, s3, s4

MCSteps == {s1, s2, s3, s4}
MCConditional == {s2}
=============================================================================
