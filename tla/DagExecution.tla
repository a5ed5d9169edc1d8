---------------------------- MODULE DagExecution ----------------------------
(***************************************************************************)
(* What running a workflow promises, without saying how: a plan (a finite  *)
(* set of steps with their dependencies) is published once; a step starts  *)
(* only after every one of its dependencies succeeded; it settles once;    *)
(* and a verdict is reached only when no step is running and no step could *)
(* still start.  The verdict is "completed" exactly when every step of the *)
(* plan succeeded.  Batches, the limit on parallel steps and the order in  *)
(* which ready steps are taken are not part of the promise.                *)
(***************************************************************************)
EXTENDS FiniteSets

CONSTANT Steps

VARIABLES
  plan,     \* the steps of the published workflow ({} before)
  deps,     \* deps[s]: the steps that s depends on
  state,    \* state[s] \in StepStates
  verdict   \* "none" before the end, then "completed" or "failed"

StepStates == {"pending", "running", "succeeded", "failed"}

vars == <<plan, deps, state, verdict>>

(***************************************************************************)
(* A dependency graph is acyclic when no nonempty set of its steps is such *)
(* that each member depends on a member.  (On a finite graph this says     *)
(* that there is no cycle, without a transitive closure.)                  *)
(***************************************************************************)
Acyclic(P, d) == \A S \in SUBSET P : S # {} => \E s \in S : d[s] \cap S = {}

Startable(s) ==
  /\ s \in plan
  /\ state[s] = "pending"
  /\ \A t \in deps[s] : state[t] = "succeeded"

-----------------------------------------------------------------------------

Init ==
  /\ plan = {}
  /\ deps = [s \in Steps |-> {}]
  /\ state = [s \in Steps |-> "pending"]
  /\ verdict = "none"

Publish ==
  /\ plan = {}
  /\ plan' \in (SUBSET Steps) \ {{}}
  /\ deps' \in [Steps -> SUBSET Steps]
  /\ \A s \in plan' : deps'[s] \subseteq plan'
  /\ Acyclic(plan', deps')
  /\ UNCHANGED <<state, verdict>>

Start(s) ==
  /\ verdict = "none"
  /\ Startable(s)
  /\ state' = [state EXCEPT ![s] = "running"]
  /\ UNCHANGED <<plan, deps, verdict>>

(* A step whose condition is false succeeds without running. *)
Skip(s) ==
  /\ verdict = "none"
  /\ Startable(s)
  /\ state' = [state EXCEPT ![s] = "succeeded"]
  /\ UNCHANGED <<plan, deps, verdict>>

Settle(s) ==
  /\ state[s] = "running"
  /\ \E o \in {"succeeded", "failed"} : state' = [state EXCEPT ![s] = o]
  /\ UNCHANGED <<plan, deps, verdict>>

Conclude ==
  /\ verdict = "none"
  /\ plan # {}
  /\ \A s \in plan : state[s] # "running" /\ ~Startable(s)
  /\ verdict' = IF \A s \in plan : state[s] = "succeeded"
                  THEN "completed" ELSE "failed"
  /\ UNCHANGED <<plan, deps, state>>

Next ==
  \/ Publish
  \/ \E s \in Steps : Start(s) \/ Skip(s) \/ Settle(s)
  \/ Conclude

Spec == Init /\ [][Next]_vars

-----------------------------------------------------------------------------
(* What the promise comes to, for whoever runs workflows this way. *)

Settled == {"succeeded", "failed"}

(***************************************************************************)
(* No step is begun before all the steps it depends on succeeded.          *)
(***************************************************************************)
DependenciesFirst ==
  \A s \in plan : state[s] # "pending" => \A t \in deps[s] : state[t] = "succeeded"

(***************************************************************************)
(* A verdict comes when nothing is running.  "completed" says that every   *)
(* step succeeded and "failed" that some step really failed: a run never   *)
(* fails only because steps were left waiting for each other.              *)
(***************************************************************************)
VerdictMeans ==
  verdict # "none" =>
    /\ plan # {} /\ \A s \in plan : state[s] # "running"
    /\ verdict = "completed" <=> \A s \in plan : state[s] = "succeeded"
    /\ verdict = "failed" <=> \E s \in plan : state[s] = "failed"

(***************************************************************************)
(* A step is executed at most once: what settled stays as it settled and   *)
(* what runs can only settle.  A published workflow is not changed, and    *)
(* after the verdict nothing changes at all.                               *)
(***************************************************************************)
Forward ==
  /\ \A s \in Steps : state[s] \in Settled => state'[s] = state[s]
  /\ \A s \in Steps : state[s] = "running" => state'[s] # "pending"
  /\ plan # {} => UNCHANGED <<plan, deps>>
  /\ verdict # "none" => UNCHANGED vars
OnlyForward == [][Forward]_vars
=============================================================================
