--------------------------- MODULE WorkflowRunner ---------------------------
(***************************************************************************)
(* backend/workflows: a WorkflowBuilder accumulates steps and builds a     *)
(* template (workflow_builder.py); WorkflowRunner.run executes the         *)
(* template in rounds (workflow_runner.py): every step get_ready_steps     *)
(* returns is handed to asyncio.gather, at most MaxParallel of them hold   *)
(* the semaphore at a time, and only when the whole round is over are its  *)
(* results merged into completed_ids, failed_ids and the step outputs that *)
(* later steps read.                                                       *)
(*                                                                         *)
(* A step's output is a value nothing here looks into, so a step is        *)
(* remembered by its outcome.  A condition is evaluated on outputs: it may *)
(* come out either way.                                                    *)
(***************************************************************************)
EXTENDS Naturals, FiniteSets

CONSTANTS
  Steps,          \* the step ids a workflow may use
  Conditional,    \* those whose definition carries a condition
  MaxParallel     \* WorkflowRunner.max_parallel_steps

ASSUME RunnerAssumption ==
  /\ IsFiniteSet(Steps)
  /\ Conditional \subseteq Steps
  /\ MaxParallel \in Nat \ {0}

VARIABLES
  phase,          \* "building", "selecting", "round" or "done"
  index,          \* index[s]: position of s in template.steps, 0 when absent
  size,           \* len(template.steps)
  depends_on,     \* depends_on[s]: the ids s depends on
  waiting,        \* steps of the round whose task has not entered the semaphore
  running,        \* steps of the round being executed
  batch_results,  \* outcomes of the round's finished steps, "none" otherwise
  completed_ids,
  failed_ids,
  inputs,         \* inputs[s]: the step outputs s could read when it started
  status          \* WorkflowRunResult.status, "none" before the end

builderVars == <<index, size, depends_on>>
roundVars   == <<waiting, running, batch_results, inputs>>
resultVars  == <<completed_ids, failed_ids>>
vars == <<phase, index, size, depends_on, waiting, running, batch_results,
          completed_ids, failed_ids, inputs, status>>

Outcomes == {"completed", "skipped", "failed"}

Template == {s \in Steps : index[s] > 0}
decided  == completed_ids \cup failed_ids
InRound  == waiting \cup running \cup {s \in Steps : batch_results[s] # "none"}

-----------------------------------------------------------------------------
(* The builder. *)

(* add_step: an id is new and every dependency was added before. *)
CanAdd(s, D) == index[s] = 0 /\ D \subseteq Template

AddStep(s, D) ==
  /\ phase = "building"
  /\ CanAdd(s, D)
  /\ size' = size + 1
  /\ index' = [index EXCEPT ![s] = size + 1]
  /\ depends_on' = [depends_on EXCEPT ![s] = D]
  /\ UNCHANGED <<phase, roundVars, resultVars, status>>

(* _has_cycle: on a finite graph, some nonempty set of steps in which each *)
(* member depends on a member.                                             *)
HasCycle(T) == \E S \in SUBSET T : S # {} /\ \A s \in S : depends_on[s] \cap S # {}

(* validate returns no error. *)
Valid ==
  /\ size # 0
  /\ \A s \in Template : depends_on[s] \subseteq Template
  /\ ~HasCycle(Template)

Build ==
  /\ phase = "building"
  /\ Valid
  /\ phase' = "selecting"
  /\ UNCHANGED <<builderVars, roundVars, resultVars, status>>

-----------------------------------------------------------------------------
(* The runner. *)

(* Faulty variants, to see which property notices: a failed dependency     *)
(* taken for a finished one; "any" written for "all"; failed steps left in.*)
ReadyIgnoringFailures ==
  {s \in Template \ decided : depends_on[s] \subseteq decided}
ReadyAny ==
  {s \in Template \ decided :
     depends_on[s] = {} \/ depends_on[s] \cap completed_ids # {}}
ReadyRetryingFailed ==
  {s \in Template \ completed_ids : depends_on[s] \subseteq completed_ids}

get_ready_steps ==
  {s \in Template \ decided :
     /\ depends_on[s] \cap failed_ids = {}
     /\ depends_on[s] \subseteq completed_ids}

MoreToDo == Cardinality(completed_ids) + Cardinality(failed_ids) < size

SelectRound ==
  /\ phase = "selecting"
  /\ MoreToDo
  /\ get_ready_steps # {}
  /\ phase' = "round"
  /\ waiting' = get_ready_steps
  /\ UNCHANGED <<builderVars, running, batch_results, inputs, resultVars, status>>

(* Faulty variant: a run with some success passes for a success. *)
overall_status_any == IF completed_ids # {} THEN "completed" ELSE "failed"
overall_status == IF failed_ids = {} THEN "completed" ELSE "failed"

Finish ==
  /\ phase = "selecting"
  /\ ~MoreToDo \/ get_ready_steps = {}
  /\ phase' = "done"
  /\ status' = overall_status
  /\ UNCHANGED <<builderVars, roundVars, resultVars>>

(* The semaphore wakes its waiters in the order gather created them, which *)
(* is the order of template.steps.  Faulty variant: no semaphore.          *)
NextUnbounded(s) == s \in waiting /\ \A t \in waiting : index[s] <= index[t]

NextInLine(s) ==
  /\ s \in waiting
  /\ \A t \in waiting : index[s] <= index[t]
  /\ Cardinality(running) < MaxParallel

(* as_template_context hands out step_outputs, which only the merge writes. *)
(* Faulty variant: outputs published as soon as a step finishes.            *)
OutputsAtOnce == decided \cup {s \in Steps : batch_results[s] # "none"}
VisibleOutputs == decided

Enter(s) ==
  /\ phase = "round"
  /\ NextInLine(s)
  /\ waiting' = waiting \ {s}
  /\ inputs' = [inputs EXCEPT ![s] = VisibleOutputs]

StartStep(s) ==
  /\ Enter(s)
  /\ running' = running \cup {s}
  /\ UNCHANGED <<phase, builderVars, batch_results, resultVars, status>>

(* execute_step returns before its first await when the condition is false. *)
SkipStep(s) ==
  /\ s \in Conditional
  /\ Enter(s)
  /\ batch_results' = [batch_results EXCEPT ![s] = "skipped"]
  /\ UNCHANGED <<phase, builderVars, running, resultVars, status>>

(* The handler returns, raises, or runs into its timeout: execute_step     *)
(* turns the last two into a "failed" result.                              *)
FinishStep(s) ==
  /\ s \in running
  /\ running' = running \ {s}
  /\ \E o \in {"completed", "failed"} :
       batch_results' = [batch_results EXCEPT ![s] = o]
  /\ UNCHANGED <<phase, builderVars, waiting, inputs, resultVars, status>>

(* gather returns when every task of the round has. *)
RoundOver == waiting = {} /\ running = {}

MergeRound ==
  /\ phase = "round"
  /\ RoundOver
  /\ completed_ids' = completed_ids \cup
                      {s \in Steps : batch_results[s] \in {"completed", "skipped"}}
  /\ failed_ids' = failed_ids \cup {s \in Steps : batch_results[s] = "failed"}
  /\ batch_results' = [s \in Steps |-> "none"]
  /\ phase' = "selecting"
  /\ UNCHANGED <<builderVars, waiting, running, inputs, status>>

-----------------------------------------------------------------------------
Init ==
  /\ phase = "building"
  /\ index = [s \in Steps |-> 0]
  /\ size = 0
  /\ depends_on = [s \in Steps |-> {}]
  /\ waiting = {}
  /\ running = {}
  /\ batch_results = [s \in Steps |-> "none"]
  /\ completed_ids = {}
  /\ failed_ids = {}
  /\ inputs = [s \in Steps |-> {}]
  /\ status = "none"

Next ==
  \/ \E s \in Steps, D \in SUBSET Steps : AddStep(s, D)
  \/ Build
  \/ SelectRound
  \/ \E s \in Steps : StartStep(s) \/ SkipStep(s) \/ FinishStep(s)
  \/ MergeRound
  \/ Finish

(* The runner is one coroutine that the event loop keeps resuming, and     *)
(* wait_for(timeout_seconds) ends every step.  Nothing makes a client      *)
(* finish building.                                                        *)
Fairness ==
  /\ WF_vars(SelectRound \/ Finish \/ MergeRound)
  /\ \A s \in Steps : WF_vars(StartStep(s) \/ SkipStep(s)) /\ WF_vars(FinishStep(s))

Spec == Init /\ [][Next]_vars
FairSpec == Spec /\ Fairness

-----------------------------------------------------------------------------
(***************************************************************************)
(* The variables have their types, and the semaphore never lets more than  *)
(* MaxParallel steps execute at a time.                                    *)
(***************************************************************************)
TypeOK ==
  /\ phase \in {"building", "selecting", "round", "done"}
  /\ index \in [Steps -> Nat]
  /\ size \in Nat
  /\ depends_on \in [Steps -> SUBSET Steps]
  /\ waiting \subseteq Steps
  /\ running \subseteq Steps
  /\ Cardinality(running) <= MaxParallel
  /\ batch_results \in [Steps -> Outcomes \cup {"none"}]
  /\ completed_ids \subseteq Steps
  /\ failed_ids \subseteq Steps
  /\ inputs \in [Steps -> SUBSET Steps]
  /\ status \in {"none", "completed", "failed"}

Started(s) == s \in running \cup decided \/ batch_results[s] # "none"

(***************************************************************************)
(* A step reads the outputs of its dependencies: whatever the interleaving *)
(* of a round, when a step started the outputs of all the steps it depends *)
(* on were already in the context its templates are rendered from, and     *)
(* none of them came from a failed step.                                   *)
(***************************************************************************)
InputsComplete ==
  \A s \in Template : Started(s) =>
    depends_on[s] \subseteq inputs[s] /\ depends_on[s] \subseteq completed_ids

(***************************************************************************)
(* What a step reads does not depend on how fast its round went: the steps *)
(* of one round see the same outputs, those of the earlier rounds.         *)
(***************************************************************************)
RoundIsIsolated ==
  \A s, t \in InRound \ waiting : inputs[s] = inputs[t] /\ t \notin inputs[s]

(***************************************************************************)
(* s is below a failure when every set of steps that contains s and, with  *)
(* each step, the steps it depends on, contains a failed one: s depends on *)
(* a failed step, directly or through others.                              *)
(***************************************************************************)
ClosedUnderDeps(S) == \A t \in S : depends_on[t] \subseteq S
BelowFailure(s) ==
  \A S \in SUBSET Template : s \in S /\ ClosedUnderDeps(S) => S \cap failed_ids # {}

(***************************************************************************)
(* The verdict is sound for every workflow the builder lets through: a run *)
(* that reports "completed" executed or skipped every step, and when one   *)
(* reports "failed" the steps it left out are exactly those below a        *)
(* failure.                                                                *)
(***************************************************************************)
VerdictSound ==
  phase = "done" =>
    /\ status = "completed" => Template = completed_ids
    /\ status = "failed" => failed_ids # {}
    /\ \A s \in Template \ failed_ids : s \notin completed_ids <=> BelowFailure(s)

(***************************************************************************)
(* Progress: a workflow that was built ends, and a step none of whose      *)
(* ancestors fails is executed or skipped.                                 *)
(***************************************************************************)
RunEnds == phase = "selecting" ~> phase = "done"

-----------------------------------------------------------------------------
(* What the run means as an execution of its dependency graph. *)
StateOf(s) ==
  IF s \in failed_ids \/ batch_results[s] = "failed" THEN "failed"
  ELSE IF s \in completed_ids \/ batch_results[s] \in {"completed", "skipped"} THEN "succeeded"
  ELSE IF s \in running THEN "running" ELSE "pending"

DagPlan  == IF phase = "building" THEN {} ELSE Template
DagDeps  == IF phase = "building" THEN [s \in Steps |-> {}] ELSE depends_on
DagState == [s \in Steps |-> StateOf(s)]

Dag == INSTANCE DagExecution WITH
  plan <- DagPlan, deps <- DagDeps, state <- DagState, verdict <- status

(* Every step of the runner is a step of DagExecution or changes nothing   *)
(* there: rounds, the semaphore and the merge only order what the abstract *)
(* execution allows.                                                       *)
ImplementsDag == Dag!Spec
=============================================================================
