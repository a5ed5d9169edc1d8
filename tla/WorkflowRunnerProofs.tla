------------------------ MODULE WorkflowRunnerProofs ------------------------
(***************************************************************************)
(* Proofs about WorkflowRunner, for every finite set of steps, every       *)
(* dependency graph the builder accepts and every limit on parallelism.    *)
(*                                                                         *)
(* The invariants hold because of IInv.  Its heart is that a step in a     *)
(* round has all its dependencies in completed_ids, which does not change  *)
(* while the round runs, so that what a step reads is fixed by the round   *)
(* it is in.  VerdictSound needs no induction on the graph: if a step is   *)
(* left out and is not below a failure, the set of such steps is a cycle.  *)
(***************************************************************************)
EXTENDS WorkflowRunner, FiniteSetTheorems, TLAPS

Finished == {s \in Steps : batch_results[s] # "none"}

GraphInv ==
  /\ size = Cardinality(Template)
  /\ \A s \in Template : depends_on[s] \subseteq Template
  /\ phase # "building" => Template # {} /\ ~HasCycle(Template)

PartitionInv ==
  /\ waiting \cup running \cup Finished \cup decided \subseteq Template
  /\ completed_ids \cap failed_ids = {}
  /\ waiting \cap running = {}
  /\ waiting \cap Finished = {}
  /\ running \cap Finished = {}
  /\ (waiting \cup running \cup Finished) \cap decided = {}
  /\ phase # "round" => waiting = {} /\ running = {} /\ Finished = {}
  /\ phase = "building" => decided = {}

DepsInv ==
  \A s \in waiting \cup running \cup Finished \cup decided :
    depends_on[s] \subseteq completed_ids

InputsInv ==
  /\ \A s \in running \cup Finished : inputs[s] = decided
  /\ \A s \in decided : depends_on[s] \subseteq inputs[s]

StatusInv ==
  /\ phase # "done" => status = "none"
  /\ phase = "done" => /\ status = overall_status
                       /\ ~MoreToDo \/ get_ready_steps = {}

IInv == TypeOK /\ GraphInv /\ PartitionInv /\ DepsInv /\ InputsInv /\ StatusInv

-----------------------------------------------------------------------------
(* The initial state satisfies the inductive invariant. *)
LEMMA InitIInv == Init => IInv
<1> SUFFICES ASSUME Init PROVE IInv
  OBVIOUS
<1> USE RunnerAssumption
<1>1. Template = {} /\ decided = {} /\ Finished = {}
  BY DEF Init, Template, decided, Finished
<1>2. Cardinality({}) = 0
  BY FS_EmptySet
<1>3. TypeOK
  BY <1>2 DEF Init, TypeOK, Outcomes
<1>4. GraphInv
  BY <1>1, <1>2 DEF Init, GraphInv
<1>5. PartitionInv /\ DepsInv /\ InputsInv /\ StatusInv
  BY <1>1 DEF Init, PartitionInv, DepsInv, InputsInv, StatusInv
<1> QED
  BY <1>3, <1>4, <1>5 DEF IInv

(* Every step keeps the types, and no more than MaxParallel steps run.     *)
LEMMA TypeStep == IInv /\ [Next]_vars => TypeOK'
<1> SUFFICES ASSUME IInv, [Next]_vars PROVE TypeOK'
  OBVIOUS
<1> USE RunnerAssumption DEF IInv, TypeOK, Outcomes
<1>1. IsFiniteSet(running) /\ Cardinality(running) \in Nat
  BY FS_Subset, FS_CardinalityType
<1>2. ASSUME NEW s \in Steps, NEW D \in SUBSET Steps, AddStep(s, D) PROVE TypeOK'
  BY <1>2 DEF AddStep, CanAdd, roundVars, resultVars
<1>3. CASE Build
  BY <1>3 DEF Build, builderVars, roundVars, resultVars
<1>4. CASE SelectRound
  BY <1>4 DEF SelectRound, builderVars, resultVars, get_ready_steps, Template
<1>5. ASSUME NEW s \in Steps, StartStep(s) PROVE TypeOK'
  <2>1. Cardinality(running \cup {s}) <= MaxParallel
    <3>1. Cardinality(running \cup {s}) = IF s \in running THEN Cardinality(running)
                                           ELSE Cardinality(running) + 1
      BY <1>1, FS_AddElement
    <3>2. Cardinality(running) < MaxParallel
      BY <1>5 DEF StartStep, Enter, NextInLine
    <3> QED BY <1>1, <3>1, <3>2
  <2> QED BY <1>5, <2>1 DEF StartStep, Enter, VisibleOutputs, decided, builderVars, resultVars
<1>6. ASSUME NEW s \in Steps, SkipStep(s) PROVE TypeOK'
  BY <1>6 DEF SkipStep, Enter, VisibleOutputs, decided, builderVars, resultVars
<1>7. ASSUME NEW s \in Steps, FinishStep(s) PROVE TypeOK'
  <2>1. Cardinality(running \ {s}) <= MaxParallel
    <3>1. Cardinality(running \ {s}) = IF s \in running THEN Cardinality(running) - 1
                                         ELSE Cardinality(running)
      BY <1>1, FS_RemoveElement
    <3> QED BY <1>1, <3>1
  <2> QED BY <1>7, <2>1 DEF FinishStep, builderVars, resultVars
<1>8. CASE MergeRound
  BY <1>8 DEF MergeRound, builderVars
<1>9. CASE Finish
  BY <1>9 DEF Finish, builderVars, roundVars, resultVars, overall_status
<1>10. CASE UNCHANGED vars
  BY <1>10 DEF vars
<1> QED
  BY <1>2, <1>3, <1>4, <1>5, <1>6, <1>7, <1>8, <1>9, <1>10 DEF Next

-----------------------------------------------------------------------------
(* What an action that leaves the builder's variables alone leaves alone.  *)
LEMMA SameGraph ==
  ASSUME UNCHANGED builderVars
  PROVE  /\ Template' = Template
         /\ HasCycle(Template)' <=> HasCycle(Template)
BY DEF builderVars, Template, HasCycle

(* Adding a step adds it to the template, and nothing else. *)
LEMMA TemplateAdd ==
  ASSUME TypeOK, NEW s \in Steps, NEW D \in SUBSET Steps, AddStep(s, D)
  PROVE  Template' = Template \cup {s} /\ s \notin Template
BY DEF TypeOK, AddStep, CanAdd, Template

LEMMA GraphStep == IInv /\ [Next]_vars => GraphInv'
<1> SUFFICES ASSUME IInv, [Next]_vars PROVE GraphInv'
  OBVIOUS
<1> USE RunnerAssumption DEF IInv
<1>1. ASSUME NEW s \in Steps, NEW D \in SUBSET Steps, AddStep(s, D) PROVE GraphInv'
  <2>1. Template' = Template \cup {s} /\ s \notin Template
    BY <1>1, TemplateAdd
  <2>2. IsFiniteSet(Template)
    BY FS_Subset DEF Template
  <2>3. size' = Cardinality(Template')
    BY <1>1, <2>1, <2>2, FS_AddElement DEF AddStep, GraphInv
  <2>4. \A t \in Template' : depends_on'[t] \subseteq Template'
    BY <1>1, <2>1 DEF AddStep, CanAdd, GraphInv, TypeOK
  <2>5. phase' = "building"
    BY <1>1 DEF AddStep
  <2> QED BY <2>3, <2>4, <2>5 DEF GraphInv
<1>2. CASE Build
  <2>1. Template # {}
    BY <1>2, FS_EmptySet DEF Build, Valid, GraphInv
  <2>2. UNCHANGED builderVars /\ ~HasCycle(Template)
    BY <1>2 DEF Build, Valid
  <2> QED BY <2>1, <2>2, SameGraph DEF GraphInv, builderVars
<1>3. CASE UNCHANGED builderVars /\ (phase' = "building" => phase = "building")
                                /\ (phase = "building" => phase' = "building")
  BY <1>3, SameGraph DEF GraphInv, builderVars
<1>4. SelectRound \/ MergeRound \/ Finish \/ UNCHANGED vars
      \/ (\E s \in Steps : StartStep(s) \/ SkipStep(s) \/ FinishStep(s))
      => UNCHANGED builderVars /\ (phase' = "building" <=> phase = "building")
  BY DEF SelectRound, MergeRound, Finish, StartStep, SkipStep, FinishStep, Enter, vars, builderVars
<1> QED BY <1>1, <1>2, <1>3, <1>4 DEF Next

(* Every step keeps the sets a run sorts its steps into apart. *)
LEMMA PartitionStep == IInv /\ [Next]_vars => PartitionInv'
<1> SUFFICES ASSUME IInv, [Next]_vars PROVE PartitionInv'
  OBVIOUS
<1> USE DEF IInv, PartitionInv, Finished, decided
<1>1. ASSUME NEW s \in Steps, NEW D \in SUBSET Steps, AddStep(s, D) PROVE PartitionInv'
  BY <1>1, TemplateAdd DEF AddStep, roundVars, resultVars
<1>2. CASE Build
  BY <1>2, SameGraph DEF Build, roundVars, resultVars
<1>3. CASE SelectRound
  BY <1>3, SameGraph DEF SelectRound, get_ready_steps, resultVars
<1>4. ASSUME NEW s \in Steps, StartStep(s) PROVE PartitionInv'
  BY <1>4, SameGraph DEF StartStep, Enter, NextInLine, resultVars
<1>5. ASSUME NEW s \in Steps, SkipStep(s) PROVE PartitionInv'
  <2>1. Finished' = Finished \cup {s}
    BY <1>5 DEF SkipStep, TypeOK
  <2> QED BY <1>5, <2>1, SameGraph DEF SkipStep, Enter, NextInLine, resultVars
<1>6. ASSUME NEW s \in Steps, FinishStep(s) PROVE PartitionInv'
  <2>1. Finished' = Finished \cup {s}
    BY <1>6 DEF FinishStep, TypeOK
  <2> QED BY <1>6, <2>1, SameGraph DEF FinishStep, resultVars
<1>7. CASE MergeRound
  <2>1. Finished' = {}
    BY <1>7 DEF MergeRound
  <2>2. completed_ids' \ completed_ids \subseteq Finished
        /\ failed_ids' \ failed_ids \subseteq Finished
        /\ (completed_ids' \ completed_ids) \cap (failed_ids' \ failed_ids) = {}
    BY <1>7 DEF MergeRound
  <2> QED BY <1>7, <2>1, <2>2, SameGraph DEF MergeRound, RoundOver
<1>8. CASE Finish
  BY <1>8, SameGraph DEF Finish, roundVars, resultVars
<1>9. CASE UNCHANGED vars
  BY <1>9 DEF vars, Template
<1> QED BY <1>1, <1>2, <1>3, <1>4, <1>5, <1>6, <1>7, <1>8, <1>9 DEF Next

(* Every step keeps the dependencies of what is in a round or decided in   *)
(* completed_ids.                                                          *)
LEMMA DepsStep == IInv /\ [Next]_vars => DepsInv'
<1> SUFFICES ASSUME IInv, [Next]_vars PROVE DepsInv'
  OBVIOUS
<1> USE DEF IInv, DepsInv, Finished, decided
<1>1. ASSUME NEW s \in Steps, NEW D \in SUBSET Steps, AddStep(s, D) PROVE DepsInv'
  BY <1>1 DEF AddStep, PartitionInv, roundVars, resultVars
<1>2. CASE Build
  BY <1>2 DEF Build, builderVars, roundVars, resultVars
<1>3. CASE SelectRound
  BY <1>3 DEF SelectRound, get_ready_steps, builderVars, resultVars
<1>4. ASSUME NEW s \in Steps, StartStep(s) PROVE DepsInv'
  BY <1>4 DEF StartStep, Enter, NextInLine, builderVars, resultVars
<1>5. ASSUME NEW s \in Steps, SkipStep(s) PROVE DepsInv'
  <2>1. Finished' = Finished \cup {s}
    BY <1>5 DEF SkipStep, TypeOK
  <2> QED BY <1>5, <2>1 DEF SkipStep, Enter, NextInLine, builderVars, resultVars
<1>6. ASSUME NEW s \in Steps, FinishStep(s) PROVE DepsInv'
  <2>1. Finished' = Finished \cup {s}
    BY <1>6 DEF FinishStep, TypeOK
  <2> QED BY <1>6, <2>1 DEF FinishStep, builderVars, resultVars
<1>7. CASE MergeRound
  <2>1. completed_ids' \cup failed_ids' \subseteq decided \cup Finished
        /\ completed_ids \subseteq completed_ids' /\ Finished' = {}
        /\ waiting' = waiting /\ running' = running /\ depends_on' = depends_on
    BY <1>7 DEF MergeRound, builderVars
  <2> QED BY <2>1
<1>8. CASE Finish
  BY <1>8 DEF Finish, builderVars, roundVars, resultVars
<1>9. CASE UNCHANGED vars
  BY <1>9 DEF vars
<1> QED BY <1>1, <1>2, <1>3, <1>4, <1>5, <1>6, <1>7, <1>8, <1>9 DEF Next

(* Every step keeps what the steps of a round read equal to the outcome of *)
(* the earlier rounds.                                                     *)
LEMMA InputsStep == IInv /\ [Next]_vars => InputsInv'
<1> SUFFICES ASSUME IInv, [Next]_vars PROVE InputsInv'
  OBVIOUS
<1> USE DEF IInv, InputsInv, Finished, decided
<1>1. ASSUME NEW s \in Steps, NEW D \in SUBSET Steps, AddStep(s, D) PROVE InputsInv'
  BY <1>1 DEF AddStep, PartitionInv, roundVars, resultVars
<1>2. CASE Build
  BY <1>2 DEF Build, builderVars, roundVars, resultVars
<1>3. CASE SelectRound
  BY <1>3 DEF SelectRound, builderVars, resultVars
<1>4. ASSUME NEW s \in Steps, StartStep(s) PROVE InputsInv'
  BY <1>4 DEF StartStep, Enter, NextInLine, VisibleOutputs, builderVars, resultVars,
              PartitionInv, TypeOK
<1>5. ASSUME NEW s \in Steps, SkipStep(s) PROVE InputsInv'
  <2>1. Finished' = Finished \cup {s}
    BY <1>5 DEF SkipStep, TypeOK
  <2> QED BY <1>5, <2>1 DEF SkipStep, Enter, NextInLine, VisibleOutputs, builderVars,
              resultVars, PartitionInv, TypeOK
<1>6. ASSUME NEW s \in Steps, FinishStep(s) PROVE InputsInv'
  <2>1. Finished' = Finished \cup {s}
    BY <1>6 DEF FinishStep, TypeOK
  <2> QED BY <1>6, <2>1 DEF FinishStep, builderVars, resultVars
<1>7. CASE MergeRound
  <2>1. completed_ids' \cup failed_ids' \subseteq decided \cup Finished
        /\ Finished' = {} /\ running' = {} /\ UNCHANGED <<depends_on, inputs>>
    BY <1>7 DEF MergeRound, RoundOver, builderVars
  <2>2. \A s \in Finished : depends_on[s] \subseteq inputs[s]
    BY DEF DepsInv
  <2> QED BY <2>1, <2>2
<1>8. CASE Finish
  BY <1>8 DEF Finish, builderVars, roundVars, resultVars
<1>9. CASE UNCHANGED vars
  BY <1>9 DEF vars
<1> QED BY <1>1, <1>2, <1>3, <1>4, <1>5, <1>6, <1>7, <1>8, <1>9 DEF Next

LEMMA StatusStep == IInv /\ [Next]_vars => StatusInv'
<1> SUFFICES ASSUME IInv, [Next]_vars PROVE StatusInv'
  OBVIOUS
<1> USE DEF IInv, StatusInv
<1>1. ASSUME NEW s \in Steps, NEW D \in SUBSET Steps, AddStep(s, D) PROVE StatusInv'
  BY <1>1 DEF AddStep
<1>2. CASE Build \/ SelectRound \/ MergeRound
  BY <1>2 DEF Build, SelectRound, MergeRound
<1>3. ASSUME NEW s \in Steps, StartStep(s) \/ SkipStep(s) PROVE StatusInv'
  BY <1>3 DEF StartStep, SkipStep, Enter
<1>4. ASSUME NEW s \in Steps, FinishStep(s) PROVE StatusInv'
  BY <1>4 DEF FinishStep, PartitionInv
<1>5. CASE Finish
  BY <1>5 DEF Finish, builderVars, resultVars, overall_status, MoreToDo, get_ready_steps,
              Template, decided
<1>6. CASE UNCHANGED vars
  BY <1>6 DEF vars, overall_status, MoreToDo, get_ready_steps, Template, decided
<1> QED BY <1>1, <1>2, <1>3, <1>4, <1>5, <1>6 DEF Next

(* IInv is inductive. *)
LEMMA IInvStep == IInv /\ [Next]_vars => IInv'
BY TypeStep, GraphStep, PartitionStep, DepsStep, InputsStep, StatusStep DEF IInv

LEMMA IInvHolds == Spec => []IInv
BY InitIInv, IInvStep, PTL DEF Spec

-----------------------------------------------------------------------------
(* When the counters say that nothing is left, everything was decided. *)
LEMMA NothingLeft == ASSUME IInv, ~MoreToDo PROVE decided = Template
<1> USE RunnerAssumption DEF IInv, decided
<1>1. IsFiniteSet(Template) /\ IsFiniteSet(completed_ids) /\ IsFiniteSet(failed_ids)
  BY FS_Subset DEF Template, TypeOK
<1>2. IsFiniteSet(decided) /\ IsFiniteSet(completed_ids \cap failed_ids)
  BY <1>1, FS_Union, FS_Subset
<1>3. /\ Cardinality(decided) = Cardinality(completed_ids) + Cardinality(failed_ids)
                                 - Cardinality(completed_ids \cap failed_ids)
      /\ Cardinality(completed_ids \cap failed_ids) = 0
  BY <1>1, FS_Union, FS_EmptySet DEF PartitionInv
<1>4. /\ Cardinality(decided) \in Nat /\ Cardinality(Template) \in Nat
      /\ Cardinality(completed_ids) \in Nat /\ Cardinality(failed_ids) \in Nat
  BY <1>1, <1>2, FS_CardinalityType
<1>5. decided \subseteq Template
  BY DEF PartitionInv
<1>6. Cardinality(decided) >= Cardinality(Template)
  BY <1>3, <1>4 DEF MoreToDo, GraphInv
<1>7. Cardinality(decided) <= Cardinality(Template)
      /\ (Cardinality(decided) = Cardinality(Template) => decided = Template)
  BY ONLY <1>1, <1>5, FS_Subset
<1> QED BY <1>4, <1>6, <1>7

(* When no step can be selected, the steps left out are those below a      *)
(* failure: a set of left-out steps closed under dependencies and free of  *)
(* failures would be a cycle.                                              *)
LEMMA LeftOut ==
  ASSUME IInv, phase # "building", ~MoreToDo \/ get_ready_steps = {}
  PROVE  \A s \in Template \ failed_ids : s \notin completed_ids <=> BelowFailure(s)
<1> USE DEF IInv
<1> TAKE s \in Template \ failed_ids
<1>1. ASSUME s \in completed_ids PROVE ~BelowFailure(s)
  <2>1. completed_ids \in SUBSET Template /\ ClosedUnderDeps(completed_ids)
    BY DEF PartitionInv, DepsInv, ClosedUnderDeps, decided
  <2> QED BY <1>1, <2>1 DEF BelowFailure, PartitionInv
<1>2. ASSUME s \notin completed_ids, NEW S \in SUBSET Template,
             s \in S, ClosedUnderDeps(S), S \cap failed_ids = {}
      PROVE  FALSE
  <2> DEFINE U == S \ completed_ids
  <2>1. MoreToDo
    BY <1>2, NothingLeft DEF decided
  <2>2. ASSUME NEW t \in U PROVE depends_on[t] \cap U # {}
    <3>1. t \notin get_ready_steps /\ t \in Template \ decided
      BY <1>2, <2>1, <2>2 DEF decided
    <3>2. depends_on[t] \subseteq S
      BY <1>2, <2>2 DEF ClosedUnderDeps
    <3> QED BY <1>2, <3>1, <3>2 DEF get_ready_steps
  <2>3. U \in SUBSET Template /\ U # {}
    BY <1>2
  <2> QED BY <2>2, <2>3 DEF GraphInv, HasCycle
<1> QED BY <1>1, <1>2 DEF BelowFailure

LEMMA VerdictFromIInv == IInv => VerdictSound
<1> SUFFICES ASSUME IInv, phase = "done" PROVE VerdictSound
  BY DEF VerdictSound
<1> USE DEF IInv
<1>1. \A s \in Template \ failed_ids : s \notin completed_ids <=> BelowFailure(s)
  BY LeftOut DEF StatusInv
<1>2. status = "failed" => failed_ids # {}
  BY DEF StatusInv, overall_status
<1>3. status = "completed" => Template = completed_ids
  <2> SUFFICES ASSUME failed_ids = {}, NEW s \in Template, s \notin completed_ids
               PROVE FALSE
    BY DEF StatusInv, overall_status, PartitionInv, decided
  <2>1. ClosedUnderDeps(Template)
    BY DEF ClosedUnderDeps, GraphInv
  <2> QED BY <1>1, <2>1 DEF BelowFailure
<1> QED BY <1>1, <1>2, <1>3 DEF VerdictSound

-----------------------------------------------------------------------------
(* WorkflowRunner.run keeps its variables' types and never has more than   *)
(* max_parallel_steps steps inside the semaphore.                          *)
THEOREM TypeCorrect == Spec => []TypeOK
BY IInvHolds, PTL DEF IInv

(* A step starts only with the outputs of all its dependencies in the      *)
(* context, for every graph and every interleaving of a round.             *)
THEOREM StepsReadTheirDependencies == Spec => []InputsComplete
<1>1. ASSUME IInv, NEW s \in Template, Started(s)
      PROVE  depends_on[s] \subseteq inputs[s] /\ depends_on[s] \subseteq completed_ids
  <2>1. s \in running \cup Finished \cup decided
    BY <1>1 DEF Started, Finished, Template
  <2>2. depends_on[s] \subseteq completed_ids
    BY <1>1, <2>1 DEF IInv, DepsInv
  <2>3. inputs[s] = decided \/ depends_on[s] \subseteq inputs[s]
    BY <1>1, <2>1 DEF IInv, InputsInv
  <2> QED BY <2>2, <2>3 DEF decided
<1>2. IInv => InputsComplete
  BY <1>1 DEF InputsComplete
<1> QED BY <1>2, IInvHolds, PTL

(* The steps one gather runs read the same outputs.                        *)
THEOREM RoundIsolation == Spec => []RoundIsIsolated
<1>1. ASSUME IInv, NEW s \in InRound \ waiting, NEW t \in InRound \ waiting
      PROVE  inputs[s] = inputs[t] /\ t \notin inputs[s]
  <2>1. s \in running \cup Finished /\ t \in running \cup Finished
    BY <1>1 DEF InRound, Finished
  <2>2. inputs[s] = decided /\ inputs[t] = decided
    BY <1>1, <2>1 DEF IInv, InputsInv
  <2>3. t \notin decided
    BY <1>1, <2>1 DEF IInv, PartitionInv
  <2> QED BY <2>2, <2>3
<1>2. IInv => RoundIsIsolated
  BY <1>1 DEF RoundIsIsolated
<1> QED BY <1>2, IInvHolds, PTL

(* The overall status of a run says what happened to each of its steps.    *)
THEOREM VerdictIsSound == Spec => []VerdictSound
BY VerdictFromIInv, IInvHolds, PTL

-----------------------------------------------------------------------------
(* The run implements the abstract execution of its dependency graph.      *)
LEMMA DagUnchanged ==
  ASSUME UNCHANGED <<builderVars, running, batch_results, resultVars, status>>,
         phase' = "building" <=> phase = "building"
  PROVE  UNCHANGED Dag!vars
BY SameGraph DEF Dag!vars, DagPlan, DagDeps, DagState, StateOf, builderVars, resultVars

(* A step waiting for the semaphore may start in the abstract execution. *)
LEMMA WaitingIsStartable ==
  ASSUME IInv, NEW s \in waiting
  PROVE  /\ status = "none"
         /\ Dag!Startable(s)
         /\ DagState[s] = "pending"
<1> USE DEF IInv
<1>1. phase = "round"
  BY DEF PartitionInv, TypeOK, StatusInv
<1>2. status = "none"
  BY <1>1 DEF StatusInv
<1>3. s \in Template /\ s \in Steps /\ s \notin running \cup Finished \cup decided
  BY DEF PartitionInv, TypeOK
<1>4. DagState[s] = "pending"
  BY <1>3 DEF DagState, StateOf, Finished, decided
<1>5. \A t \in depends_on[s] : t \in completed_ids
  BY DEF DepsInv
<1>6. \A t \in completed_ids : t \in Steps /\ t \notin failed_ids /\ batch_results[t] = "none"
  BY DEF PartitionInv, Finished, decided, TypeOK
<1>7. \A t \in depends_on[s] : DagState[t] = "succeeded"
  BY <1>5, <1>6 DEF DagState, StateOf
<1> QED BY <1>1, <1>2, <1>3, <1>4, <1>7 DEF Dag!Startable, DagPlan, DagDeps

LEMMA DagInit == Init => Dag!Init
<1> SUFFICES ASSUME Init PROVE Dag!Init
  OBVIOUS
<1>1. DagPlan = {} /\ DagDeps = [s \in Steps |-> {}]
  BY DEF Init, DagPlan, DagDeps
<1>2. DagState = [s \in Steps |-> "pending"]
  BY DEF Init, DagState, StateOf
<1> QED BY <1>1, <1>2 DEF Dag!Init, Init

(* Build publishes an acyclic graph closed under dependencies. *)
LEMMA DagPublish == ASSUME IInv, Build PROVE Dag!Publish
<1> USE DEF IInv
<1>1. DagPlan = {} /\ DagPlan' = Template /\ DagDeps' = depends_on
  BY SameGraph DEF Build, DagPlan, DagDeps, builderVars
<1>2. Template # {} /\ ~HasCycle(Template)
  BY FS_EmptySet DEF Build, Valid, GraphInv
<1>3. Dag!Acyclic(Template, depends_on)
  BY <1>2 DEF Dag!Acyclic, HasCycle
<1>4. DagState' = DagState /\ status' = status
  BY DEF Build, DagState, StateOf, roundVars, resultVars
<1>5. \A s \in Template : depends_on[s] \subseteq Template
  BY DEF GraphInv
<1> QED BY <1>1, <1>2, <1>3, <1>4, <1>5 DEF Dag!Publish, TypeOK, Template

LEMMA DagStart == ASSUME IInv, NEW s \in Steps, StartStep(s) PROVE Dag!Start(s)
<1>1. s \in waiting /\ UNCHANGED <<builderVars, batch_results, resultVars, status, phase>>
      /\ running' = running \cup {s}
  BY DEF StartStep, Enter, NextInLine
<1>2. UNCHANGED <<DagPlan, DagDeps, status>>
  BY <1>1, SameGraph DEF DagPlan, DagDeps, builderVars
<1>3. status = "none" /\ Dag!Startable(s) /\ DagState[s] = "pending"
  BY <1>1, WaitingIsStartable
<1>4. DagState' = [DagState EXCEPT ![s] = "running"]
  BY <1>1, <1>3 DEF DagState, StateOf, resultVars
<1> QED BY <1>2, <1>3, <1>4 DEF Dag!Start

LEMMA DagSkip == ASSUME IInv, NEW s \in Steps, SkipStep(s) PROVE Dag!Skip(s)
<1>1. s \in waiting /\ UNCHANGED <<builderVars, running, resultVars, status, phase>>
      /\ batch_results' = [batch_results EXCEPT ![s] = "skipped"]
  BY DEF SkipStep, Enter, NextInLine
<1>2. UNCHANGED <<DagPlan, DagDeps, status>>
  BY <1>1, SameGraph DEF DagPlan, DagDeps, builderVars
<1>3. status = "none" /\ Dag!Startable(s) /\ DagState[s] = "pending"
  BY <1>1, WaitingIsStartable
<1>4. s \notin failed_ids
  BY <1>1 DEF IInv, PartitionInv, decided
<1>5. DagState' = [DagState EXCEPT ![s] = "succeeded"]
  BY <1>1, <1>4 DEF DagState, StateOf, resultVars, IInv, TypeOK
<1> QED BY <1>2, <1>3, <1>5 DEF Dag!Skip

LEMMA DagSettle == ASSUME IInv, NEW s \in Steps, FinishStep(s) PROVE Dag!Settle(s)
<1>1. PICK o \in {"completed", "failed"} :
        batch_results' = [batch_results EXCEPT ![s] = o]
  BY DEF FinishStep
<1>2. s \in running /\ UNCHANGED <<builderVars, resultVars, status, phase>>
      /\ running' = running \ {s}
  BY DEF FinishStep
<1>3. UNCHANGED <<DagPlan, DagDeps, status>>
  BY <1>2, SameGraph DEF DagPlan, DagDeps, builderVars
<1>4. s \notin decided /\ batch_results[s] = "none"
  BY <1>2 DEF IInv, PartitionInv, Finished
<1>5. DagState[s] = "running"
  BY <1>2, <1>4 DEF DagState, StateOf, decided
<1>6. DagState' = [DagState EXCEPT ![s] = IF o = "failed" THEN "failed" ELSE "succeeded"]
  BY <1>1, <1>2, <1>4 DEF DagState, StateOf, resultVars, decided, IInv, TypeOK
<1> QED BY <1>3, <1>5, <1>6 DEF Dag!Settle

(* The merge moves outcomes from one place to another. *)
LEMMA DagMerge == ASSUME IInv, MergeRound PROVE UNCHANGED Dag!vars
<1>1. UNCHANGED <<builderVars, running, status>> /\ running = {}
      /\ phase = "round" /\ phase' = "selecting"
  BY DEF MergeRound, RoundOver
<1>2. UNCHANGED <<DagPlan, DagDeps, status>>
  BY <1>1, SameGraph DEF DagPlan, DagDeps, builderVars
<1>3. ASSUME NEW s \in Steps PROVE StateOf(s)' = StateOf(s)
  <2>1. batch_results[s] \in Outcomes \cup {"none"} /\ batch_results'[s] = "none"
    BY DEF IInv, TypeOK, MergeRound
  <2>2. s \in failed_ids' <=> s \in failed_ids \/ batch_results[s] = "failed"
    BY DEF MergeRound
  <2>3. s \in completed_ids' <=> s \in completed_ids
                                 \/ batch_results[s] \in {"completed", "skipped"}
    BY DEF MergeRound
  <2> QED BY <1>1, <2>1, <2>2, <2>3 DEF StateOf
<1>4. DagState' = DagState
  BY <1>3 DEF DagState
<1> QED BY <1>2, <1>4 DEF Dag!vars

(* VerdictFromIInv in the state a step leads to. *)
LEMMA VerdictAfter == IInv' => VerdictSound'
BY VerdictFromIInv, PTL

(* The run ends when the abstract execution may, with the same verdict. *)
LEMMA DagConclude == ASSUME IInv, IInv', Finish PROVE Dag!Conclude
<1>1. UNCHANGED <<builderVars, roundVars, resultVars>> /\ phase = "selecting"
      /\ phase' = "done" /\ status = "none" /\ status' = overall_status
  BY DEF Finish, IInv, StatusInv
<1>2. DagPlan = Template /\ Template # {} /\ DagDeps = depends_on
      /\ UNCHANGED <<DagPlan, DagDeps, DagState>>
  BY <1>1, SameGraph DEF DagPlan, DagDeps, DagState, StateOf, builderVars, roundVars,
                         resultVars, IInv, GraphInv
<1>3. running = {} /\ \A s \in Steps : batch_results[s] = "none"
  BY <1>1 DEF IInv, PartitionInv, Finished
<1>4. \A s \in Template : DagState[s] = IF s \in failed_ids THEN "failed"
                             ELSE IF s \in completed_ids THEN "succeeded" ELSE "pending"
  BY <1>3 DEF DagState, StateOf, Template
<1>5. ASSUME NEW s \in Template, Dag!Startable(s) PROVE FALSE
  <2>1. s \notin decided /\ \A t \in depends_on[s] : DagState[t] = "succeeded"
    BY <1>2, <1>4, <1>5 DEF Dag!Startable, decided
  <2>2. depends_on[s] \subseteq completed_ids /\ depends_on[s] \cap failed_ids = {}
    BY <2>1, <1>4 DEF IInv, GraphInv
  <2>3. s \in get_ready_steps
    BY <2>1, <2>2 DEF get_ready_steps
  <2> QED BY <2>1, <2>3, NothingLeft DEF Finish
<1>6. overall_status = IF \A s \in Template : DagState[s] = "succeeded"
                       THEN "completed" ELSE "failed"
  <2>1. VerdictSound'
    BY VerdictAfter
  <2>2. status' = "completed" => Template = completed_ids
    BY <1>1, <2>1, SameGraph DEF VerdictSound, resultVars
  <2>3. CASE failed_ids = {}
    BY <1>1, <1>4, <2>2, <2>3 DEF overall_status
  <2>4. CASE failed_ids # {}
    BY <1>4, <2>4 DEF overall_status, IInv, PartitionInv, decided
  <2> QED BY <2>3, <2>4
<1>7. \A s \in Template : DagState[s] # "running" /\ ~Dag!Startable(s)
  BY <1>4, <1>5
<1> QED BY <1>1, <1>2, <1>6, <1>7 DEF Dag!Conclude

(* Every behaviour of the runner is one of the abstract execution: steps   *)
(* start after their dependencies succeeded, settle once, and the verdict  *)
(* comes when nothing runs and nothing could start.                        *)
THEOREM Refinement == Spec => ImplementsDag
<1>1. ASSUME IInv, IInv', [Next]_vars PROVE [Dag!Next]_(Dag!vars)
  <2>1. ASSUME NEW s \in Steps, NEW D \in SUBSET Steps, AddStep(s, D)
        PROVE  UNCHANGED Dag!vars
    BY <2>1 DEF AddStep, roundVars, resultVars, Dag!vars, DagPlan, DagDeps, DagState, StateOf
  <2>2. CASE Build
    BY <1>1, <2>2, DagPublish DEF Dag!Next
  <2>3. CASE SelectRound
    BY <2>3, DagUnchanged DEF SelectRound
  <2>4. ASSUME NEW s \in Steps, StartStep(s) \/ SkipStep(s) \/ FinishStep(s)
        PROVE  Dag!Next
    BY <1>1, <2>4, DagStart, DagSkip, DagSettle DEF Dag!Next
  <2>5. CASE MergeRound
    BY <1>1, <2>5, DagMerge
  <2>6. CASE Finish
    BY <1>1, <2>6, DagConclude DEF Dag!Next
  <2>7. CASE UNCHANGED vars
    BY <2>7, DagUnchanged DEF vars, builderVars, resultVars
  <2> QED BY <1>1, <2>1, <2>2, <2>3, <2>4, <2>5, <2>6, <2>7 DEF Next
<1> QED BY <1>1, DagInit, IInvHolds, PTL DEF Spec, Dag!Spec, ImplementsDag

-----------------------------------------------------------------------------
(* What the abstract execution promises holds of it ... *)

DagInv ==
  /\ DagPlan \subseteq Steps
  /\ \A s \in DagPlan : DagDeps[s] \subseteq DagPlan
  /\ Dag!Acyclic(DagPlan, DagDeps)
  /\ DagState \in [Steps -> Dag!StepStates]
  /\ \A s \in Steps \ DagPlan : DagState[s] = "pending"
  /\ status \in {"none", "completed", "failed"}
  /\ Dag!DependenciesFirst
  /\ Dag!VerdictMeans

LEMMA DagInvInit == Dag!Init => DagInv
<1> SUFFICES ASSUME Dag!Init PROVE DagInv
  OBVIOUS
<1>1. DagPlan = {} /\ status = "none" /\ DagState = [s \in Steps |-> "pending"]
  BY DEF Dag!Init
<1>2. Dag!DependenciesFirst /\ Dag!VerdictMeans
  BY <1>1 DEF Dag!DependenciesFirst, Dag!VerdictMeans
<1>3. Dag!Acyclic(DagPlan, DagDeps)
  BY <1>1 DEF Dag!Acyclic
<1> QED BY <1>1, <1>2, <1>3 DEF DagInv, Dag!StepStates

(* Steps waiting for each other only because of each other would be a      *)
(* cycle.                                                                  *)
LEMMA SomeStepFailed ==
  ASSUME DagInv, \A s \in DagPlan : DagState[s] # "running" /\ ~Dag!Startable(s),
         NEW u \in DagPlan, DagState[u] # "succeeded"
  PROVE  \E s \in DagPlan : DagState[s] = "failed"
<1> SUFFICES ASSUME \A s \in DagPlan : DagState[s] # "failed" PROVE FALSE
  OBVIOUS
<1> DEFINE P == {s \in DagPlan : DagState[s] = "pending"}
<1>1. \A s \in DagPlan : DagState[s] \in {"pending", "succeeded"}
  BY DEF DagInv, Dag!StepStates
<1>2. P \in SUBSET DagPlan /\ P # {}
  BY <1>1
<1>3. ASSUME NEW s \in P PROVE DagDeps[s] \cap P # {}
  <2>1. PICK t \in DagDeps[s] : DagState[t] # "succeeded"
    BY DEF Dag!Startable
  <2> QED BY <1>1, <2>1 DEF DagInv
<1> HIDE DEF P
<1> QED BY <1>2, <1>3 DEF DagInv, Dag!Acyclic

LEMMA DagInvStep == DagInv /\ [Dag!Next]_(Dag!vars) => DagInv' /\ Dag!Forward
<1> SUFFICES ASSUME DagInv, [Dag!Next]_(Dag!vars)
             PROVE  DagInv' /\ Dag!Forward
  OBVIOUS
<1>1. CASE Dag!Publish
  <2>1. /\ DagPlan = {} /\ DagPlan' \subseteq Steps /\ DagPlan' # {}
        /\ \A s \in DagPlan' : DagDeps'[s] \subseteq DagPlan'
        /\ Dag!Acyclic(DagPlan', DagDeps') /\ DagState' = DagState /\ status' = status
    BY <1>1 DEF Dag!Publish
  <2>2. status = "none"
    BY <2>1 DEF DagInv, Dag!VerdictMeans
  <2>3. Dag!DependenciesFirst' /\ Dag!VerdictMeans'
    BY <2>1, <2>2 DEF DagInv, Dag!DependenciesFirst, Dag!VerdictMeans
  <2>4. Dag!Acyclic(DagPlan, DagDeps)'
    BY <2>1 DEF Dag!Acyclic
  <2>5. Dag!Forward
    BY <2>1, <2>2 DEF Dag!Forward, Dag!Settled
  <2> QED BY <2>1, <2>2, <2>3, <2>4, <2>5 DEF DagInv
<1>2. ASSUME NEW s \in Steps, Dag!Start(s) \/ Dag!Skip(s) \/ Dag!Settle(s)
      PROVE  DagInv' /\ Dag!Forward
  <2>1. PICK v \in Dag!StepStates \ {"pending"} : DagState' = [DagState EXCEPT ![s] = v]
    BY <1>2 DEF Dag!Start, Dag!Skip, Dag!Settle, Dag!StepStates
  <2>2. UNCHANGED <<DagPlan, DagDeps, status>> /\ status = "none" /\ s \in DagPlan
    BY <1>2 DEF Dag!Start, Dag!Skip, Dag!Settle, Dag!Startable, DagInv, Dag!VerdictMeans
  <2>3. /\ DagState[s] \in {"pending", "running"}
        /\ \A t \in DagDeps[s] : DagState[t] = "succeeded"
    BY <1>2, <2>2 DEF Dag!Start, Dag!Skip, Dag!Settle, Dag!Startable, DagInv,
       Dag!DependenciesFirst
  <2>4. DagState[s] = "running" => v # "pending"
    BY <2>1
  <2>5. Dag!DependenciesFirst'
    BY <2>1, <2>2, <2>3 DEF DagInv, Dag!DependenciesFirst
  <2>6. Dag!VerdictMeans'
    BY <2>2 DEF Dag!VerdictMeans
  <2>7. Dag!Acyclic(DagPlan, DagDeps)'
    BY <2>2 DEF DagInv, Dag!Acyclic
  <2>8. Dag!Forward
    BY <2>1, <2>2, <2>3 DEF Dag!Forward, DagInv, Dag!Settled
  <2> QED BY <2>1, <2>2, <2>5, <2>6, <2>7, <2>8 DEF DagInv
<1>3. CASE Dag!Conclude
  <2>1. /\ status = "none" /\ UNCHANGED <<DagPlan, DagDeps, DagState>>
        /\ \A s \in DagPlan : DagState[s] # "running" /\ ~Dag!Startable(s)
        /\ status' = IF \A s \in DagPlan : DagState[s] = "succeeded"
                       THEN "completed" ELSE "failed"
    BY <1>3 DEF Dag!Conclude
  <2>2. Dag!VerdictMeans'
    <3>1. DagPlan # {}
      BY <1>3 DEF Dag!Conclude
    <3>2. CASE \A s \in DagPlan : DagState[s] = "succeeded"
      BY <2>1, <3>1, <3>2 DEF Dag!VerdictMeans
    <3>3. CASE \E s \in DagPlan : DagState[s] # "succeeded"
      BY <2>1, <3>1, <3>3, SomeStepFailed DEF Dag!VerdictMeans
    <3> QED BY <3>2, <3>3
  <2>3. Dag!DependenciesFirst' /\ Dag!Acyclic(DagPlan, DagDeps)'
    BY <2>1 DEF DagInv, Dag!DependenciesFirst, Dag!Acyclic
  <2>4. Dag!Forward
    BY <2>1 DEF Dag!Forward, DagInv, Dag!Settled
  <2> QED BY <2>1, <2>2, <2>3, <2>4 DEF DagInv
<1>4. CASE UNCHANGED Dag!vars
  <2>1. UNCHANGED <<DagPlan, DagDeps, DagState, status>>
    BY <1>4 DEF Dag!vars
  <2>2. DagInv'
    BY <2>1 DEF DagInv, Dag!DependenciesFirst, Dag!VerdictMeans, Dag!Acyclic
  <2>3. Dag!Forward
    BY <1>4, <2>1 DEF DagInv, Dag!Forward, Dag!Settled
  <2> QED BY <2>2, <2>3
<1> QED BY <1>1, <1>2, <1>3, <1>4 DEF Dag!Next

(* ... and so of every run: whatever the rounds, the semaphore and the     *)
(* order of the answers, no step is begun before its dependencies          *)
(* succeeded.                                                              *)
THEOREM DependenciesComeFirst == Spec => []Dag!DependenciesFirst
<1>1. DagInv => Dag!DependenciesFirst
  BY DEF DagInv
<1> QED BY <1>1, DagInvInit, DagInvStep, Refinement, PTL DEF ImplementsDag, Dag!Spec

(* A run that reports "failed" has a step that failed, one that reports    *)
(* "completed" has none and left none out, and neither has one running.    *)
THEOREM VerdictsMean == Spec => []Dag!VerdictMeans
<1>1. DagInv => Dag!VerdictMeans
  BY DEF DagInv
<1> QED BY <1>1, DagInvInit, DagInvStep, Refinement, PTL DEF ImplementsDag, Dag!Spec

(* No step is executed twice, no outcome is revised, by the merge of a     *)
(* round included, and nothing changes after the verdict.                  *)
THEOREM StepsGoForward == Spec => Dag!OnlyForward
<1>1. DagInv /\ [Dag!Next]_(Dag!vars) => [Dag!Forward]_(Dag!vars)
  BY DagInvStep
<1> QED BY <1>1, DagInvInit, DagInvStep, Refinement, PTL DEF ImplementsDag, Dag!Spec,
           Dag!OnlyForward

-----------------------------------------------------------------------------
(* Positions in the template: distinct, and a step comes after the steps   *)
(* it depends on.                                                          *)
PositionInv ==
  /\ \A s \in Template : index[s] <= size
  /\ \A s, t \in Template : index[s] = index[t] => s = t
  /\ \A s \in Template : \A t \in depends_on[s] : index[t] < index[s]

LEMMA PositionStep == IInv /\ PositionInv /\ [Next]_vars => PositionInv'
<1> SUFFICES ASSUME IInv, PositionInv, [Next]_vars PROVE PositionInv'
  OBVIOUS
<1> USE DEF IInv
<1>1. ASSUME NEW s \in Steps, NEW D \in SUBSET Steps, AddStep(s, D) PROVE PositionInv'
  <2>1. Template' = Template \cup {s} /\ s \notin Template
    BY <1>1, TemplateAdd
  <2>2. /\ size' = size + 1 /\ D \subseteq Template
        /\ index' = [index EXCEPT ![s] = size + 1]
        /\ depends_on' = [depends_on EXCEPT ![s] = D]
    BY <1>1 DEF AddStep, CanAdd
  <2>3. \A t \in Template : index'[t] = index[t] /\ depends_on'[t] = depends_on[t]
    BY <2>1, <2>2 DEF TypeOK, Template
  <2>4. index'[s] = size + 1 /\ depends_on'[s] = D
    BY <2>2 DEF TypeOK
  <2>5. \A t \in Template : index[t] < size + 1 /\ index[t] \in Nat
    BY DEF PositionInv, TypeOK, Template
  <2>6. \A t \in Template' : index'[t] <= size'
    BY <2>1, <2>2, <2>3, <2>4, <2>5 DEF TypeOK
  <2>7. \A t, u \in Template' : index'[t] = index'[u] => t = u
    BY <2>1, <2>3, <2>4, <2>5 DEF PositionInv, TypeOK
  <2>8. ASSUME NEW t \in Template', NEW u \in depends_on'[t] PROVE index'[u] < index'[t]
    <3>1. CASE t = s
      BY <2>2, <2>3, <2>4, <2>5, <2>8, <3>1
    <3>2. CASE t # s
      <4>1. t \in Template /\ u \in depends_on[t] /\ index[u] < index[t]
        BY <2>1, <2>3, <2>8, <3>2 DEF PositionInv
      <4>2. u # s
        BY <2>1, <4>1 DEF GraphInv
      <4> QED BY <2>2, <2>3, <4>1, <4>2 DEF TypeOK
    <3> QED BY <3>1, <3>2
  <2> QED BY <2>6, <2>7, <2>8 DEF PositionInv
<1>2. CASE UNCHANGED builderVars
  BY <1>2 DEF builderVars, PositionInv, Template
<1> QED BY <1>1, <1>2 DEF Next, Build, SelectRound, StartStep, SkipStep, FinishStep, Enter,
           MergeRound, Finish, vars, builderVars

(* Some step of a nonempty set comes first. *)
LEMMA FirstOf ==
  ASSUME TypeOK, NEW S \in SUBSET Steps, S # {}
  PROVE  \E s \in S : \A t \in S : index[s] <= index[t]
<1> DEFINE T == {index[s] : s \in S}
<1>1. T \subseteq Nat /\ T # {}
  BY DEF TypeOK
<1> HIDE DEF T
<1> DEFINE R == {p \in Nat \X Nat : p[1] < p[2]}
<1>0. IsWellFoundedOn(R, Nat)
  BY NatLessThanWellFounded, Zenon DEF OpToRel
<1>2. PICK n \in T : \A m \in T : <<m, n>> \notin R
  BY <1>0, <1>1, WFMin
<1>3. \A m \in T : ~(m < n)
  BY <1>1, <1>2
<1>4. PICK s \in S : index[s] = n
  BY <1>2 DEF T
<1>5. ASSUME NEW t \in S PROVE index[s] <= index[t]
  <2>1. index[t] \in T /\ index[t] \in Nat /\ n \in Nat
    BY <1>1 DEF T
  <2> QED BY <1>3, <1>4, <2>1
<1> QED BY <1>5

(* What add_step lets through is acyclic already: the only workflow that   *)
(* build() refuses is the empty one, and its test for cycles never fires.  *)
OnlyEmptyRefused == phase = "building" => (Valid <=> size # 0)

(* workflow_builder.py: add_step refuses what would make a cycle           *)
(* possible.                                                               *)
THEOREM AcyclicByConstruction == Spec => []OnlyEmptyRefused
<1>1. Init => PositionInv
  BY DEF Init, PositionInv, Template
<1>2. ASSUME TypeOK, PositionInv, NEW S \in SUBSET Template, S # {}
      PROVE  \E s \in S : depends_on[s] \cap S = {}
  <2>1. PICK s \in S : \A t \in S : index[s] <= index[t]
    BY <1>2, FirstOf DEF Template
  <2>2. \A t \in depends_on[s] : index[t] < index[s]
    BY <1>2 DEF PositionInv
  <2>3. \A t \in S : index[t] \in Nat /\ index[s] \in Nat
    BY <1>2 DEF TypeOK, Template
  <2> QED BY <2>1, <2>2, <2>3
<1>3. TypeOK /\ PositionInv => ~HasCycle(Template)
  BY <1>2 DEF HasCycle
<1>4. IInv /\ PositionInv => OnlyEmptyRefused
  BY <1>3 DEF OnlyEmptyRefused, Valid, IInv, GraphInv
<1>5. IInv => TypeOK
  BY DEF IInv
<1> QED BY <1>1, <1>4, <1>5, PositionStep, IInvHolds, PTL DEF Spec

-----------------------------------------------------------------------------
(* What RunEnds needs besides fairness: a run is never without a step it   *)
(* can take, and every step brings it nearer to the end.                   *)

(* While a round is open some step is next in line for the semaphore, some *)
(* step holds it, or gather returns: the semaphore cannot lock a run up.   *)
RoundGoesOn ==
  phase = "round" => (\E s \in Steps : NextInLine(s)) \/ running # {} \/ RoundOver

(* workflow_runner.py: gather over a semaphore always has a task that can  *)
(* go on, or is over.                                                      *)
THEOREM RoundsGoOn == Spec => []RoundGoesOn
<1>1. ASSUME IInv, running = {}, waiting # {} PROVE \E s \in Steps : NextInLine(s)
  <2> USE <1>1, RunnerAssumption DEF IInv
  <2>1. PICK s \in waiting : \A t \in waiting : index[s] <= index[t]
    BY FirstOf DEF TypeOK
  <2>2. Cardinality(running) < MaxParallel
    BY FS_EmptySet
  <2> QED BY <2>1, <2>2 DEF NextInLine, TypeOK
<1>2. IInv => RoundGoesOn
  BY <1>1 DEF RoundGoesOn, RoundOver
<1> QED BY <1>2, IInvHolds, PTL

(* Steps left to the run, each waiting for its round, for the semaphore or *)
(* for its handler, and the two actions that open and close a round.       *)
Work ==
  IF phase = "selecting" THEN 4 * Cardinality(Template \ decided) + 1
  ELSE IF phase = "round"
    THEN 4 * Cardinality((Template \ decided) \ InRound)
           + 2 * Cardinality(waiting) + Cardinality(running) + 2
    ELSE 0

(* Every action of a built workflow strictly lessens Work, a natural       *)
(* number: after build() no run of n steps takes more than 4n + 1 actions, *)
(* however its steps fail, whatever order they finish in.                  *)
Descends == [][phase # "building" => Work' < Work]_vars
WorkIsNat == Work \in Nat

LEMMA Numbers ==
  ASSUME IInv, NEW S \in SUBSET Steps
  PROVE  IsFiniteSet(S) /\ Cardinality(S) \in Nat
BY RunnerAssumption, FS_Subset, FS_CardinalityType

LEMMA WorkType == IInv => WorkIsNat
<1> SUFFICES ASSUME IInv PROVE WorkIsNat
  OBVIOUS
<1>1. /\ Cardinality(Template \ decided) \in Nat
      /\ Cardinality((Template \ decided) \ InRound) \in Nat
      /\ Cardinality(waiting) \in Nat /\ Cardinality(running) \in Nat
  BY Numbers DEF IInv, TypeOK, Template
<1> QED BY <1>1 DEF WorkIsNat, Work

(* workflow_runner.py run: the loop cannot go on for ever, whatever        *)
(* fails.                                                                  *)
THEOREM RunsComeToAnEnd == Spec => []WorkIsNat /\ Descends
<1> DEFINE Down == phase # "building" => Work' < Work
<1>1. ASSUME IInv, IInv', Next PROVE Down
  <2> SUFFICES ASSUME phase # "building" PROVE Work' < Work
    OBVIOUS
  <2> USE <1>1 DEF IInv
  <2>0. /\ Cardinality(Template \ decided) \in Nat
        /\ Cardinality((Template \ decided) \ InRound) \in Nat
        /\ Cardinality(waiting) \in Nat /\ Cardinality(running) \in Nat
    BY Numbers DEF TypeOK, Template
  <2>1. CASE SelectRound
    <3>1. /\ phase = "selecting" /\ phase' = "round" /\ waiting' = get_ready_steps
          /\ waiting' # {} /\ running' = {} /\ InRound' = waiting'
          /\ Template' = Template /\ decided' = decided
      BY <2>1, SameGraph DEF SelectRound, PartitionInv, InRound, resultVars, decided, Finished
    <3>2. waiting' \subseteq Template \ decided
      BY <3>1 DEF get_ready_steps
    <3> DEFINE L == Template \ decided
               W == waiting'
    <3>3. IsFiniteSet(L) /\ W \subseteq L /\ W # {}
      BY <3>1, <3>2, Numbers DEF Template
    <3> HIDE DEF L, W
    <3>4. /\ IsFiniteSet(W) /\ IsFiniteSet(L \ W) /\ L = W \cup (L \ W)
          /\ W \cap (L \ W) = {}
      BY <3>3, FS_Subset
    <3>5. Cardinality(L) = Cardinality(W) + Cardinality(L \ W) - Cardinality({})
      BY <3>4, FS_Union
    <3>6. /\ Cardinality(W) \in Nat /\ Cardinality(L \ W) \in Nat
          /\ Cardinality({}) = 0 /\ Cardinality(W) # 0
      BY <3>3, <3>4, FS_CardinalityType, FS_EmptySet
    <3>7. Work = 4 * Cardinality(L) + 1
      BY <3>1 DEF Work, L
    <3>8. Work' = 4 * Cardinality(L \ W) + 2 * Cardinality(W) + 0 + 2
      BY <3>1, <3>6 DEF Work, L, W
    <3> QED BY <3>5, <3>6, <3>7, <3>8
  <2>2. ASSUME NEW s \in Steps, StartStep(s) \/ SkipStep(s) PROVE Work' < Work
    <3>1. /\ phase = "round" /\ phase' = "round" /\ s \in waiting
          /\ waiting' = waiting \ {s} /\ Template' = Template /\ decided' = decided
      BY <2>2, SameGraph DEF StartStep, SkipStep, Enter, NextInLine, resultVars, decided
    <3>2. InRound' = InRound
      <4>1. CASE StartStep(s)
        BY <2>2, <4>1 DEF StartStep, Enter, NextInLine, InRound
      <4>2. CASE SkipStep(s)
        BY <2>2, <4>2 DEF SkipStep, Enter, NextInLine, InRound, TypeOK
      <4> QED BY <2>2, <4>1, <4>2
    <3>3. IsFiniteSet(waiting) /\ IsFiniteSet(running)
      BY Numbers DEF TypeOK
    <3>4. Cardinality(waiting') = Cardinality(waiting) - 1
      BY <3>1, <3>3, FS_RemoveElement
    <3>5. Cardinality(running') <= Cardinality(running) + 1 /\ Cardinality(running') \in Nat
      <4>1. running' = running \/ running' = running \cup {s}
        BY <2>2 DEF StartStep, SkipStep
      <4>2. Cardinality(running \cup {s}) = IF s \in running THEN Cardinality(running)
                                              ELSE Cardinality(running) + 1
        BY <3>3, FS_AddElement
      <4> HIDE DEF IInv
      <4>3. Cardinality(running \cup {s}) \in Nat
            /\ Cardinality(running \cup {s}) <= Cardinality(running) + 1
        BY <2>0, <4>2
      <4>4. CASE running' = running
        BY <2>0, <4>4
      <4>5. CASE running' = running \cup {s}
        BY <4>3, <4>5
      <4> QED BY <4>1, <4>4, <4>5
    <3> QED BY <2>0, <3>1, <3>2, <3>4, <3>5 DEF Work
  <2>3. ASSUME NEW s \in Steps, FinishStep(s) PROVE Work' < Work
    <3>1. /\ s \in running /\ phase' = phase /\ waiting' = waiting
          /\ running' = running \ {s} /\ Template' = Template /\ decided' = decided
      BY <2>3, SameGraph DEF FinishStep, resultVars, decided
    <3>2. phase = "round"
      BY <3>1 DEF PartitionInv
    <3>3. InRound' = InRound
      BY <2>3 DEF FinishStep, InRound, TypeOK
    <3>4. Cardinality(running') = Cardinality(running) - 1
      BY <3>1, Numbers, FS_RemoveElement DEF TypeOK
    <3> QED BY <2>0, <3>1, <3>2, <3>3, <3>4 DEF Work
  <2>4. CASE MergeRound
    <3>1. /\ phase = "round" /\ phase' = "selecting" /\ waiting = {} /\ running = {}
          /\ Template' = Template
      BY <2>4, SameGraph DEF MergeRound, RoundOver
    <3>2. decided' = decided \cup InRound
      BY <2>4, <3>1 DEF MergeRound, decided, InRound, TypeOK, Outcomes
    <3>3. Template' \ decided' = (Template \ decided) \ InRound
      BY <3>1, <3>2
    <3>4. Work' = 4 * Cardinality((Template \ decided) \ InRound) + 1
      BY <3>1, <3>3 DEF Work
    <3>5. Work = 4 * Cardinality((Template \ decided) \ InRound)
                   + 2 * Cardinality(waiting) + Cardinality(running) + 2
      BY <3>1 DEF Work
    <3> HIDE DEF IInv
    <3> QED BY <2>0, <3>4, <3>5
  <2>5. CASE Finish
    BY <2>0, <2>5 DEF Finish, Work
  <2> QED BY <1>1, <2>1, <2>2, <2>3, <2>4, <2>5 DEF Next, AddStep, Build
<1>2. ASSUME IInv, IInv', [Next]_vars PROVE [Down]_vars
  BY <1>1, <1>2
<1> HIDE DEF Down
<1>3. Spec => [][Down]_vars
  BY <1>2, IInvHolds, PTL DEF Spec
<1> QED BY <1>3, WorkType, IInvHolds, PTL DEF Down, Descends

=============================================================================
