------------------------ MODULE AgentSchedulerProofs ------------------------
(***************************************************************************)
(* Proofs about AgentScheduler, for any agents and priorities, any number  *)
(* of calls of start() and stop(), and any limits.                         *)
(*                                                                         *)
(* IInv adds to the types and OnePlace that a scheduler that is not        *)
(* running is at rest or has a stop() that will put it to rest (RestInv),  *)
(* and that whoever is behind a task of lower priority, in the heap or     *)
(* further back in the semaphore's queue, found it there (OrderInv).       *)
(***************************************************************************)
EXTENDS AgentScheduler, FiniteSetTheorems, TLAPS

RestInv == ~is_running => AtRest \/ \E k \in Stops : stops[k] = "waiting"

(* The queue of the semaphore, and the heap behind it. *)
QueueOrder ==
  \A i, j \in DOMAIN waiters :
    i < j /\ Priority[waiters[j]] < Priority[waiters[i]] => waiters[i] \in ahead[waiters[j]]
HeapOrder ==
  \A b \in heap : \A i \in DOMAIN waiters :
    Priority[b] < Priority[waiters[i]] => waiters[i] \in ahead[b]
OrderInv == QueueOrder /\ HeapOrder

IInv == TypeOK /\ OnePlace /\ RestInv /\ OrderInv

-----------------------------------------------------------------------------
(* The semaphore's limit as a number. *)
LEMMA Limit == MaxConcurrent \in Nat /\ 1 <= MaxConcurrent
<1>1. MaxConcurrent \in Nat /\ MaxConcurrent # 0
  BY SchedulerAssumption
<1> QED
  BY <1>1

(* The initial state satisfies the inductive invariant. *)
LEMMA InitIInv == Init => IInv
<1> SUFFICES ASSUME Init PROVE IInv
  OBVIOUS
<1>1. TypeOK
  <2>1. Cardinality(active) = 0
    BY FS_EmptySet DEF Init
  <2>2. Cardinality(active) <= MaxConcurrent
    BY <2>1, Limit
  <2>3. waiters \in Seq(Agents)
    BY DEF Init
  <2> QED
    BY <2>2, <2>3 DEF Init, TypeOK
<1>2. OnePlace
  BY DEF Init, OnePlace, Waiting, Ended
<1>3. RestInv /\ OrderInv
  BY DEF Init, RestInv, AtRest, OrderInv, QueueOrder, HeapOrder
<1> QED
  BY <1>1, <1>2, <1>3 DEF IInv

-----------------------------------------------------------------------------
(* What joins and leaves the semaphore. *)
LEMMA JoinQueue ==
  ASSUME TypeOK, NEW a \in Agents, waiters' = Append(waiters, a)
  PROVE  /\ waiters' \in Seq(Agents)
         /\ DOMAIN waiters = 1 .. Len(waiters)
         /\ DOMAIN waiters' = DOMAIN waiters \cup {Len(waiters) + 1}
         /\ \A i \in DOMAIN waiters : waiters'[i] = waiters[i] /\ i < Len(waiters) + 1
         /\ waiters'[Len(waiters) + 1] = a
         /\ Waiting' = Waiting \cup {a}
<1>1. /\ waiters' \in Seq(Agents)
      /\ Len(waiters) \in Nat
      /\ Len(waiters') = Len(waiters) + 1
      /\ \A i \in 1 .. Len(waiters) : waiters'[i] = waiters[i]
      /\ waiters'[Len(waiters) + 1] = a
  BY DEF TypeOK
<1>2. DOMAIN waiters = 1 .. Len(waiters) /\ DOMAIN waiters' = 1 .. (Len(waiters) + 1)
  BY <1>1 DEF TypeOK
<1>3. DOMAIN waiters' = DOMAIN waiters \cup {Len(waiters) + 1}
  BY <1>1, <1>2
<1>4. \A i \in DOMAIN waiters : waiters'[i] = waiters[i] /\ i < Len(waiters) + 1
  BY <1>1, <1>2
<1>5. Waiting' = Waiting \cup {a}
  BY <1>1, <1>3, <1>4 DEF Waiting
<1> QED
  BY <1>1, <1>2, <1>3, <1>4, <1>5

LEMMA LeaveQueue ==
  ASSUME TypeOK, waiters # <<>>, waiters' = Tail(waiters)
  PROVE  /\ waiters' \in Seq(Agents)
         /\ 1 \in DOMAIN waiters
         /\ waiters[1] = Head(waiters)
         /\ \A i \in DOMAIN waiters' : i + 1 \in DOMAIN waiters /\ waiters'[i] = waiters[i + 1]
         /\ \A i \in DOMAIN waiters \ {1} : i - 1 \in DOMAIN waiters' /\ waiters'[i - 1] = waiters[i]
         /\ \A i \in DOMAIN waiters : i \in Nat /\ i >= 1
         /\ \A i \in DOMAIN waiters' : i \in Nat /\ i >= 1
<1>1. /\ waiters' \in Seq(Agents)
      /\ Len(waiters) \in Nat \ {0}
      /\ Len(waiters') = Len(waiters) - 1
      /\ waiters[1] = Head(waiters)
      /\ \A i \in 1 .. Len(waiters') : waiters'[i] = waiters[i + 1]
  BY DEF TypeOK
<1>2. DOMAIN waiters = 1 .. Len(waiters) /\ DOMAIN waiters' = 1 .. (Len(waiters) - 1)
  BY <1>1 DEF TypeOK
<1> QED
  BY <1>1, <1>2

LEMMA EnterPlaces ==
  ASSUME TypeOK, OnePlace, NEW a \in Agents, Enter(a)
  PROVE  /\ a \in Waiting
         /\ Waiting' = Waiting \ {a}
         /\ \A i, j \in DOMAIN waiters' : waiters'[i] = waiters'[j] => i = j
<1> USE DEF Enter
<1>1. /\ a = waiters[1] /\ 1 \in DOMAIN waiters
      /\ \A i \in DOMAIN waiters' : i + 1 \in DOMAIN waiters /\ waiters'[i] = waiters[i + 1]
      /\ \A i \in DOMAIN waiters \ {1} : i - 1 \in DOMAIN waiters' /\ waiters'[i - 1] = waiters[i]
      /\ \A i \in DOMAIN waiters' : i \in Nat /\ i >= 1
  BY LeaveQueue
<1>2. \A i, j \in DOMAIN waiters : waiters[i] = waiters[j] => i = j
  BY DEF OnePlace
<1>3. \A i \in DOMAIN waiters' : waiters'[i] # a
  BY <1>1, <1>2
<1>4. Waiting' = Waiting \ {a}
  <2>1. ASSUME NEW i \in DOMAIN waiters', NEW x, x = waiters'[i] PROVE x \in Waiting \ {a}
    BY <1>1, <1>3, <2>1 DEF Waiting
  <2>2. ASSUME NEW i \in DOMAIN waiters, NEW x, x = waiters[i], x # a PROVE x \in Waiting'
    <3>1. i \in DOMAIN waiters \ {1}
      BY <1>1, <2>2
    <3> QED
      BY <1>1, <2>2, <3>1 DEF Waiting
  <2> QED
    BY <2>1, <2>2 DEF Waiting
<1>5. \A i, j \in DOMAIN waiters' : waiters'[i] = waiters'[j] => i = j
  BY <1>1, <1>2
<1> QED
  BY <1>1, <1>4, <1>5 DEF Waiting

(* The number of tasks that hold the semaphore. *)
LEMMA CountActive ==
  ASSUME TypeOK
  PROVE  /\ IsFiniteSet(active)
         /\ \A a \in Agents : Cardinality(active \ {a}) <= MaxConcurrent
         /\ \A a \in Agents : HasRoom => Cardinality(active \cup {a}) <= MaxConcurrent
         /\ Cardinality({}) <= MaxConcurrent
<1>1. IsFiniteSet(active) /\ Cardinality(active) \in Nat /\ Cardinality(active) <= MaxConcurrent
  BY SchedulerAssumption, FS_Subset, FS_CardinalityType DEF TypeOK
<1>2. ASSUME NEW a \in Agents PROVE Cardinality(active \ {a}) <= MaxConcurrent
  <2>1. Cardinality(active \ {a}) = IF a \in active THEN Cardinality(active) - 1
                                                     ELSE Cardinality(active)
    BY <1>1, FS_RemoveElement
  <2> QED
    BY <1>1, <2>1, Limit
<1>3. ASSUME NEW a \in Agents, HasRoom PROVE Cardinality(active \cup {a}) <= MaxConcurrent
  <2>1. Cardinality(active \cup {a}) = IF a \in active THEN Cardinality(active)
                                                        ELSE Cardinality(active) + 1
    BY <1>1, FS_AddElement
  <2> QED
    BY <1>1, <1>3, <2>1, Limit DEF HasRoom
<1>4. Cardinality({}) <= MaxConcurrent
  <2>1. Cardinality({}) = 0
    BY FS_EmptySet
  <2> QED
    BY <2>1, Limit
<1> QED
  BY <1>1, <1>2, <1>3, <1>4

-----------------------------------------------------------------------------
(* Every step keeps the types. *)
LEMMA TypeStep == IInv /\ [Next]_vars => TypeOK'
<1> SUFFICES ASSUME IInv, [Next]_vars PROVE TypeOK'
  OBVIOUS
<1> USE DEF IInv, TypeOK, taskVars, loopVars
<1>1. ASSUME NEW a \in Agents, Refuse(a) PROVE TypeOK'
  BY <1>1 DEF Refuse
<1>2. ASSUME NEW a \in Agents, Submit(a) PROVE TypeOK'
  <2>1. Waiting \subseteq Agents
    BY DEF Waiting
  <2> QED
    BY <1>2, <2>1 DEF Submit
<1>3. ASSUME NEW a \in Agents, Enter(a) PROVE TypeOK'
  BY <1>3, LeaveQueue, CountActive DEF Enter
<1>4. ASSUME NEW a \in Agents, RowChanges(a) PROVE TypeOK'
  BY <1>4 DEF RowChanges
<1>5. ASSUME NEW a \in Agents, Return(a) \/ Raise(a) PROVE TypeOK'
  BY <1>5, CountActive DEF Return, Raise
<1>6. ASSUME NEW l \in Starts, Start(l) PROVE TypeOK'
  BY <1>6 DEF Start, CreateLoop
<1>7. ASSUME NEW l \in Starts, Dispatch(l) PROVE TypeOK'
  BY <1>7, JoinQueue DEF Dispatch, HeapAfter
<1>8. ASSUME NEW l \in Starts, LoopEnds(l) PROVE TypeOK'
  BY <1>8 DEF LoopEnds
<1>9. ASSUME NEW k \in Stops, StopAtOnce(k) \/ StopTasks(k) PROVE TypeOK'
  <2>1. /\ waiters' = <<>> /\ active' = {}
        /\ ended' = [a \in Agents |-> IF a \in Waiting \cup active THEN "cancelled" ELSE ended[a]]
        /\ is_running' \in BOOLEAN
        /\ stops' = [stops EXCEPT ![k] = "done"]
        /\ UNCHANGED <<asked, row, heap, loops, loop_task, awaits, ahead>>
    BY <1>9 DEF StopAtOnce, StopTasks, CancelTasks
  <2>2. waiters' \in Seq(Agents)
    BY <2>1
  <2>3. ended' \in [Agents -> {"no", "returned", "raised", "cancelled"}]
    BY <2>1
  <2>4. active' \subseteq Agents /\ Cardinality(active') <= MaxConcurrent
    BY <2>1, CountActive
  <2> QED
    BY <2>1, <2>2, <2>3, <2>4
<1>10. ASSUME NEW k \in Stops, StopLoop(k) PROVE TypeOK'
  BY <1>10 DEF StopLoop
<1>11. CASE UNCHANGED vars
  BY <1>11 DEF vars
<1> QED
  BY <1>1, <1>2, <1>3, <1>4, <1>5, <1>6, <1>7, <1>8, <1>9, <1>10, <1>11
     DEF Next, RunStep, LoopStep

-----------------------------------------------------------------------------
(* Every step leaves a task in one place. *)
LEMMA PlaceStep == IInv /\ [Next]_vars => OnePlace'
<1> SUFFICES ASSUME IInv, [Next]_vars PROVE OnePlace'
  OBVIOUS
<1> USE DEF IInv
<1>1. ASSUME NEW a \in Agents, Refuse(a) \/ Submit(a) PROVE OnePlace'
  BY <1>1 DEF Refuse, Submit, taskVars, OnePlace, Waiting, Ended, TypeOK
<1>2. ASSUME NEW a \in Agents, Enter(a) PROVE OnePlace'
  BY <1>2, EnterPlaces DEF Enter, OnePlace, Ended, loopVars
<1>3. ASSUME NEW a \in Agents, Return(a) \/ Raise(a) PROVE OnePlace'
  <2>1. Ended' = Ended \cup {a} /\ Waiting' = Waiting /\ active' = active \ {a}
    BY <1>3 DEF Return, Raise, Ended, Waiting, TypeOK
  <2> QED
    BY <1>3, <2>1 DEF Return, Raise, OnePlace
<1>4. ASSUME NEW l \in Starts, Dispatch(l) PROVE OnePlace'
  <2>1. PICK a \in heap : heap' = heap \ {a} /\ waiters' = Append(waiters, a)
    BY <1>4 DEF Dispatch, HeapAfter
  <2>2. a \in Agents /\ a \notin Waiting
    BY DEF OnePlace, TypeOK
  <2>3. /\ DOMAIN waiters' = DOMAIN waiters \cup {Len(waiters) + 1}
        /\ \A i \in DOMAIN waiters : waiters'[i] = waiters[i]
        /\ waiters'[Len(waiters) + 1] = a
        /\ Waiting' = Waiting \cup {a}
    BY <2>1, <2>2, JoinQueue
  <2>4. \A i, j \in DOMAIN waiters' : waiters'[i] = waiters'[j] => i = j
    BY <2>2, <2>3 DEF OnePlace, Waiting
  <2> QED
    BY <1>4, <2>1, <2>3, <2>4 DEF Dispatch, OnePlace, Ended
<1>5. ASSUME NEW k \in Stops, StopAtOnce(k) \/ StopTasks(k) PROVE OnePlace'
  <2>1. waiters' = <<>> /\ active' = {} /\ UNCHANGED <<heap, asked>>
    BY <1>5 DEF StopAtOnce, StopTasks, CancelTasks
  <2>2. Ended' = Ended \cup Waiting \cup active
    BY <1>5 DEF StopAtOnce, StopTasks, CancelTasks, Ended, OnePlace, TypeOK, Waiting
  <2>3. Waiting' = {} /\ DOMAIN waiters' = {}
    BY <2>1 DEF Waiting
  <2> QED
    BY <2>1, <2>2, <2>3 DEF OnePlace
<1>6. CASE UNCHANGED <<asked, heap, waiters, active, ended>>
  BY <1>6 DEF OnePlace, Waiting, Ended
<1> QED
  BY <1>1, <1>2, <1>3, <1>4, <1>5, <1>6
     DEF Next, RunStep, LoopStep, RowChanges, Start, LoopEnds, StopLoop, taskVars, vars

-----------------------------------------------------------------------------
(* Only a loop puts tasks before the semaphore, and only while the         *)
(* scheduler is running.                                                   *)
LEMMA RestStep == IInv /\ [Next]_vars => RestInv'
<1> SUFFICES ASSUME IInv, [Next]_vars PROVE RestInv'
  OBVIOUS
<1> USE DEF IInv, RestInv, AtRest, taskVars, loopVars
<1>1. ASSUME NEW a \in Agents, Refuse(a) \/ Submit(a) \/ RowChanges(a) PROVE RestInv'
  BY <1>1 DEF Refuse, Submit, RowChanges
<1>2. ASSUME NEW a \in Agents, Enter(a) PROVE RestInv'
  BY <1>2 DEF Enter
<1>3. ASSUME NEW a \in Agents, Return(a) \/ Raise(a) PROVE RestInv'
  BY <1>3 DEF Return, Raise
<1>4. ASSUME NEW l \in Starts, Start(l) \/ Dispatch(l) PROVE RestInv'
  BY <1>4 DEF Start, Dispatch, GoesOn
<1>5. ASSUME NEW l \in Starts, LoopEnds(l) PROVE RestInv'
  BY <1>5 DEF LoopEnds
<1>6. ASSUME NEW k \in Stops, StopAtOnce(k) \/ StopTasks(k) PROVE RestInv'
  BY <1>6 DEF StopAtOnce, StopTasks, CancelTasks
<1>7. ASSUME NEW k \in Stops, StopLoop(k) PROVE RestInv'
  BY <1>7 DEF StopLoop, TypeOK
<1>8. CASE UNCHANGED vars
  BY <1>8 DEF vars
<1> QED
  BY <1>1, <1>2, <1>3, <1>4, <1>5, <1>6, <1>7, <1>8 DEF Next, RunStep, LoopStep

-----------------------------------------------------------------------------
(* Every step keeps the order. *)
LEMMA OrderStep == IInv /\ [Next]_vars => OrderInv'
<1> SUFFICES ASSUME IInv, [Next]_vars PROVE OrderInv'
  OBVIOUS
<1> USE DEF IInv, OrderInv, taskVars, loopVars
<1>1. ASSUME NEW a \in Agents, Submit(a) PROVE OrderInv'
  <2>1. a \notin heap /\ a \notin Waiting
    BY <1>1 DEF Submit, OnePlace, TypeOK
  <2>2. \A b \in Agents \ {a} : ahead'[b] = ahead[b]
    BY <1>1 DEF Submit, TypeOK
  <2>3. ahead'[a] = Waiting /\ heap' = heap \cup {a} /\ waiters' = waiters
    BY <1>1 DEF Submit, TypeOK
  <2>4. \A i \in DOMAIN waiters : waiters[i] \in Agents \ {a}
    BY <2>1 DEF Waiting, TypeOK
  <2>5. QueueOrder'
    BY <2>2, <2>3, <2>4 DEF QueueOrder
  <2>6. HeapOrder'
    BY <2>1, <2>2, <2>3 DEF HeapOrder, Waiting, TypeOK
  <2> QED
    BY <2>5, <2>6
<1>2. ASSUME NEW a \in Agents, Enter(a) PROVE OrderInv'
  <2>1. /\ \A i \in DOMAIN waiters' : i + 1 \in DOMAIN waiters /\ waiters'[i] = waiters[i + 1]
        /\ \A i \in DOMAIN waiters' : i \in Nat
    BY <1>2, LeaveQueue DEF Enter
  <2>2. UNCHANGED <<heap, ahead>>
    BY <1>2 DEF Enter
  <2>3. QueueOrder'
    BY <2>1, <2>2 DEF QueueOrder
  <2>4. HeapOrder'
    BY <2>1, <2>2 DEF HeapOrder
  <2> QED
    BY <2>3, <2>4
<1>3. ASSUME NEW l \in Starts, Dispatch(l) PROVE OrderInv'
  <2>1. PICK a \in heap : /\ FirstOfHeap(a)
                          /\ heap' = heap \ {a}
                          /\ waiters' = Append(waiters, a)
    BY <1>3 DEF Dispatch, HeapAfter
  <2>2. a \in Agents /\ UNCHANGED ahead
    BY <1>3 DEF Dispatch, TypeOK
  <2>3. /\ DOMAIN waiters = 1 .. Len(waiters)
        /\ DOMAIN waiters' = DOMAIN waiters \cup {Len(waiters) + 1}
        /\ \A i \in DOMAIN waiters : waiters'[i] = waiters[i] /\ i < Len(waiters) + 1
        /\ waiters'[Len(waiters) + 1] = a
        /\ Len(waiters) \in Nat
    BY <2>1, <2>2, JoinQueue DEF TypeOK
  <2>4. ASSUME NEW i \in DOMAIN waiters', NEW j \in DOMAIN waiters', i < j,
               Priority[waiters'[j]] < Priority[waiters'[i]]
        PROVE  waiters'[i] \in ahead'[waiters'[j]]
    <3>1. i \in DOMAIN waiters /\ waiters'[i] = waiters[i]
      BY <2>3, <2>4
    <3>2. CASE j \in DOMAIN waiters
      BY <2>2, <2>3, <2>4, <3>1, <3>2 DEF QueueOrder
    <3>3. CASE j = Len(waiters) + 1
      BY <2>2, <2>3, <2>4, <3>1, <3>3 DEF HeapOrder
    <3> QED
      BY <2>3, <3>2, <3>3
  <2>5. ASSUME NEW b \in heap', NEW i \in DOMAIN waiters',
               Priority[b] < Priority[waiters'[i]]
        PROVE  waiters'[i] \in ahead'[b]
    <3>1. b \in heap /\ b \in Agents
      BY <2>1 DEF TypeOK
    <3>2. CASE i \in DOMAIN waiters
      BY <2>2, <2>3, <2>5, <3>1, <3>2 DEF HeapOrder
    <3>3. CASE i = Len(waiters) + 1
      <4>1. Priority[a] <= Priority[b] /\ Priority[a] \in Nat /\ Priority[b] \in Nat
        BY <2>1, <2>2, <3>1, SchedulerAssumption DEF FirstOfHeap
      <4> QED
        BY <2>3, <2>5, <3>3, <4>1
    <3> QED
      BY <2>3, <3>2, <3>3
  <2> QED
    BY <2>4, <2>5 DEF QueueOrder, HeapOrder
<1>4. ASSUME NEW k \in Stops, StopAtOnce(k) \/ StopTasks(k) PROVE OrderInv'
  <2>1. DOMAIN waiters' = {}
    BY <1>4 DEF StopAtOnce, StopTasks, CancelTasks
  <2> QED
    BY <2>1 DEF QueueOrder, HeapOrder
<1>5. CASE UNCHANGED <<heap, waiters, ahead>>
  BY <1>5 DEF QueueOrder, HeapOrder
<1> QED
  BY <1>1, <1>2, <1>3, <1>4, <1>5
     DEF Next, RunStep, LoopStep, Refuse, RowChanges, Return, Raise, Start, LoopEnds,
         StopLoop, vars

-----------------------------------------------------------------------------
(* The invariant holds in every reachable state. *)
THEOREM Invariance == Spec => []IInv
<1>1. IInv /\ [Next]_vars => IInv'
  BY TypeStep, PlaceStep, RestStep, OrderStep DEF IInv
<1> QED
  BY <1>1, InitIInv, PTL DEF Spec

(***************************************************************************)
(* The variables always have their types, and never more than              *)
(* max_concurrent tasks hold the semaphore.                                *)
(***************************************************************************)
THEOREM TypeCorrect == Spec => []TypeOK
<1>1. IInv => TypeOK
  BY DEF IInv
<1> QED
  BY <1>1, Invariance, PTL

(***************************************************************************)
(* A submitted task is always in exactly one place: no start, stop or      *)
(* second loop loses it, dispatches it twice or runs it again.             *)
(***************************************************************************)
THEOREM TaskInOnePlace == Spec => []OnePlace
<1>1. IInv => OnePlace
  BY DEF IInv
<1> QED
  BY <1>1, Invariance, PTL

(***************************************************************************)
(* After every stop() returned, and without another start(), nothing runs  *)
(* or waits to run.                                                        *)
(***************************************************************************)
THEOREM StopIsFinalAlways == Spec => []StopIsFinal
<1>1. IInv => StopIsFinal
  BY DEF IInv, RestInv, StopIsFinal
<1> QED
  BY <1>1, Invariance, PTL

(***************************************************************************)
(* A run begins before one of higher priority only if it waited for the    *)
(* semaphore already when that one was submitted.                          *)
(***************************************************************************)
THEOREM PriorityRespected == Spec => PriorityOrder
<1> DEFINE Respected ==
      \A a \in active' \ active, b \in heap \cup Waiting :
        Priority[b] < Priority[a] => a \in ahead[b]
<1>1. ASSUME IInv, [Next]_vars PROVE [Respected]_vars
  <2>1. CASE \E c \in Agents : Enter(c)
    <3>1. PICK c \in Agents : Enter(c)
      BY <2>1
    <3>2. active' \ active \subseteq {c}
      BY <3>1 DEF Enter
    <3>3. c = waiters[1] /\ 1 \in DOMAIN waiters /\ \A i \in DOMAIN waiters : i \in Nat /\ i >= 1
      BY <1>1, <3>1, LeaveQueue DEF Enter, IInv
    <3>4. ASSUME NEW b \in heap \cup Waiting, Priority[b] < Priority[c] PROVE c \in ahead[b]
      <4>1. CASE b \in heap
        BY <1>1, <3>3, <3>4, <4>1 DEF IInv, OrderInv, HeapOrder
      <4>2. CASE b \in Waiting
        <5>1. PICK j \in DOMAIN waiters : b = waiters[j]
          BY <4>2 DEF Waiting
        <5>2. Priority[c] \in Nat
          BY SchedulerAssumption
        <5>3. j # 1
          BY <3>3, <3>4, <5>1, <5>2
        <5> QED
          BY <1>1, <3>3, <3>4, <5>1, <5>3 DEF IInv, OrderInv, QueueOrder
      <4> QED
        BY <4>1, <4>2
    <3> QED
      BY <3>2, <3>4
  <2>2. CASE active' \subseteq active
    BY <2>2
  <2>3. CASE UNCHANGED vars
    BY <2>3
  <2> QED
    BY <1>1, <2>1, <2>2, <2>3
       DEF Next, RunStep, LoopStep, Refuse, Submit, RowChanges, Return, Raise, Start, Dispatch,
           LoopEnds, StopAtOnce, StopLoop, StopTasks, CancelTasks, taskVars
<1> QED
  BY <1>1, Invariance, PTL DEF Spec, PriorityOrder

-----------------------------------------------------------------------------
(* Rows, loops and stops. *)

RowInv ==
  /\ \A a \in Agents : row[a] # "created" => a \in active \cup Ended
  /\ \A a \in Agents : ended[a] = "returned" => row[a] = "over"

(* start() replaces _loop_task only by a loop that lives, and only a       *)
(* stop() ends a loop while the scheduler is running.                      *)
LoopInv ==
  /\ is_running => loop_task # NoLoop /\ loops[loop_task] = "alive"
  /\ loop_task # NoLoop => loops[loop_task] # "none"
  /\ \A k \in Stops : stops[k] = "waiting" =>
       awaits[k] \in Starts /\ loops[awaits[k]] \in {"cancelled", "ended"}

Strong == IInv /\ RowInv /\ LoopInv

LEMMA RowStep == IInv /\ RowInv /\ [Next]_vars => RowInv'
<1> SUFFICES ASSUME IInv, RowInv, [Next]_vars PROVE RowInv'
  OBVIOUS
<1> USE DEF IInv, TypeOK
<1>1. ASSUME NEW a \in Agents, Enter(a) PROVE RowInv'
  BY <1>1 DEF Enter, RowInv, Ended
<1>2. ASSUME NEW a \in Agents, RowChanges(a) PROVE RowInv'
  BY <1>2 DEF RowChanges, RowInv, Ended, taskVars, OnePlace
<1>3. ASSUME NEW a \in Agents, Return(a) \/ Raise(a) PROVE RowInv'
  BY <1>3 DEF Return, Raise, RowInv, Ended
<1>4. ASSUME NEW k \in Stops, StopAtOnce(k) \/ StopTasks(k) PROVE RowInv'
  <2>1. /\ active' = {} /\ row' = row
        /\ ended' = [a \in Agents |-> IF a \in Waiting \cup active THEN "cancelled" ELSE ended[a]]
    BY <1>4 DEF StopAtOnce, StopTasks, CancelTasks
  <2> QED BY <2>1 DEF RowInv, Ended
<1>5. CASE UNCHANGED <<row, active, ended>>
  BY <1>5 DEF RowInv, Ended
<1> QED
  BY <1>1, <1>2, <1>3, <1>4, <1>5
     DEF Next, RunStep, LoopStep, Refuse, Submit, Start, Dispatch, LoopEnds, StopLoop, taskVars, vars

LEMMA LoopInvStep == IInv /\ LoopInv /\ [Next]_vars => LoopInv'
<1> SUFFICES ASSUME IInv, LoopInv, [Next]_vars PROVE LoopInv'
  OBVIOUS
<1> USE SchedulerAssumption DEF IInv, TypeOK, NoLoop
<1>1. ASSUME NEW l \in Starts, Start(l) PROVE LoopInv'
  BY <1>1 DEF Start, CreateLoop, LoopInv
<1>2. ASSUME NEW l \in Starts, LoopEnds(l) PROVE LoopInv'
  BY <1>2 DEF LoopEnds, LoopInv
<1>3. ASSUME NEW k \in Stops, StopAtOnce(k) \/ StopTasks(k) PROVE LoopInv'
  <2>1. /\ stops' = [stops EXCEPT ![k] = "done"] /\ UNCHANGED <<loops, loop_task, awaits>>
        /\ is_running' = FALSE \/ is_running' = is_running
    <3> HIDE DEF IInv, TypeOK
    <3> QED BY <1>3 DEF StopAtOnce, StopTasks
  <2>2. \A j \in Stops : stops'[j] = "waiting" => stops[j] = "waiting"
    BY <2>1
  <2>3. is_running' => is_running
    BY <2>1
  <2> HIDE DEF IInv, TypeOK
  <2>4. \A j \in Stops : stops'[j] = "waiting" =>
          awaits'[j] \in Starts /\ loops'[awaits'[j]] \in {"cancelled", "ended"}
    BY <2>1, <2>2 DEF LoopInv
  <2>5. /\ is_running' => loop_task' # NoLoop /\ loops'[loop_task'] = "alive"
        /\ loop_task' # NoLoop => loops'[loop_task'] # "none"
    BY <2>1, <2>3 DEF LoopInv
  <2> QED BY <2>4, <2>5 DEF LoopInv
<1>4. ASSUME NEW k \in Stops, StopLoop(k) PROVE LoopInv'
  BY <1>4 DEF StopLoop, NothingToAwait, LoopInv
<1>5. CASE UNCHANGED loopVars
  BY <1>5 DEF loopVars, LoopInv
<1> QED
  BY <1>1, <1>2, <1>3, <1>4, <1>5
     DEF Next, RunStep, LoopStep, Refuse, Submit, Enter, RowChanges, Return, Raise, Dispatch,
         loopVars, vars

LEMMA StrongHolds == Spec => []Strong
<1>1. Init => RowInv /\ LoopInv
  BY DEF Init, RowInv, LoopInv, Ended, NoLoop
<1> QED
  BY <1>1, RowStep, LoopInvStep, Invariance, PTL DEF Spec, Strong

(***************************************************************************)
(* A run of a task is begun at most once, and never again after it was     *)
(* cancelled: a task only goes forward from the heap to the semaphore's    *)
(* queue, from there to the semaphore and to its end, whichever of the     *)
(* loops moves it, and who gets the semaphore has a row nobody touched.    *)
(***************************************************************************)
Forward ==
  /\ heap \subseteq heap' \cup Waiting'
  /\ Waiting \subseteq Waiting' \cup active' \cup Ended'
  /\ active \subseteq active' \cup Ended'
  /\ \A a \in Ended : ended'[a] = ended[a] /\ row'[a] = row[a]
  /\ \A a \in active' \ active : a \in Waiting /\ row[a] = "created"
BeginsOnce == [][Forward]_vars

(* scheduler.py _dispatch_loop and _run_task: no task is run twice,        *)
(* however often the scheduler is stopped and started.                     *)
THEOREM RunsBeginOnce == Spec => BeginsOnce
<1>1. ASSUME Strong, [Next]_vars PROVE Forward
  <2> USE <1>1 DEF Strong, IInv, TypeOK
  <2>1. ASSUME NEW a \in Agents, Submit(a) PROVE Forward
    BY <2>1 DEF Submit, Forward, Waiting, taskVars
  <2>2. ASSUME NEW a \in Agents, Enter(a) PROVE Forward
    <3>1. a \in Waiting /\ Waiting' = Waiting \ {a}
      BY <2>2, EnterPlaces
    <3>2. row[a] = "created"
      BY <3>1 DEF OnePlace, RowInv
    <3> QED BY <2>2, <3>1, <3>2 DEF Enter, Forward
  <2>3. ASSUME NEW a \in Agents, RowChanges(a) PROVE Forward
    BY <2>3 DEF RowChanges, Forward, Waiting, taskVars, OnePlace
  <2>4. ASSUME NEW a \in Agents, Return(a) \/ Raise(a) PROVE Forward
    <3>1. Ended' = Ended \cup {a} /\ Waiting' = Waiting /\ active' = active \ {a} /\ heap' = heap
          /\ row' = row /\ a \notin Ended /\ \A b \in Agents \ {a} : ended'[b] = ended[b]
      BY <2>4 DEF Return, Raise, Ended, Waiting, OnePlace
    <3> QED BY <3>1 DEF Forward, Ended
  <2>5. ASSUME NEW l \in Starts, Dispatch(l) PROVE Forward
    <3>1. PICK a \in heap : heap' = heap \ {a} /\ waiters' = Append(waiters, a)
      BY <2>5 DEF Dispatch, HeapAfter
    <3>2. Waiting' = Waiting \cup {a}
      BY <3>1, JoinQueue
    <3> QED BY <2>5, <3>1, <3>2 DEF Dispatch, Forward
  <2>6. ASSUME NEW k \in Stops, StopAtOnce(k) \/ StopTasks(k) PROVE Forward
    <3>1. /\ waiters' = <<>> /\ active' = {} /\ row' = row /\ heap' = heap
          /\ ended' = [a \in Agents |-> IF a \in Waiting \cup active THEN "cancelled" ELSE ended[a]]
      BY <2>6 DEF StopAtOnce, StopTasks, CancelTasks
    <3>2. Waiting \cup active \subseteq Ended' /\ (Waiting \cup active) \cap Ended = {}
      BY <3>1 DEF Ended, OnePlace, Waiting
    <3> QED BY <3>1, <3>2 DEF Forward, Ended
  <2>7. CASE UNCHANGED <<row, heap, waiters, active, ended>>
    BY <2>7 DEF Forward, Waiting
  <2> QED
    BY <2>1, <2>2, <2>3, <2>4, <2>5, <2>6, <2>7
       DEF Next, RunStep, LoopStep, Refuse, Start, LoopEnds, StopLoop, taskVars, vars
<1>2. Strong /\ [Next]_vars => [Forward]_vars
  BY <1>1
<1> QED
  BY <1>2, StrongHolds, PTL DEF Spec, BeginsOnce

(***************************************************************************)
(* What does bound the runs: of the rows that say "running", those whose   *)
(* task goes on are at most MaxConcurrent, and the others are of runs that *)
(* raised or were cancelled, which nobody writes off.                      *)
(***************************************************************************)
RowsTell ==
  /\ Cardinality(Running \ Ended) <= MaxConcurrent
  /\ \A a \in Running \cap Ended : ended[a] \in {"raised", "cancelled"}

(* agent_manager.py: what the rows that say "running" tell about the       *)
(* limit.                                                                  *)
THEOREM RowsTellWhoRuns == Spec => []RowsTell
<1>1. ASSUME Strong PROVE RowsTell
  <2> USE <1>1 DEF Strong, IInv
  <2>1. Running \ Ended \subseteq active
    BY DEF RowInv, Running
  <2>2. IsFiniteSet(active) /\ Cardinality(active) \in Nat /\ Cardinality(active) <= MaxConcurrent
    BY CountActive, FS_CardinalityType DEF TypeOK
  <2>3. Cardinality(Running \ Ended) <= Cardinality(active) /\ Cardinality(Running \ Ended) \in Nat
    BY <2>1, <2>2, FS_Subset, FS_CardinalityType
  <2>4. Cardinality(Running \ Ended) <= MaxConcurrent
    BY <2>2, <2>3, Limit
  <2>5. ASSUME NEW a \in Running \cap Ended PROVE ended[a] \in {"raised", "cancelled"}
    BY DEF Running, Ended, RowInv, TypeOK
  <2> QED BY <2>4, <2>5 DEF RowsTell
<1> QED
  BY <1>1, StrongHolds, PTL

(* Some task of a heap that is not empty comes first. *)
LEMMA FirstExists ==
  ASSUME TypeOK, heap # {}
  PROVE  \E a \in heap : FirstOfHeap(a)
<1> DEFINE T == {Priority[a] : a \in heap}
           R == {p \in Nat \X Nat : p[1] < p[2]}
<1>1. T \subseteq Nat /\ T # {}
  <2>1. \A a \in heap : Priority[a] \in Nat
    BY SchedulerAssumption DEF TypeOK
  <2> QED BY <2>1
<1>2. IsWellFoundedOn(R, Nat)
  BY NatLessThanWellFounded, Zenon DEF OpToRel
<1> HIDE DEF T
<1>3. PICK n \in T : \A m \in T : <<m, n>> \notin R
  BY <1>1, <1>2, WFMin
<1>4. \A m \in T : ~(m < n)
  BY <1>1, <1>3
<1>5. PICK a \in heap : Priority[a] = n
  BY <1>3 DEF T
<1>6. ASSUME NEW b \in heap PROVE Priority[a] <= Priority[b]
  <2>1. Priority[b] \in T /\ Priority[b] \in Nat /\ n \in Nat
    BY <1>1 DEF T
  <2> QED BY <1>4, <1>5, <2>1
<1> QED
  BY <1>6 DEF FirstOfHeap

(***************************************************************************)
(* No task is stranded, what Served needs besides fairness: while the      *)
(* scheduler is running some loop is alive to take the first task out of   *)
(* the heap, whoever waits for the semaphore has room or waits for a task  *)
(* that holds it, and a stop() only waits for a loop that was cancelled.   *)
(***************************************************************************)
NoneStranded ==
  /\ is_running /\ heap # {} => \E l \in Starts, a \in heap : GoesOn(l) /\ FirstOfHeap(a)
  /\ waiters # <<>> => HasRoom \/ active # {}
  /\ \A k \in Stops : stops[k] = "waiting" => loops[awaits[k]] \in {"cancelled", "ended"}

(* scheduler.py start, stop and _dispatch_loop: no task is left where      *)
(* nobody would take it, and no stop waits for a loop that goes on.        *)
THEOREM NobodyIsStranded == Spec => []NoneStranded
<1>1. ASSUME Strong PROVE NoneStranded
  <2> USE <1>1 DEF Strong, IInv
  <2>1. ASSUME is_running, heap # {} PROVE \E l \in Starts, a \in heap : GoesOn(l) /\ FirstOfHeap(a)
    BY <2>1, FirstExists DEF LoopInv, GoesOn, TypeOK
  <2>2. HasRoom \/ active # {}
    BY FS_EmptySet, Limit DEF HasRoom
  <2> QED BY <2>1, <2>2 DEF NoneStranded, LoopInv
<1> QED
  BY <1>1, StrongHolds, PTL
=============================================================================
