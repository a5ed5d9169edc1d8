--------------------------- MODULE AgentScheduler ---------------------------
(***************************************************************************)
(* backend/agents: AgentManager.run_agent admits a run of an agent and     *)
(* hands it to AgentScheduler, a heap of tasks by priority.  The loop task *)
(* of start() moves a task per turn out of the heap into an asyncio task   *)
(* of its own, which waits for a semaphore and then runs the agent.        *)
(* stop() cancels the loop, waits for it and cancels the agents' tasks;    *)
(* what the heap holds stays there for the next start().                   *)
(*                                                                         *)
(* One manager, and one run_agent call per agent (two runs of an agent are *)
(* the subject of AgentRuntime).  Of a run only its row in the database is *)
(* kept, which run_agent counts.  Coroutines of one event loop: an action  *)
(* is what happens between two awaits.                                     *)
(***************************************************************************)
EXTENDS Naturals, Sequences, FiniteSets

CONSTANTS
  Agents,         \* the agents run_agent is called for
  Starts,         \* the calls of start(), and the loop tasks they create
  Stops,          \* the calls of stop()
  Priority,       \* the priority of each agent's run; 0 is the highest
  MaxAgents,      \* settings.agents.limits.max_agents_per_tenant
  MaxConcurrent   \* settings.agents.limits.max_concurrent_tasks_per_agent

ASSUME SchedulerAssumption ==
  /\ IsFiniteSet(Agents)
  /\ "no loop" \notin Starts
  /\ Priority \in [Agents -> Nat]
  /\ MaxAgents \in Nat
  /\ MaxConcurrent \in Nat \ {0}

NoLoop == "no loop"

VARIABLES
  asked,       \* asked[a]: what became of run_agent: "no", "refused", "scheduled"
  row,         \* row[a]: the agent's row: "created", "running", "over"
  heap,        \* _heap
  waiters,     \* the tasks that wait for the semaphore, in order
  active,      \* the tasks that hold it
  ended,       \* ended[a]: how its task ended: "no", "returned", "raised", "cancelled"
  is_running,  \* _running
  loops,       \* loops[l]: "none", "alive", "cancelled", "ended"
  loop_task,   \* _loop_task
  stops,       \* stops[k]: "none", "waiting" (for the loop it cancelled), "done"
  awaits,      \* awaits[k]: the loop stop k waits for
  ahead        \* ahead[a]: the tasks that waited when a was submitted (history)

taskVars == <<waiters, active, ended>>
loopVars == <<is_running, loops, loop_task, stops, awaits>>
vars == <<asked, row, heap, taskVars, loopVars, ahead>>

Waiting == {waiters[i] : i \in DOMAIN waiters}
Running == {a \in Agents : row[a] = "running"}

-----------------------------------------------------------------------------
(* AgentManager.run_agent *)

Refuse(a) ==
  /\ asked[a] = "no"
  /\ Cardinality(Running) >= MaxAgents
  /\ asked' = [asked EXCEPT ![a] = "refused"]
  /\ UNCHANGED <<row, heap, taskVars, loopVars, ahead>>

(* The answer to the count, and submit, which does not wait. *)
Submit(a) ==
  /\ asked[a] = "no"
  /\ Cardinality(Running) < MaxAgents
  /\ asked' = [asked EXCEPT ![a] = "scheduled"]
  /\ heap' = heap \cup {a}
  /\ ahead' = [ahead EXCEPT ![a] = Waiting]
  /\ UNCHANGED <<row, taskVars, loopVars>>

-----------------------------------------------------------------------------
(* AgentScheduler.start, and the turns of a loop it created.  A loop that  *)
(* start() replaced runs on, unseen, for as long as _running is true.      *)

(* Faulty variant: only the first start() creates a loop. *)
CreateLoopOnce(l) ==
  IF loop_task = NoLoop
  THEN loop_task' = l /\ loops' = [loops EXCEPT ![l] = "alive"]
  ELSE UNCHANGED <<loop_task, loops>>

CreateLoop(l) ==
  /\ loop_task' = l
  /\ loops' = [loops EXCEPT ![l] = "alive"]

Start(l) ==
  /\ loops[l] = "none"
  /\ is_running' = TRUE
  /\ CreateLoop(l)
  /\ UNCHANGED <<asked, row, heap, taskVars, stops, awaits, ahead>>

(* Faulty variants: the tasks are compared by nothing; the task is read    *)
(* from the heap and left there.                                           *)
AnyOfHeap(a) == a \in heap
FirstOfHeap(a) == a \in heap /\ \A b \in heap : Priority[a] <= Priority[b]
HeapAfterPeek(a) == heap
HeapAfter(a) == heap \ {a}

(* Faulty variant: while True. *)
GoesOnForever(l) == loops[l] = "alive"
GoesOn(l) == loops[l] = "alive" /\ is_running

Dispatch(l) ==
  /\ GoesOn(l)
  /\ \E a \in heap :
       /\ FirstOfHeap(a)
       /\ heap' = HeapAfter(a)
       /\ waiters' = Append(waiters, a)
  /\ UNCHANGED <<asked, row, active, ended, loopVars, ahead>>

LoopEnds(l) ==
  /\ (loops[l] = "alive" /\ ~is_running) \/ loops[l] = "cancelled"
  /\ loops' = [loops EXCEPT ![l] = "ended"]
  /\ UNCHANGED <<asked, row, heap, taskVars, is_running, loop_task, stops, awaits, ahead>>

-----------------------------------------------------------------------------
(* AgentScheduler.stop.  A task that was cancelled does not go on: it      *)
(* leaves the semaphore, and the agent's row as it is.                     *)

CancelTasks ==
  /\ waiters' = <<>>
  /\ active' = {}
  /\ ended' = [a \in Agents |-> IF a \in Waiting \cup active THEN "cancelled" ELSE ended[a]]

NothingToAwait == loop_task # NoLoop => loops[loop_task] = "ended"

StopAtOnce(k) ==
  /\ stops[k] = "none"
  /\ NothingToAwait
  /\ is_running' = FALSE
  /\ stops' = [stops EXCEPT ![k] = "done"]
  /\ CancelTasks
  /\ UNCHANGED <<asked, row, heap, loops, loop_task, awaits, ahead>>

StopLoop(k) ==
  /\ stops[k] = "none"
  /\ ~NothingToAwait
  /\ is_running' = FALSE
  /\ stops' = [stops EXCEPT ![k] = "waiting"]
  /\ loops' = [loops EXCEPT ![loop_task] = "cancelled"]
  /\ awaits' = [awaits EXCEPT ![k] = loop_task]
  /\ UNCHANGED <<asked, row, heap, taskVars, loop_task, ahead>>

StopTasks(k) ==
  /\ stops[k] = "waiting"
  /\ loops[awaits[k]] = "ended"
  /\ stops' = [stops EXCEPT ![k] = "done"]
  /\ CancelTasks
  /\ UNCHANGED <<asked, row, heap, is_running, loops, loop_task, awaits, ahead>>

-----------------------------------------------------------------------------
(* _run_task *)

(* Faulty variant: one task too many. *)
HasRoomInclusive == Cardinality(active) <= MaxConcurrent
HasRoom == Cardinality(active) < MaxConcurrent

Enter(a) ==
  /\ waiters # <<>>
  /\ a = Head(waiters)
  /\ HasRoom
  /\ waiters' = Tail(waiters)
  /\ active' = active \cup {a}
  /\ UNCHANGED <<asked, row, heap, ended, loopVars, ahead>>

(* AgentRuntime.run: lifecycle.start; lifecycle.complete or lifecycle.fail *)
RowChanges(a) ==
  /\ a \in active
  /\ row[a] # "over"
  /\ row' = [row EXCEPT ![a] = IF @ = "created" THEN "running" ELSE "over"]
  /\ UNCHANGED <<asked, heap, taskVars, loopVars, ahead>>

Return(a) ==
  /\ a \in active
  /\ row[a] = "over"
  /\ active' = active \ {a}
  /\ ended' = [ended EXCEPT ![a] = "returned"]
  /\ UNCHANGED <<asked, row, heap, waiters, loopVars, ahead>>

(* Nobody in the runtime changes the row when an await raises. *)
Raise(a) ==
  /\ a \in active
  /\ active' = active \ {a}
  /\ ended' = [ended EXCEPT ![a] = "raised"]
  /\ UNCHANGED <<asked, row, heap, waiters, loopVars, ahead>>

-----------------------------------------------------------------------------
Init ==
  /\ asked = [a \in Agents |-> "no"]
  /\ row = [a \in Agents |-> "created"]
  /\ heap = {}
  /\ waiters = <<>>
  /\ active = {}
  /\ ended = [a \in Agents |-> "no"]
  /\ is_running = FALSE
  /\ loops = [l \in Starts |-> "none"]
  /\ loop_task = NoLoop
  /\ stops = [k \in Stops |-> "none"]
  /\ awaits = [k \in Stops |-> NoLoop]
  /\ ahead = [a \in Agents |-> {}]

LoopStep(l) == Dispatch(l) \/ LoopEnds(l)
RunStep(a)  == RowChanges(a) \/ Return(a) \/ Raise(a)

Next ==
  \/ \E a \in Agents : Refuse(a) \/ Submit(a) \/ Enter(a) \/ RunStep(a)
  \/ \E l \in Starts : Start(l) \/ LoopStep(l)
  \/ \E k \in Stops : StopAtOnce(k) \/ StopLoop(k) \/ StopTasks(k)

(* The event loop resumes every task that can go on, and a run comes to an *)
(* end: as it does (RunEnds of AgentRuntime) unless the queue of its bus   *)
(* is full for good.  Nobody has to call anything.                         *)
Fairness ==
  /\ \A a \in Agents : WF_vars(Enter(a)) /\ WF_vars(RunStep(a))
  /\ \A l \in Starts : WF_vars(LoopStep(l))
  /\ \A k \in Stops : WF_vars(StopTasks(k))

Spec == Init /\ [][Next]_vars
FairSpec == Spec /\ Fairness

-----------------------------------------------------------------------------
(***************************************************************************)
(* The variables have their types, and no more tasks hold the semaphore    *)
(* than it admits.                                                         *)
(***************************************************************************)
TypeOK ==
  /\ asked \in [Agents -> {"no", "refused", "scheduled"}]
  /\ row \in [Agents -> {"created", "running", "over"}]
  /\ heap \subseteq Agents
  /\ waiters \in Seq(Agents)
  /\ active \subseteq Agents
  /\ Cardinality(active) <= MaxConcurrent
  /\ ended \in [Agents -> {"no", "returned", "raised", "cancelled"}]
  /\ is_running \in BOOLEAN
  /\ loops \in [Starts -> {"none", "alive", "cancelled", "ended"}]
  /\ loop_task \in Starts \cup {NoLoop}
  /\ stops \in [Stops -> {"none", "waiting", "done"}]
  /\ awaits \in [Stops -> Starts \cup {NoLoop}]
  /\ ahead \in [Agents -> SUBSET Agents]

Ended == {a \in Agents : ended[a] # "no"}

(***************************************************************************)
(* However often the scheduler is started and stopped, and with however    *)
(* many loops at once, a task that was submitted is in exactly one place:  *)
(* in the heap, once among those that wait for the semaphore, among those  *)
(* that hold it, or at its end.                                            *)
(***************************************************************************)
OnePlace ==
  /\ \A i, j \in DOMAIN waiters : waiters[i] = waiters[j] => i = j
  /\ heap \cap (Waiting \cup active \cup Ended) = {}
  /\ Waiting \cap (active \cup Ended) = {}
  /\ active \cap Ended = {}
  /\ heap \cup Waiting \cup active \cup Ended = {a \in Agents : asked[a] = "scheduled"}

(***************************************************************************)
(* A scheduler that was stopped is at rest: once every stop() returned and *)
(* unless start() was called since, nothing runs or waits to run, although *)
(* loops that were replaced may still be about to wake up.                 *)
(***************************************************************************)
AtRest == waiters = <<>> /\ active = {}
StopIsFinal ==
  ~is_running /\ (\A k \in Stops : stops[k] # "waiting") => AtRest

(***************************************************************************)
(* What priorities mean: a run begins before one of higher priority that   *)
(* was submitted and has not begun only if it already waited for the       *)
(* semaphore when that one was submitted.                                  *)
(***************************************************************************)
PriorityOrder ==
  [][\A a \in active' \ active, b \in heap \cup Waiting :
       Priority[b] < Priority[a] => a \in ahead[b]]_vars

(***************************************************************************)
(* While the scheduler is not stopped, every task that was submitted comes *)
(* to an end, whatever other tasks raise.                                  *)
(***************************************************************************)
Served ==
  \A a \in Agents : asked[a] = "scheduled" ~> (a \in Ended \/ ~is_running)

(***************************************************************************)
(* "Enforces concurrency limits per tenant": no more agents run than       *)
(* max_agents_per_tenant.                                                  *)
(***************************************************************************)
ConcurrencyLimit == Cardinality(Running) <= MaxAgents
=============================================================================
