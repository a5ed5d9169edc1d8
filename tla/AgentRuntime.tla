---------------------------- MODULE AgentRuntime ----------------------------
(***************************************************************************)
(* backend/agents/runtime: AgentRuntime.run drives one agent through LLM   *)
(* calls and tool calls.  What the agent is doing is one JSON document in  *)
(* Redis (AgentStateManager): every change of it is a GET, a change of the *)
(* copy and a SET, with other coroutines in between.  Everything that      *)
(* happens is announced on the process-wide EventBus, a bounded queue.     *)
(*                                                                         *)
(* A process is a run of the agent or a caller of AgentLifecycleManager    *)
(* .pause.  It is inside one operation (op) and about to do one awaited    *)
(* step of it (at).  Of the document only status and current_step matter;  *)
(* what the model answers and what the tools return is nondeterministic.   *)
(* The agents row of the database is written in the caller's transaction,  *)
(* which these classes do not commit: only the await is kept ("db").       *)
(***************************************************************************)
EXTENDS Naturals, FiniteSets

CONSTANTS
  Runs,           \* the AgentRuntime.run calls made for the agent
  Pausers,        \* the AgentLifecycleManager.pause calls made for it
  MaxIterations,  \* agent.max_iterations
  MaxErrors,      \* _MAX_CONSECUTIVE_ERRORS
  MaxToolCalls,   \* bound: the most tool calls in one LLM response
  QueueSize       \* EventBus._queue.maxsize

ASSUME RuntimeAssumption ==
  /\ IsFiniteSet(Runs)
  /\ Runs \cap Pausers = {}
  /\ MaxIterations \in Nat
  /\ MaxErrors \in Nat \ {0}
  /\ MaxToolCalls \in Nat \ {0}
  /\ QueueSize \in Nat \ {0}

Procs == Runs \cup Pausers

VARIABLES
  redis,              \* the agent's document: [status, step]
  pos,                \* pos[p]: where p is, [op, at]
  held,               \* held[p]: the copy of the document p is changing
  consecutive_errors, \* per run
  calls,              \* calls[r]: LLM requests run r has made
  todo,               \* todo[r]: tool calls of the response still to execute
  queue,              \* number of events in the bus
  checkpoint,         \* the latest checkpoint: the step in its state, and how
                      \* many requests the messages it holds come from
  paused_calls        \* LLM requests made since the status became "paused"

runVars == <<consecutive_errors, calls, todo>>
vars == <<redis, pos, held, runVars, queue, checkpoint, paused_calls>>

Live     == {"created", "running"}
Statuses == Live \cup {"paused", "completed", "failed"}
NoState  == [status |-> "none", step |-> 0]
States   == [status : Statuses, step : Nat]

NoCheckpoint == [step |-> 0, calls |-> 0]

(* The operations that change the document. *)
Transitions == {"start", "pause", "complete", "fail"}
Updates     == Transitions \cup {"increment_step", "record_tool_call"}

(* The operations that only announce something. *)
Announcements == {"tool_called", "tool_result", "step_completed", "final_output"}

Ops == Updates \cup Announcements \cup {"initialize", "loop"}
Points == {"idle", "load", "save", "db", "emit", "check", "llm", "checkpoint", "ended", "aborted"}

Goto(p, op, at) == pos' = [pos EXCEPT ![p] = [op |-> op, at |-> at]]

-----------------------------------------------------------------------------
(* AgentStateManager. *)

(* Faulty variant: a run that fails leaves the status alone. *)
StatusAfterSuccess(op, state) ==
  CASE op = "start"    -> "running"
    [] op = "pause"    -> "paused"
    [] op = "complete" -> "completed"
    [] OTHER           -> state.status

StatusAfter(op, state) ==
  CASE op = "start"    -> "running"
    [] op = "pause"    -> "paused"
    [] op = "complete" -> "completed"
    [] op = "fail"     -> "failed"
    [] OTHER           -> state.status

(* Faulty variant: the step of the document is not counted. *)
UpdatedStatusOnly(op, state) == [status |-> StatusAfter(op, state), step |-> state.step]

Updated(op, state) ==
  [status |-> StatusAfter(op, state),
   step   |-> IF op = "increment_step" THEN state.step + 1 ELSE state.step]

(* Where an update goes on when it is done with the document. *)
PastSave(p) ==
  CASE pos[p].op \in Transitions      -> [op |-> pos[p].op, at |-> "db"]
    [] pos[p].op = "increment_step"   -> [op |-> pos[p].op, at |-> "emit"]
    [] pos[p].op = "record_tool_call" ->
         IF todo[p] > 0 THEN [op |-> "tool_called", at |-> "emit"]
                        ELSE [op |-> "loop", at |-> "checkpoint"]

(* load: without a document the update does nothing more. *)
Load(p) ==
  /\ pos[p].op \in Updates
  /\ pos[p].at = "load"
  /\ IF redis = NoState
     THEN pos' = [pos EXCEPT ![p] = PastSave(p)] /\ UNCHANGED held
     ELSE Goto(p, pos[p].op, "save") /\ held' = [held EXCEPT ![p] = redis]
  /\ UNCHANGED <<redis, runVars, queue, checkpoint, paused_calls>>

(* save: an unconditional SET of the changed copy. *)
Save(p) ==
  /\ pos[p].op \in Updates
  /\ pos[p].at = "save"
  /\ redis' = Updated(pos[p].op, held[p])
  /\ pos' = [pos EXCEPT ![p] = PastSave(p)]
  /\ held' = [held EXCEPT ![p] = NoState]
  /\ paused_calls' = IF redis.status = "paused" THEN paused_calls ELSE 0
  /\ UNCHANGED <<runVars, queue, checkpoint>>

-----------------------------------------------------------------------------
(* AgentLifecycleManager and EventBus. *)

UpdateDb(p) ==
  /\ pos[p].at = "db"
  /\ Goto(p, pos[p].op, "emit")
  /\ UNCHANGED <<redis, held, runVars, queue, checkpoint, paused_calls>>

(* What a process does after its announcement. *)
PastEmit(op) ==
  CASE op = "initialize"                   -> [op |-> "start", at |-> "load"]
    [] op \in {"start", "step_completed"}  -> [op |-> "loop", at |-> "check"]
    [] op = "increment_step"               -> [op |-> "loop", at |-> "llm"]
    [] op = "tool_called"                  -> [op |-> "tool_result", at |-> "emit"]
    [] op = "tool_result"                  -> [op |-> "record_tool_call", at |-> "load"]
    [] op = "final_output"                 -> [op |-> "complete", at |-> "load"]
    [] op \in {"complete", "fail", "pause"} -> [op |-> op, at |-> "ended"]

(* Faulty variant: a queue without a limit. *)
NoLimit == TRUE
HasRoom == queue < QueueSize

(* emit: asyncio.Queue.put waits while the queue is full.  The tool is     *)
(* executed between its two announcements; what it returns, or raises,     *)
(* goes into the messages only.                                            *)
Emit(p) ==
  /\ pos[p].at = "emit"
  /\ HasRoom
  /\ queue' = queue + 1
  /\ pos' = [pos EXCEPT ![p] = PastEmit(pos[p].op)]
  /\ todo' = IF pos[p].op = "tool_called" THEN [todo EXCEPT ![p] = @ - 1] ELSE todo
  /\ UNCHANGED <<redis, held, consecutive_errors, calls, checkpoint, paused_calls>>

(* _process_loop.  It runs once EventBus.start was called, which nothing in *)
(* the program does: an event may be taken from the queue, and may not.    *)
Deliver ==
  /\ queue > 0
  /\ queue' = queue - 1
  /\ UNCHANGED <<redis, pos, held, runVars, checkpoint, paused_calls>>

(* initialize: create overwrites whatever document there is. *)
Initialize(r) ==
  /\ pos[r].at = "idle"
  /\ redis' = [status |-> "created", step |-> 0]
  /\ Goto(r, "initialize", "db")
  /\ UNCHANGED <<held, runVars, queue, checkpoint, paused_calls>>

Pause(p) ==
  /\ pos[p].at = "idle"
  /\ Goto(p, "pause", "load")
  /\ UNCHANGED <<redis, held, runVars, queue, checkpoint, paused_calls>>

-----------------------------------------------------------------------------
(* AgentRuntime.run. *)

(* Faulty variants: a limit that lets one more iteration through, and one  *)
(* that looks at the steps only.                                           *)
can_continue_inclusive == redis.status \in Live /\ redis.step <= MaxIterations
can_continue_steps_only == redis.step < MaxIterations
can_continue == redis.status \in Live /\ redis.step < MaxIterations

(* Faulty variant: a paused run waits to be resumed. *)
AwaitResume(r) ==
  /\ pos[r].at = "check"
  /\ redis.status # "paused"
  /\ IF can_continue THEN Goto(r, "increment_step", "load")
                     ELSE Goto(r, "complete", "load")
  /\ UNCHANGED <<redis, held, runVars, queue, checkpoint, paused_calls>>

(* The loop condition: a run that may not go on is completed. *)
CanContinue(r) ==
  /\ pos[r].at = "check"
  /\ IF can_continue THEN Goto(r, "increment_step", "load")
                     ELSE Goto(r, "complete", "load")
  /\ UNCHANGED <<redis, held, runVars, queue, checkpoint, paused_calls>>

Request(r) ==
  /\ pos[r].at = "llm"
  /\ calls' = [calls EXCEPT ![r] = @ + 1]
  /\ paused_calls' = IF redis.status = "paused" THEN paused_calls + 1 ELSE paused_calls
  /\ UNCHANGED <<redis, held, queue, checkpoint>>

(* The call raises: try again, or fail at the third time in a row.         *)
GiveUp(r) == consecutive_errors[r] + 1 >= MaxErrors
LlmError(r) ==
  /\ Request(r)
  /\ consecutive_errors' = [consecutive_errors EXCEPT ![r] = @ + 1]
  /\ IF GiveUp(r) THEN Goto(r, "fail", "load") ELSE Goto(r, "loop", "check")
  /\ UNCHANGED todo

LlmToolCalls(r) ==
  /\ Request(r)
  /\ consecutive_errors' = [consecutive_errors EXCEPT ![r] = 0]
  /\ \E n \in 1 .. MaxToolCalls : todo' = [todo EXCEPT ![r] = n]
  /\ Goto(r, "tool_called", "emit")

(* A text answer is announced; the run stops when finish_reason says so.   *)
LlmText(r) ==
  /\ Request(r)
  /\ consecutive_errors' = [consecutive_errors EXCEPT ![r] = 0]
  /\ Goto(r, "step_completed", "emit") \/ Goto(r, "final_output", "emit")
  /\ UNCHANGED todo

(* checkpoint_manager.save: the messages so far, and the state object that *)
(* initialize returned, which nobody has touched since.                    *)
SaveCheckpoint(r) ==
  /\ pos[r].at = "checkpoint"
  /\ checkpoint' = [step |-> 0, calls |-> calls[r]]
  /\ Goto(r, "loop", "check")
  /\ UNCHANGED <<redis, held, runVars, queue, paused_calls>>

(* The run is cancelled (a workflow step's timeout, AgentScheduler.stop)   *)
(* or Redis or the database raises out of an await: run has no handler.    *)
Abort(r) ==
  /\ pos[r].at \notin {"idle", "ended", "aborted"}
  /\ Goto(r, pos[r].op, "aborted")
  /\ UNCHANGED <<redis, held, runVars, queue, checkpoint, paused_calls>>

-----------------------------------------------------------------------------
Init ==
  /\ redis = NoState
  /\ pos = [p \in Procs |-> [op |-> "loop", at |-> "idle"]]
  /\ held = [p \in Procs |-> NoState]
  /\ consecutive_errors = [r \in Runs |-> 0]
  /\ calls = [r \in Runs |-> 0]
  /\ todo = [r \in Runs |-> 0]
  /\ queue = 0
  /\ checkpoint = NoCheckpoint
  /\ paused_calls = 0

ProcStep(p) == Load(p) \/ Save(p) \/ UpdateDb(p) \/ Emit(p)
RunStep(r) == \/ ProcStep(r)
              \/ CanContinue(r)
              \/ LlmError(r) \/ LlmToolCalls(r) \/ LlmText(r)
              \/ SaveCheckpoint(r)

Next ==
  \/ \E r \in Runs : Initialize(r) \/ RunStep(r) \/ Abort(r)
  \/ \E p \in Pausers : Pause(p) \/ ProcStep(p)
  \/ Deliver

(* The event loop resumes every coroutine whose await is over, and a       *)
(* request to the model and a tool return or raise.  Nothing is assumed of *)
(* Deliver: no code makes the bus take what is in its queue.               *)
Fairness ==
  /\ \A r \in Runs : WF_vars(RunStep(r))
  /\ \A p \in Pausers : WF_vars(ProcStep(p))

Spec == Init /\ [][Next]_vars
FairSpec == Spec /\ Fairness

-----------------------------------------------------------------------------
(***************************************************************************)
(* The variables have their types; the bus holds at most QueueSize events. *)
(***************************************************************************)
TypeOK ==
  /\ redis \in States \cup {NoState}
  /\ pos \in [Procs -> [op : Ops, at : Points]]
  /\ held \in [Procs -> States \cup {NoState}]
  /\ consecutive_errors \in [Runs -> Nat]
  /\ calls \in [Runs -> Nat]
  /\ todo \in [Runs -> 0 .. MaxToolCalls]
  /\ queue \in 0 .. QueueSize
  /\ checkpoint \in [step : Nat, calls : Nat]
  /\ paused_calls \in Nat

(***************************************************************************)
(* The iteration cap: however callers of pause interleave their unlocked   *)
(* updates with the run's own, a run asks the model at most max_iterations *)
(* times, failed requests included.                                        *)
(***************************************************************************)
IterationBudget == \A r \in Runs : calls[r] <= MaxIterations

(***************************************************************************)
(* No update of a live document is lost without a trace: whenever a run is *)
(* about to look at its document and that says it may go on, the document  *)
(* counts every request the run has made.  A pause may undo an increment,  *)
(* but only together with the status.                                      *)
(***************************************************************************)
StepsCounted ==
  \A r \in Runs : pos[r].at = "check" /\ redis.status \in Live => redis.step = calls[r]

(***************************************************************************)
(* A pause that took effect is honoured at the next iteration: while the   *)
(* document says "paused" each run makes at most the one request it was    *)
(* already bound for.                                                      *)
(***************************************************************************)
PauseHonoured == paused_calls <= Cardinality(Runs)

(***************************************************************************)
(* When everything has come to rest, the document does not say that the    *)
(* agent is live, unless a run was cancelled in the middle.                *)
(***************************************************************************)
AtRest(p) == pos[p].at \in {"idle", "ended"}
NoGhostRun ==
  (\A p \in Procs : AtRest(p)) => redis.status \notin Live

(***************************************************************************)
(* A run that was begun ends, or a full event queue blocks it: whatever    *)
(* the bus and the callers of pause do, that is the only thing that can    *)
(* keep it from ending.                                                    *)
(***************************************************************************)
Over(r) == pos[r].at \in {"ended", "aborted"}
Blocked(r) == pos[r].at = "emit" /\ ~ HasRoom
RunEnds == \A r \in Runs : pos[r].at # "idle" ~> [](Over(r) \/ Blocked(r))
=============================================================================
