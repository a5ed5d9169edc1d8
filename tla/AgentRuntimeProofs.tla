------------------------- MODULE AgentRuntimeProofs -------------------------
(***************************************************************************)
(* Proofs about AgentRuntime.  The types, that nothing at rest looks live, *)
(* what a pause does, and that every run's steps lead towards its end hold *)
(* for any number of runs and of callers of pause.  The iteration cap      *)
(* holds for any number of runs that do not overlap (OneAtATime); that it  *)
(* fails for two at the same time is what the run agent_two_runs shows.    *)
(* That the document counts the requests exactly needs a single run.       *)
(***************************************************************************)
EXTENDS AgentRuntime, FiniteSetTheorems, TLAPS

(* Which operations can be at which point, and in which processes. *)
Emitting == Transitions \cup Announcements \cup {"initialize", "increment_step"}
Position(p) ==
  /\ pos[p].at \in {"load", "save"} => pos[p].op \in Updates
  /\ pos[p].at = "db" => pos[p].op \in Transitions \cup {"initialize"}
  /\ pos[p].at = "emit" => pos[p].op \in Emitting
  /\ pos[p].at \in {"idle", "check", "llm", "checkpoint"} => pos[p].op = "loop"
  /\ p \in Runs => pos[p].op # "pause"
  /\ p \in Pausers => \/ pos[p].at = "idle"
                      \/ pos[p].op = "pause" /\ pos[p].at \in {"load", "save", "db", "emit", "ended"}
  /\ pos[p].at = "emit" /\ pos[p].op = "tool_called" => todo[p] > 0
  /\ pos[p].at = "save" => held[p] \in States

Control == \A p \in Procs : Position(p)

CInv == TypeOK /\ Control

LEMMA InitCInv == Init => CInv
BY RuntimeAssumption
   DEF Init, CInv, TypeOK, Control, Position, NoState, NoCheckpoint, Ops, Points, Procs,
       States, Statuses, Updates, Transitions

(* An update goes on to a point that its operation may be at. *)
LEMMA PastSaveType ==
  ASSUME NEW p \in Procs, CInv, pos[p].op \in Updates, pos[p].at \in {"load", "save"}
  PROVE  /\ PastSave(p) \in [op : Ops, at : Points]
         /\ PastSave(p).at \in {"db", "emit", "checkpoint"}
         /\ PastSave(p).at = "db" => PastSave(p).op = pos[p].op /\ pos[p].op \in Transitions
         /\ PastSave(p).at = "emit" =>
              \/ PastSave(p).op = "increment_step" /\ pos[p].op = "increment_step"
              \/ PastSave(p).op = "tool_called" /\ pos[p].op = "record_tool_call" /\ todo[p] > 0
         /\ PastSave(p).at = "checkpoint" => PastSave(p).op = "loop" /\ pos[p].op = "record_tool_call"
<1>1. CASE pos[p].op \in Transitions
  BY <1>1 DEF PastSave, Transitions, Ops, Points, Updates
<1>2. CASE pos[p].op = "increment_step"
  BY <1>2 DEF PastSave, Transitions, Ops, Points, Updates
<1>3. CASE pos[p].op = "record_tool_call"
  BY <1>3 DEF PastSave, Transitions, Ops, Points, Updates, Announcements
<1> QED BY <1>1, <1>2, <1>3 DEF Updates

LEMMA PastEmitType ==
  ASSUME NEW op \in Emitting
  PROVE  /\ PastEmit(op) \in [op : Ops, at : Points]
         /\ PastEmit(op).at \in {"load", "check", "llm", "emit", "ended"}
         /\ PastEmit(op).at = "load" => PastEmit(op).op \in {"start", "record_tool_call", "complete"}
         /\ PastEmit(op).at = "emit" => PastEmit(op).op = "tool_result"
         /\ PastEmit(op).at = "ended" => PastEmit(op).op = op /\ op \in {"complete", "fail", "pause"}
         /\ PastEmit(op).at \in {"check", "llm"} => PastEmit(op).op = "loop"
         /\ PastEmit(op).at = "llm" <=> op = "increment_step"
         /\ op = "pause" => PastEmit(op) = [op |-> "pause", at |-> "ended"]
BY DEF PastEmit, Emitting, Transitions, Announcements, Ops, Points, Updates

LEMMA UpdatedType ==
  ASSUME NEW op, NEW state \in States
  PROVE  /\ Updated(op, state) \in States
         /\ Updated(op, state).status = StatusAfter(op, state)
         /\ Updated(op, state).step = IF op = "increment_step" THEN state.step + 1 ELSE state.step
BY DEF Updated, StatusAfter, States, Statuses, Live

(* The positions of the processes a step does not move. *)
LEMMA OthersStay ==
  ASSUME CInv, NEW p \in Procs, NEW q \in Procs, q # p,
         pos'[q] = pos[q], held'[q] = held[q],
         q \in Runs => todo'[q] = todo[q]
  PROVE  Position(q)'
BY RuntimeAssumption DEF CInv, Control, Position, Procs, Emitting, Transitions, Announcements, Updates

(* Every step keeps the types and the positions. *)
LEMMA CInvLoad == ASSUME CInv, NEW p \in Procs, Load(p) PROVE CInv'
<1> USE DEF Load, CInv
<1>1. \/ pos' = [pos EXCEPT ![p] = PastSave(p)] /\ held' = held
      \/ pos' = [pos EXCEPT ![p] = [op |-> pos[p].op, at |-> "save"]]
         /\ held' = [held EXCEPT ![p] = redis] /\ redis \in States
  BY DEF Goto, TypeOK
<1>2. PastSave(p) \in [op : Ops, at : Points] /\ [op |-> pos[p].op, at |-> "save"] \in [op : Ops, at : Points]
  BY PastSaveType DEF TypeOK, Points
<1>3. TypeOK'
  <2>1. pos' \in [Procs -> [op : Ops, at : Points]]
    BY <1>1, <1>2 DEF TypeOK
  <2>2. held' \in [Procs -> States \cup {NoState}]
    BY <1>1 DEF TypeOK
  <2> QED BY <2>1, <2>2 DEF TypeOK, runVars
<1>4. ASSUME NEW q \in Procs, q # p PROVE Position(q)'
  BY <1>1, <1>4, OthersStay DEF TypeOK, runVars
<1>5. Position(p)'
  <2>1. pos'[p] = PastSave(p) \/ (pos'[p] = [op |-> pos[p].op, at |-> "save"] /\ held'[p] \in States)
    BY <1>1 DEF TypeOK
  <2>2. todo' = todo /\ Position(p)
    BY DEF runVars, Control
  <2> QED BY <2>1, <2>2, PastSaveType DEF Position, Emitting, Announcements, Updates, Transitions
<1> QED BY <1>3, <1>4, <1>5 DEF Control

LEMMA CInvSave == ASSUME CInv, NEW p \in Procs, Save(p) PROVE CInv'
<1> USE DEF Save, CInv
<1>1. held[p] \in States
  BY DEF Control, Position
<1>2. TypeOK'
  BY <1>1, PastSaveType, UpdatedType DEF TypeOK, runVars
<1>3. ASSUME NEW q \in Procs, q # p PROVE Position(q)'
  BY <1>3, OthersStay DEF TypeOK, runVars
<1>4. Position(p)'
  <2>1. pos'[p] = PastSave(p) /\ todo' = todo /\ Position(p)
    BY DEF TypeOK, runVars, Control
  <2> QED BY <2>1, PastSaveType DEF Position, Emitting, Announcements, Updates, Transitions
<1> QED BY <1>2, <1>3, <1>4 DEF Control

LEMMA CInvEmit == ASSUME CInv, NEW p \in Procs, Emit(p) PROVE CInv'
<1> USE DEF Emit, CInv
<1>1. pos[p].op \in Emitting /\ Position(p)
  BY DEF Control, Position
<1>2. todo' \in [Runs -> 0 .. MaxToolCalls] /\ \A q \in Runs : q # p => todo'[q] = todo[q]
  BY RuntimeAssumption, <1>1 DEF TypeOK, Position, Procs
<1>3. TypeOK'
  BY <1>1, <1>2, PastEmitType, RuntimeAssumption DEF TypeOK, HasRoom
<1>4. ASSUME NEW q \in Procs, q # p PROVE Position(q)'
  BY <1>2, <1>4, OthersStay DEF TypeOK
<1>5. Position(p)'
  <2>1. pos'[p] = PastEmit(pos[p].op)
    BY DEF TypeOK
  <2>2. p \in Pausers => pos'[p] = [op |-> "pause", at |-> "ended"]
    BY <1>1, <2>1, PastEmitType DEF Position
  <2>3. p \in Runs => pos[p].op # "pause"
    BY <1>1 DEF Position
  <2> QED BY <1>1, <2>1, <2>2, <2>3, PastEmitType
          DEF Position, Emitting, Announcements, Updates, Transitions, Procs
<1> QED BY <1>3, <1>4, <1>5 DEF Control

LEMMA CInvDb == ASSUME CInv, NEW p \in Procs, UpdateDb(p) PROVE CInv'
<1> USE DEF UpdateDb, CInv
<1>1. pos' = [pos EXCEPT ![p] = [op |-> pos[p].op, at |-> "emit"]]
  BY DEF Goto
<1>2. TypeOK'
  BY <1>1 DEF TypeOK, runVars, Points
<1>3. ASSUME NEW q \in Procs, q # p PROVE Position(q)'
  BY <1>1, <1>3, OthersStay DEF TypeOK, runVars
<1>4. Position(p)'
  BY <1>1 DEF TypeOK, runVars, Control, Position, Emitting, Announcements, Updates, Transitions
<1> QED BY <1>2, <1>3, <1>4 DEF Control

(* The steps of a run that are its own. *)
LEMMA CInvRun ==
  ASSUME CInv, NEW r \in Runs,
         Initialize(r) \/ CanContinue(r) \/ LlmError(r) \/ LlmToolCalls(r) \/ LlmText(r)
           \/ SaveCheckpoint(r) \/ Abort(r)
  PROVE  CInv'
<1> USE RuntimeAssumption DEF CInv
<1>1. PICK op \in Ops, at \in Points :
        /\ pos' = [pos EXCEPT ![r] = [op |-> op, at |-> at]]
        /\ \/ op = "initialize" /\ at = "db"
           \/ op \in {"increment_step", "complete", "fail"} /\ at = "load"
           \/ op = "loop" /\ at = "check"
           \/ op \in {"step_completed", "final_output"} /\ at = "emit"
           \/ op = "tool_called" /\ at = "emit" /\ todo'[r] > 0
           \/ op = pos[r].op /\ at = "aborted"
  BY DEF Initialize, CanContinue, LlmError, LlmToolCalls, LlmText, SaveCheckpoint, Abort, Goto,
         TypeOK, Ops, Points, Updates, Transitions, Announcements, Procs
<1>2. /\ redis' \in States \cup {NoState}
      /\ held' = held
      /\ consecutive_errors' \in [Runs -> Nat] /\ calls' \in [Runs -> Nat]
      /\ todo' \in [Runs -> 0 .. MaxToolCalls]
      /\ \A q \in Runs : q # r => todo'[q] = todo[q]
      /\ queue' = queue
      /\ checkpoint' \in [step : Nat, calls : Nat]
      /\ paused_calls' \in Nat
  BY DEF Initialize, CanContinue, LlmError, LlmToolCalls, LlmText, SaveCheckpoint, Abort, Request,
         TypeOK, runVars, States, Statuses, Live
<1>3. TypeOK'
  BY <1>1, <1>2 DEF TypeOK
<1>4. ASSUME NEW q \in Procs, q # r PROVE Position(q)'
  BY <1>1, <1>2, <1>4, OthersStay DEF TypeOK, Procs
<1>5. Position(r)'
  <2>1. pos'[r] = [op |-> op, at |-> at] /\ r \notin Pausers /\ pos[r].op # "pause" /\ held' = held
    BY <1>1, <1>2 DEF TypeOK, Procs, Control, Position
  <2> QED BY <1>1, <2>1 DEF Position, Emitting, Announcements, Updates, Transitions
<1> QED BY <1>3, <1>4, <1>5 DEF Control

LEMMA CInvPause == ASSUME CInv, NEW p \in Pausers, Pause(p) PROVE CInv'
<1> USE RuntimeAssumption DEF Pause, CInv, Procs
<1>1. pos' = [pos EXCEPT ![p] = [op |-> "pause", at |-> "load"]]
  BY DEF Goto
<1>2. TypeOK'
  BY <1>1 DEF TypeOK, runVars, Points, Ops, Updates, Transitions
<1>3. ASSUME NEW q \in Procs, q # p PROVE Position(q)'
  BY <1>1, <1>3, OthersStay DEF TypeOK, runVars
<1>4. Position(p)'
  BY <1>1 DEF TypeOK, runVars, Position, Emitting, Announcements, Updates, Transitions
<1> QED BY <1>2, <1>3, <1>4 DEF Control

LEMMA CInvStep == CInv /\ [Next]_vars => CInv'
<1> SUFFICES ASSUME CInv, [Next]_vars PROVE CInv'
  OBVIOUS
<1>1. CASE Deliver
  BY <1>1, RuntimeAssumption DEF Deliver, CInv, TypeOK, Control, Position, runVars
<1>2. CASE UNCHANGED vars
  BY <1>2 DEF vars, CInv, TypeOK, Control, Position, runVars
<1> QED BY <1>1, <1>2, CInvLoad, CInvSave, CInvEmit, CInvDb, CInvRun, CInvPause
        DEF Next, RunStep, ProcStep, Procs

LEMMA CInvHolds == Spec => []CInv
BY InitCInv, CInvStep, PTL DEF Spec

(* The variables of the runtime keep their types, for any number of runs   *)
(* and of callers of pause, and the event bus never exceeds its size.      *)
THEOREM TypeCorrect == Spec => []TypeOK
<1>1. CInv => TypeOK
  BY DEF CInv
<1> QED BY <1>1, CInvHolds, PTL

-----------------------------------------------------------------------------
(* A run is unfinished until it has stored its own end.  A live document   *)
(* always belongs to an unfinished run: the last word on the document is   *)
(* the end of a run, or a pause.                                           *)
Unfinished(r) ==
  /\ pos[r].at \notin {"idle", "ended"}
  /\ pos[r].op \in {"complete", "fail"} => pos[r].at \in {"load", "save", "aborted"}

Owned == redis.status \in Live => \E r \in Runs : Unfinished(r)

(* A process that does not move stays unfinished. *)
LEMMA OwnedByOther ==
  ASSUME Owned, NEW p \in Procs, redis' = redis,
         \A q \in Runs : q # p => pos'[q] = pos[q],
         p \in Runs /\ Unfinished(p) => Unfinished(p)'
  PROVE  Owned'
BY DEF Owned, Unfinished

LEMMA OwnedSave == ASSUME CInv, NEW p \in Procs, Save(p) PROVE Owned'
<1> USE DEF Save, CInv
<1>1. redis'.status = StatusAfter(pos[p].op, held[p])
  BY UpdatedType DEF Control, Position
<1>2. pos'[p] = PastSave(p)
  BY DEF TypeOK
<1>3. CASE pos[p].op \in {"pause", "complete", "fail"}
  BY <1>1, <1>3 DEF Owned, StatusAfter, Live
<1>4. CASE pos[p].op \in {"start", "increment_step", "record_tool_call"}
  <2>1. p \in Runs
    BY <1>4 DEF Control, Position, Procs
  <2>2. Unfinished(p)'
    BY <1>2, <1>4, PastSaveType DEF Unfinished
  <2> QED BY <2>1, <2>2 DEF Owned
<1> QED BY <1>3, <1>4 DEF Updates, Transitions

LEMMA OwnedLoad == ASSUME CInv, Owned, NEW p \in Procs, Load(p) PROVE Owned'
<1> USE DEF Load, CInv
<1>1. redis' = redis /\ \A q \in Runs : q # p => pos'[q] = pos[q]
  <2>1. \E x : pos' = [pos EXCEPT ![p] = x]
    BY DEF Goto
  <2> QED BY <2>1 DEF TypeOK, Procs
<1>2. CASE redis = NoState
  BY <1>1, <1>2 DEF Owned, NoState, Live
<1>3. CASE redis # NoState
  <2>1. pos'[p] = [op |-> pos[p].op, at |-> "save"]
    BY <1>3 DEF TypeOK, Goto
  <2> QED BY <1>1, <2>1, OwnedByOther DEF Unfinished
<1> QED BY <1>2, <1>3

LEMMA OwnedEmit == ASSUME CInv, Owned, NEW p \in Procs, Emit(p) PROVE Owned'
<1> USE DEF Emit, CInv
<1>1. redis' = redis /\ pos'[p] = PastEmit(pos[p].op) /\ \A q \in Runs : q # p => pos'[q] = pos[q]
  BY DEF TypeOK
<1>2. p \in Runs => pos[p].op \in Emitting /\ pos[p].op # "pause"
  BY DEF Control, Position
<1>3. p \in Runs /\ Unfinished(p) => Unfinished(p)'
  BY <1>1, <1>2, PastEmitType DEF Unfinished
<1> QED BY <1>1, <1>3, OwnedByOther

LEMMA OwnedDb == ASSUME CInv, Owned, NEW p \in Procs, UpdateDb(p) PROVE Owned'
<1> USE DEF UpdateDb, CInv
<1>1. redis' = redis /\ pos'[p] = [op |-> pos[p].op, at |-> "emit"]
      /\ \A q \in Runs : q # p => pos'[q] = pos[q]
  BY DEF TypeOK, Goto
<1>2. p \in Runs /\ Unfinished(p) => Unfinished(p)'
  BY <1>1 DEF Unfinished
<1> QED BY <1>1, <1>2, OwnedByOther

LEMMA OwnedRun ==
  ASSUME CInv, Owned, NEW r \in Runs,
         CanContinue(r) \/ LlmError(r) \/ LlmToolCalls(r) \/ LlmText(r)
           \/ SaveCheckpoint(r) \/ Abort(r)
  PROVE  Owned'
<1> USE DEF CInv
<1>1. redis' = redis /\ r \in Procs
  BY DEF CanContinue, LlmError, LlmToolCalls, LlmText, SaveCheckpoint, Abort, Request, Procs
<1>2. \A q \in Runs : q # r => pos'[q] = pos[q]
  BY DEF CanContinue, LlmError, LlmToolCalls, LlmText, SaveCheckpoint, Abort, Goto, TypeOK, Procs
<1>3. /\ pos'[r].at \in {"load", "check", "emit", "aborted"}
      /\ pos'[r].op \in {"complete", "fail"} => pos'[r].at \in {"load", "aborted"}
  BY <1>1 DEF CanContinue, LlmError, LlmToolCalls, LlmText, SaveCheckpoint, Abort, Goto, TypeOK
<1> QED BY <1>1, <1>2, <1>3, OwnedByOther DEF Unfinished

LEMMA OwnedStep == CInv /\ Owned /\ [Next]_vars => Owned'
<1> SUFFICES ASSUME CInv, Owned, [Next]_vars PROVE Owned'
  OBVIOUS
<1>1. ASSUME NEW r \in Runs, Initialize(r) PROVE Owned'
  <2>1. pos'[r] = [op |-> "initialize", at |-> "db"]
    BY <1>1 DEF Initialize, Goto, CInv, TypeOK, Procs
  <2> QED BY <2>1 DEF Owned, Unfinished
<1>2. ASSUME NEW p \in Pausers, Pause(p) PROVE Owned'
  <2>1. redis' = redis /\ p \notin Runs /\ p \in Procs /\ \A q \in Runs : q # p => pos'[q] = pos[q]
    BY <1>2, RuntimeAssumption DEF Pause, Goto, CInv, TypeOK, Procs
  <2> QED BY <2>1, OwnedByOther
<1>3. CASE Deliver
  BY <1>3 DEF Deliver, Owned, Unfinished
<1>4. CASE UNCHANGED vars
  BY <1>4 DEF vars, Owned, Unfinished
<1> QED BY <1>1, <1>2, <1>3, <1>4, OwnedSave, OwnedLoad, OwnedEmit, OwnedDb, OwnedRun
        DEF Next, RunStep, ProcStep, Procs

(* When every process is at rest the document does not say that the agent  *)
(* is live, for any number of runs and of callers of pause.                *)
THEOREM NothingLeftRunning == Spec => []NoGhostRun
<1>1. Init => Owned
  BY DEF Init, Owned, NoState, Live
<1>2. Owned => NoGhostRun
  BY DEF Owned, NoGhostRun, AtRest, Unfinished, Procs
<1> QED BY <1>1, <1>2, OwnedStep, CInvHolds, PTL DEF Spec

-----------------------------------------------------------------------------
(* One run, any number of callers of pause.  A run has taken one step more *)
(* than it has made requests from the increment of the step until the      *)
(* request.  A live document counts the steps taken; one that is not may   *)
(* count fewer, because a pause writes back the copy it read.              *)
Counted(r) == (pos[r].op = "increment_step" /\ pos[r].at = "emit") \/ pos[r].at = "llm"
taken(r) == calls[r] + (IF Counted(r) THEN 1 ELSE 0)

CountInv(r) ==
  /\ redis.step <= taken(r)
  /\ \A p \in Procs : held[p].step <= taken(r)
  /\ redis.status \in Live => redis.step = taken(r)
  /\ pos[r].at = "save" /\ held[r].status \in Live => held[r].step = taken(r)
  /\ pos[r].at = "idle" \/ pos[r].op \in {"initialize", "start"} => taken(r) = 0
  /\ pos[r].op = "increment_step" /\ pos[r].at \in {"load", "save"} => taken(r) < MaxIterations
  /\ Counted(r) => taken(r) <= MaxIterations

Going(r) == pos[r].at \notin {"ended", "aborted"}
BudgetInv(r) == calls[r] <= MaxIterations /\ (Going(r) => CountInv(r))

(* The steps of others leave what the run has taken alone, and give a live *)
(* document to nobody.                                                     *)
LEMMA BudgetOfOthers ==
  ASSUME CInv, NEW r \in Runs, BudgetInv(r), NEW p \in Pausers,
         Pause(p) \/ Load(p) \/ Save(p) \/ UpdateDb(p) \/ Emit(p)
  PROVE  BudgetInv(r)'
<1> USE RuntimeAssumption DEF CInv
<1>1. pos'[r] = pos[r] /\ held'[r] = held[r] /\ calls' = calls
  <2>1. p # r /\ p \in Procs /\ r \in Procs
    BY DEF Procs
  <2>2. \E x : pos' = [pos EXCEPT ![p] = x]
    BY DEF Pause, Load, Save, UpdateDb, Emit, Goto
  <2>3. held' = held \/ (\E x : held' = [held EXCEPT ![p] = x])
    BY DEF Pause, Load, Save, UpdateDb, Emit
  <2>4. calls' = calls
    BY DEF Pause, Load, Save, UpdateDb, Emit, runVars
  <2> QED BY <2>1, <2>2, <2>3, <2>4 DEF TypeOK
<1>2. taken(r)' = taken(r) /\ (Counted(r)' <=> Counted(r)) /\ (Going(r)' <=> Going(r))
  BY <1>1 DEF taken, Counted, Going
<1>3. p \in Procs /\ (Save(p) => pos[p].op = "pause" /\ held[p] \in States)
  BY DEF Save, Control, Position, Procs
<1>4. ASSUME Going(r) PROVE CountInv(r)'
  <2>1. CountInv(r)
    BY <1>4 DEF BudgetInv
  <2>2. redis'.step <= taken(r) /\ (redis'.status \in Live => redis' = redis)
    <3>1. CASE Save(p)
      BY <1>3, <2>1, <3>1, UpdatedType DEF Save, CountInv, StatusAfter, Live
    <3>2. CASE ~Save(p)
      BY <2>1, <3>2 DEF Pause, Load, UpdateDb, Emit, CountInv
    <3> QED BY <3>1, <3>2
  <2>3. \A q \in Procs : held'[q].step <= taken(r)
    <3>1. CASE Save(p)
      BY <1>3, <2>1, <3>1 DEF Save, CountInv, TypeOK, NoState, taken
    <3>2. CASE Load(p)
      BY <1>3, <2>1, <3>2 DEF Load, CountInv, TypeOK
    <3>3. CASE ~Save(p) /\ ~Load(p)
      BY <2>1, <3>3 DEF Pause, UpdateDb, Emit, CountInv
    <3> QED BY <3>1, <3>2, <3>3
  <2> QED BY <1>1, <1>2, <2>1, <2>2, <2>3 DEF CountInv
<1> QED BY <1>1, <1>2, <1>4 DEF BudgetInv

LEMMA TakenType == ASSUME CInv, NEW r \in Runs PROVE taken(r) \in Nat /\ calls[r] \in Nat
BY DEF taken, CInv, TypeOK

(* What a step of the run itself has to show. *)
LEMMA BudgetLoad == ASSUME CInv, NEW r \in Runs, BudgetInv(r), Load(r) PROVE BudgetInv(r)'
<1> USE RuntimeAssumption DEF CInv
<1>1. r \in Procs /\ calls' = calls /\ redis' = redis /\ CountInv(r)
  BY DEF Load, Procs, runVars, BudgetInv, Going
<1>2. CASE redis = NoState
  <2>1. held' = held /\ pos'[r] = PastSave(r)
    BY <1>2 DEF Load, TypeOK, Procs
  <2>2. PastSave(r).at \in {"db", "emit", "checkpoint"}
        /\ (PastSave(r).op \in {"initialize", "start"} => pos[r].op = "start")
        /\ (PastSave(r).at = "emit" /\ PastSave(r).op = "increment_step" => pos[r].op = "increment_step")
    BY <1>1, PastSaveType DEF Load, Transitions
  <2>3. pos[r].at = "load"
    BY DEF Load
  <2>4. taken(r)' = IF Counted(r)' THEN calls[r] + 1 ELSE calls[r]
    BY <1>1, TakenType DEF taken, TypeOK
  <2>5. taken(r) = calls[r] /\ calls[r] \in Nat
    BY <2>3, TakenType DEF taken, Counted
  <2>6. Counted(r)' => pos[r].op = "increment_step"
    BY <2>1, <2>2 DEF Counted
  <2>7. \A p \in Procs : held[p].step \in Nat
    BY DEF TypeOK, States, NoState
  <2>8. taken(r)' \in Nat /\ taken(r) <= taken(r)'
    BY <2>4, <2>5
  <2>9. Counted(r)' => taken(r)' <= MaxIterations
    BY <1>1, <2>3, <2>4, <2>5, <2>6 DEF CountInv
  <2>10. pos'[r].at \notin {"idle", "load", "save"}
         /\ (pos'[r].op \in {"initialize", "start"} => taken(r)' = 0)
    BY <1>1, <2>1, <2>2, <2>4, <2>5, <2>6 DEF CountInv
  <2>11. redis'.status \notin Live /\ redis'.step = 0
    BY <1>1, <1>2 DEF NoState, Live
  <2>12. \A p \in Procs : held'[p].step <= taken(r)'
    BY <1>1, <2>1, <2>5, <2>7, <2>8 DEF CountInv
  <2> QED BY <1>1, <2>8, <2>9, <2>10, <2>11, <2>12 DEF CountInv, BudgetInv
<1>3. CASE redis # NoState
  <2>1. held' = [held EXCEPT ![r] = redis] /\ pos'[r] = [op |-> pos[r].op, at |-> "save"]
    BY <1>1, <1>3 DEF Load, TypeOK, Goto
  <2>2. taken(r)' = taken(r) /\ ~Counted(r)'
    BY <1>1, <2>1 DEF taken, Counted, Load
  <2>3. pos[r].at = "load"
    BY DEF Load
  <2> QED BY <1>1, <2>1, <2>2, <2>3 DEF CountInv, BudgetInv, TypeOK
<1> QED BY <1>2, <1>3

LEMMA BudgetSave == ASSUME CInv, NEW r \in Runs, BudgetInv(r), Save(r) PROVE BudgetInv(r)'
<1> USE RuntimeAssumption DEF CInv
<1>1. /\ r \in Procs /\ calls' = calls /\ CountInv(r) /\ pos[r].at = "save"
      /\ pos[r].op \in Updates /\ held[r] \in States
  BY DEF Save, Procs, runVars, BudgetInv, Going, Control, Position
<1>2. pos'[r] = PastSave(r) /\ held' = [held EXCEPT ![r] = NoState]
  BY DEF Save, TypeOK, Procs
<1>3. /\ PastSave(r).at \in {"db", "emit", "checkpoint"}
      /\ PastSave(r).op \in {"initialize", "start"} => pos[r].op = "start"
      /\ PastSave(r).at = "emit" =>
           (PastSave(r).op = "increment_step" <=> pos[r].op = "increment_step")
      /\ pos[r].op = "increment_step" => PastSave(r).at = "emit"
  BY <1>1, PastSaveType DEF PastSave, Transitions, Updates
<1>4. taken(r)' = IF pos[r].op = "increment_step" THEN taken(r) + 1 ELSE taken(r)
  BY <1>1, <1>2, <1>3, TakenType DEF taken, Counted
<1>5. redis'.step = (IF pos[r].op = "increment_step" THEN held[r].step + 1 ELSE held[r].step)
      /\ redis'.status = StatusAfter(pos[r].op, held[r])
  BY <1>1, UpdatedType DEF Save
<1>6. redis'.step <= taken(r)'
  BY <1>1, <1>4, <1>5, TakenType DEF CountInv, States
<1>7. \A p \in Procs : held'[p].step <= taken(r)'
  <2>1. \A p \in Procs : held[p].step \in Nat
    BY DEF TypeOK, States, NoState
  <2> QED BY <1>1, <1>2, <1>4, <2>1, TakenType DEF CountInv, TypeOK, NoState
<1>8. redis'.status \in Live => redis'.step = taken(r)'
  <2>1. CASE pos[r].op = "start"
    BY <1>1, <1>4, <1>5, <2>1, TakenType DEF CountInv, States
  <2>2. CASE pos[r].op \in {"pause", "complete", "fail"}
    BY <1>5, <2>2 DEF StatusAfter, Live
  <2>3. CASE pos[r].op \in {"increment_step", "record_tool_call"}
    BY <1>1, <1>4, <1>5, <2>3, TakenType DEF CountInv, StatusAfter, States
  <2> QED BY <1>1, <2>1, <2>2, <2>3 DEF Updates, Transitions
<1>9. Counted(r)' => pos[r].op = "increment_step"
  BY <1>2, <1>3 DEF Counted
<1>10. CountInv(r)'
  BY <1>1, <1>2, <1>3, <1>4, <1>6, <1>7, <1>8, <1>9, TakenType DEF CountInv
<1> QED BY <1>1, <1>10 DEF BudgetInv

LEMMA BudgetEmit == ASSUME CInv, NEW r \in Runs, BudgetInv(r), Emit(r) PROVE BudgetInv(r)'
<1> USE RuntimeAssumption DEF CInv
<1>1. r \in Procs /\ UNCHANGED <<calls, redis, held>> /\ CountInv(r) /\ pos[r].at = "emit"
  BY DEF Emit, Procs, BudgetInv, Going
<1>2. pos'[r] = PastEmit(pos[r].op) /\ pos[r].op \in Emitting
  BY <1>1 DEF Emit, TypeOK, Control, Position
<1>3. Counted(r)' <=> Counted(r)
  BY <1>1, <1>2, PastEmitType DEF Counted
<1>4. taken(r)' = taken(r)
  BY <1>1, <1>3 DEF taken
<1>5. /\ pos'[r].at \in {"load", "check", "llm", "emit", "ended"}
      /\ pos'[r].op # "increment_step"
      /\ pos'[r].op \in {"initialize", "start"} => pos[r].op = "initialize"
  BY <1>2, PastEmitType DEF PastEmit, Emitting, Transitions, Announcements
<1> QED BY <1>1, <1>3, <1>4, <1>5 DEF CountInv, BudgetInv

(* The remaining steps of a run do not touch a copy of the document. *)
LEMMA BudgetOwn ==
  ASSUME CInv, NEW r \in Runs, BudgetInv(r),
         CanContinue(r) \/ LlmError(r) \/ LlmToolCalls(r) \/ LlmText(r)
           \/ SaveCheckpoint(r) \/ UpdateDb(r) \/ Abort(r)
  PROVE  BudgetInv(r)'
<1> USE RuntimeAssumption DEF CInv
<1>1. r \in Procs /\ UNCHANGED <<redis, held>> /\ CountInv(r) /\ calls[r] \in Nat
  BY TakenType DEF CanContinue, LlmError, LlmToolCalls, LlmText, SaveCheckpoint, UpdateDb, Abort,
                   Request, Procs, BudgetInv, Going
<1>2. CASE CanContinue(r)
  <2>1. calls' = calls /\ pos[r].at = "check" /\ pos[r].op = "loop"
    BY <1>1, <1>2 DEF CanContinue, runVars, Control, Position
  <2>2. pos'[r] = IF can_continue THEN [op |-> "increment_step", at |-> "load"]
                                  ELSE [op |-> "complete", at |-> "load"]
    BY <1>1, <1>2 DEF CanContinue, Goto, TypeOK
  <2>3. taken(r) = calls[r] /\ taken(r)' = taken(r) /\ ~Counted(r)'
    BY <1>1, <2>1, <2>2 DEF taken, Counted
  <2>4. can_continue => taken(r) < MaxIterations
    BY <1>1 DEF can_continue, CountInv
  <2> QED BY <1>1, <2>1, <2>2, <2>3, <2>4 DEF CountInv, BudgetInv
<1>3. CASE LlmError(r) \/ LlmToolCalls(r) \/ LlmText(r)
  <2>1. pos[r].at = "llm" /\ calls'[r] = calls[r] + 1
    BY <1>3 DEF LlmError, LlmToolCalls, LlmText, Request, TypeOK
  <2>2. pos'[r] \in {[op |-> "fail", at |-> "load"], [op |-> "loop", at |-> "check"],
                     [op |-> "tool_called", at |-> "emit"],
                     [op |-> "step_completed", at |-> "emit"], [op |-> "final_output", at |-> "emit"]}
    BY <1>1, <1>3 DEF LlmError, LlmToolCalls, LlmText, Goto, TypeOK
  <2>3. Counted(r) /\ ~Counted(r)' /\ taken(r) = calls[r] + 1 /\ taken(r)' = calls[r] + 1
    BY <1>1, <2>1, <2>2 DEF taken, Counted
  <2> QED BY <1>1, <2>1, <2>2, <2>3 DEF CountInv, BudgetInv
<1>4. CASE SaveCheckpoint(r) \/ UpdateDb(r)
  <2>1. calls' = calls /\ pos[r].at \in {"checkpoint", "db"}
    BY <1>4 DEF SaveCheckpoint, UpdateDb, runVars
  <2>2. /\ pos'[r] \in {[op |-> "loop", at |-> "check"], [op |-> pos[r].op, at |-> "emit"]}
        /\ pos'[r].at = "emit" => pos[r].at = "db"
    BY <1>1, <1>4 DEF SaveCheckpoint, UpdateDb, Goto, TypeOK
  <2>3. pos[r].at = "db" => pos[r].op # "increment_step"
    BY <1>1 DEF Control, Position, Transitions
  <2>4. ~Counted(r) /\ ~Counted(r)'
    BY <2>1, <2>2, <2>3 DEF Counted
  <2>5. taken(r) = calls[r] /\ taken(r)' = taken(r)
    BY <2>1, <2>4, <1>1 DEF taken
  <2> QED BY <1>1, <2>1, <2>2, <2>4, <2>5 DEF CountInv, BudgetInv
<1>5. CASE Abort(r)
  <2>1. calls' = calls /\ ~Going(r)'
    BY <1>1, <1>5 DEF Abort, Goto, TypeOK, Going, runVars
  <2> QED BY <2>1 DEF BudgetInv
<1> QED BY <1>2, <1>3, <1>4, <1>5

LEMMA BudgetInitialize ==
  ASSUME CInv, NEW r \in Runs, BudgetInv(r), Initialize(r) PROVE BudgetInv(r)'
<1> USE DEF CInv
<1>1. r \in Procs /\ UNCHANGED <<held, calls>> /\ CountInv(r) /\ pos[r].at = "idle"
  BY DEF Initialize, Procs, runVars, BudgetInv, Going
<1>2. pos'[r] = [op |-> "initialize", at |-> "db"] /\ redis' = [status |-> "created", step |-> 0]
  BY <1>1 DEF Initialize, Goto, TypeOK
<1>3. taken(r) = 0 /\ taken(r)' = 0 /\ ~Counted(r)'
  BY <1>1, <1>2, TakenType DEF CountInv, taken, Counted
<1> QED BY <1>1, <1>2, <1>3 DEF CountInv, BudgetInv

LEMMA BudgetStep ==
  ASSUME NEW r \in Runs, Runs = {r}
  PROVE  CInv /\ BudgetInv(r) /\ [Next]_vars => BudgetInv(r)'
<1> SUFFICES ASSUME CInv, BudgetInv(r), [Next]_vars PROVE BudgetInv(r)'
  OBVIOUS
<1>1. CASE Deliver
  BY <1>1 DEF Deliver, BudgetInv, Going, CountInv, Counted, taken, runVars
<1>2. CASE UNCHANGED vars
  BY <1>2 DEF vars, BudgetInv, Going, CountInv, Counted, taken, runVars
<1>3. CASE Initialize(r) \/ RunStep(r) \/ Abort(r)
  BY <1>3, BudgetInitialize, BudgetLoad, BudgetSave, BudgetEmit, BudgetOwn DEF RunStep, ProcStep
<1>4. ASSUME NEW p \in Pausers, Pause(p) \/ ProcStep(p) PROVE BudgetInv(r)'
  BY <1>4, BudgetOfOthers DEF ProcStep
<1> QED BY <1>1, <1>2, <1>3, <1>4 DEF Next

LEMMA BudgetHolds ==
  ASSUME NEW r \in Runs, Runs = {r}
  PROVE  Spec => []BudgetInv(r)
<1>1. Init => BudgetInv(r)
  BY RuntimeAssumption DEF Init, BudgetInv, Going, CountInv, taken, Counted, NoState, Live, Procs
<1> QED BY <1>1, BudgetStep, CInvHolds, PTL DEF Spec

(* The document of the only run of an agent counts every request the run   *)
(* made, whenever it lets the run go on.                                   *)
THEOREM CountIsRight ==
  ASSUME NEW r \in Runs, Runs = {r}
  PROVE  Spec => []StepsCounted
<1>1. CInv /\ BudgetInv(r) => StepsCounted
  BY DEF CInv, Control, Position, Procs, BudgetInv, Going, CountInv, taken, Counted, StepsCounted, TypeOK
<1> QED BY <1>1, BudgetHolds, CInvHolds, PTL

-----------------------------------------------------------------------------
(* A run is bound for a request when it has passed the loop condition. *)
Bound(r) ==
  \/ pos[r].op = "increment_step" /\ pos[r].at \in {"load", "save", "emit"}
  \/ pos[r].at = "llm"

BoundRuns == {r \in Runs : Bound(r)}

(* While the document says "paused", a request is paid for by a run that   *)
(* is no longer bound for one.                                             *)
PauseInv ==
  /\ paused_calls <= Cardinality(Runs)
  /\ redis.status = "paused" => paused_calls + Cardinality(BoundRuns) <= Cardinality(Runs)

LEMMA Numbers ==
  ASSUME NEW S \in SUBSET Runs
  PROVE  /\ IsFiniteSet(S) /\ Cardinality(S) \in Nat
         /\ Cardinality(Runs) \in Nat /\ Cardinality(S) <= Cardinality(Runs)
BY RuntimeAssumption, FS_Subset, FS_CardinalityType

LEMMA FewerBound ==
  ASSUME BoundRuns' \subseteq BoundRuns
  PROVE  Cardinality(BoundRuns') <= Cardinality(BoundRuns)
BY Numbers, FS_Subset DEF BoundRuns

(* Only the loop condition binds a run for a request. *)
LEMMA BoundBefore ==
  ASSUME CInv, NEW r \in Runs, NEW p \in Procs, Load(p) \/ Save(p) \/ UpdateDb(p) \/ Emit(p)
  PROVE  Bound(r)' => Bound(r)
<1> USE DEF CInv
<1>1. CASE p # r
  <2>1. pos'[r] = pos[r]
    <3>1. \E x : pos' = [pos EXCEPT ![p] = x]
      BY DEF Load, Save, UpdateDb, Emit, Goto
    <3> QED BY <1>1, <3>1 DEF TypeOK, Procs
  <2> QED BY <2>1 DEF Bound
<1>2. CASE p = r
  <2>1. CASE Load(r) \/ Save(r)
    <3>1. pos'[r] = PastSave(r) \/ pos'[r] = [op |-> pos[r].op, at |-> "save"]
      BY <1>2, <2>1 DEF Load, Save, Goto, TypeOK, Procs
    <3>2. pos[r].op \in Updates /\ pos[r].at \in {"load", "save"}
      BY <2>1 DEF Load, Save
    <3>3. PastSave(r).at # "llm" /\ (PastSave(r).op = "increment_step" =>
                                       pos[r].op = "increment_step")
      BY <1>2, <3>2, PastSaveType DEF Transitions
    <3> QED BY <3>1, <3>2, <3>3 DEF Bound
  <2>2. CASE UpdateDb(r)
    <3>1. pos'[r] = [op |-> pos[r].op, at |-> "emit"] /\ pos[r].op # "increment_step"
      BY <1>2, <2>2 DEF UpdateDb, Goto, TypeOK, Control, Position, Transitions
    <3> QED BY <3>1 DEF Bound
  <2>3. CASE Emit(r)
    <3>1. pos'[r] = PastEmit(pos[r].op) /\ pos[r].op \in Emitting /\ pos[r].at = "emit"
      BY <1>2, <2>3 DEF Emit, TypeOK, Control, Position
    <3>2. PastEmit(pos[r].op).op # "increment_step"
          /\ (PastEmit(pos[r].op).at = "llm" => pos[r].op = "increment_step")
      BY <3>1, PastEmitType DEF PastEmit, Emitting, Transitions, Announcements
    <3> QED BY <3>1, <3>2 DEF Bound
  <2> QED BY <1>2, <2>1, <2>2, <2>3
<1> QED BY <1>1, <1>2

(* A step that binds no run and does not pause the agent. *)
LEMMA PauseKept ==
  ASSUME CInv, PauseInv, paused_calls' = paused_calls, BoundRuns' \subseteq BoundRuns,
         redis'.status = "paused" => redis.status = "paused"
  PROVE  PauseInv'
<1>1. /\ Cardinality(BoundRuns) \in Nat /\ Cardinality(BoundRuns)' \in Nat
      /\ Cardinality(Runs) \in Nat /\ paused_calls \in Nat
  BY Numbers DEF BoundRuns, CInv, TypeOK
<1> QED BY <1>1, FewerBound DEF PauseInv

LEMMA PauseStep == CInv /\ PauseInv /\ [Next]_vars => PauseInv'
<1> SUFFICES ASSUME CInv, PauseInv, [Next]_vars PROVE PauseInv'
  OBVIOUS
<1> USE RuntimeAssumption DEF CInv
<1>1. CASE Deliver \/ UNCHANGED vars
  BY <1>1, PauseKept DEF Deliver, vars, BoundRuns, Bound
<1>2. ASSUME NEW r \in Runs, Initialize(r) \/ Abort(r) \/ SaveCheckpoint(r) PROVE PauseInv'
  <2>1. /\ pos'[r].at \in {"db", "aborted", "check"} /\ paused_calls' = paused_calls
        /\ \A q \in Runs : q # r => pos'[q] = pos[q]
        /\ redis' = redis \/ redis'.status = "created"
    BY <1>2 DEF Initialize, Abort, SaveCheckpoint, Goto, TypeOK, Procs
  <2>2. BoundRuns' \subseteq BoundRuns
    BY <2>1 DEF BoundRuns, Bound
  <2> QED BY <2>1, <2>2, PauseKept
<1>3. ASSUME NEW r \in Runs, CanContinue(r) PROVE PauseInv'
  <2>1. redis' = redis /\ paused_calls' = paused_calls
    BY <1>3 DEF CanContinue
  <2>2. CASE can_continue
    BY <2>1, <2>2 DEF can_continue, Live, PauseInv
  <2>3. CASE ~can_continue
    <3>1. /\ pos'[r] = [op |-> "complete", at |-> "load"]
          /\ \A q \in Runs : q # r => pos'[q] = pos[q]
      BY <1>3, <2>3 DEF CanContinue, Goto, TypeOK, Procs
    <3>2. BoundRuns' \subseteq BoundRuns
      BY <3>1 DEF BoundRuns, Bound
    <3> QED BY <2>1, <3>2, PauseKept
  <2> QED BY <2>2, <2>3
<1>4. ASSUME NEW r \in Runs, LlmError(r) \/ LlmToolCalls(r) \/ LlmText(r) PROVE PauseInv'
  <2>1. /\ redis' = redis /\ pos[r].at = "llm"
        /\ paused_calls' = IF redis.status = "paused" THEN paused_calls + 1 ELSE paused_calls
    BY <1>4 DEF LlmError, LlmToolCalls, LlmText, Request
  <2>2. /\ ~Bound(r)' /\ \A q \in Runs : q # r => pos'[q] = pos[q]
    BY <1>4 DEF LlmError, LlmToolCalls, LlmText, Goto, TypeOK, Procs, Bound
  <2>3. r \in BoundRuns /\ BoundRuns' = BoundRuns \ {r}
    BY <2>1, <2>2 DEF BoundRuns, Bound
  <2>4. CASE redis.status = "paused"
    <3>1. Cardinality(BoundRuns)' = Cardinality(BoundRuns) - 1
      <4>1. IsFiniteSet(BoundRuns)
        BY Numbers DEF BoundRuns
      <4> QED BY <2>3, <4>1, FS_RemoveElement
    <3>2. /\ Cardinality(BoundRuns) \in Nat /\ Cardinality(BoundRuns)' \in Nat
          /\ Cardinality(Runs) \in Nat /\ paused_calls \in Nat
      BY Numbers DEF BoundRuns, TypeOK
    <3> QED BY <2>1, <2>4, <3>1, <3>2 DEF PauseInv
  <2>5. CASE redis.status # "paused"
    BY <2>1, <2>3, <2>5, PauseKept
  <2> QED BY <2>4, <2>5
<1>5. ASSUME NEW p \in Pausers, Pause(p) PROVE PauseInv'
  <2>1. (\A r \in Runs : pos'[r] = pos[r]) /\ UNCHANGED <<redis, paused_calls>>
    BY <1>5 DEF Pause, Goto, TypeOK, Procs
  <2>2. BoundRuns' \subseteq BoundRuns
    BY <2>1 DEF BoundRuns, Bound
  <2> QED BY <2>1, <2>2, PauseKept
<1>6. ASSUME NEW p \in Procs, Load(p) \/ UpdateDb(p) \/ Emit(p) \/ Save(p) PROVE PauseInv'
  <2>1. BoundRuns' \subseteq BoundRuns
    BY <1>6, BoundBefore DEF BoundRuns
  <2>2. CASE redis.status = "paused" \/ ~Save(p)
    <3>1. paused_calls' = paused_calls /\ (redis'.status = "paused" => redis.status = "paused")
      BY <1>6, <2>2 DEF Load, UpdateDb, Emit, Save
    <3> QED BY <2>1, <3>1, PauseKept
  <2>3. CASE redis.status # "paused" /\ Save(p)
    <3>1. paused_calls' = 0
      BY <2>3 DEF Save
    <3>2. /\ Cardinality(BoundRuns)' \in Nat /\ Cardinality(Runs) \in Nat
          /\ Cardinality(BoundRuns)' <= Cardinality(Runs)
      BY Numbers DEF BoundRuns
    <3> QED BY <3>1, <3>2 DEF PauseInv
  <2> QED BY <1>6, <2>2, <2>3
<1> QED BY <1>1, <1>2, <1>3, <1>4, <1>5, <1>6 DEF Next, RunStep, ProcStep, Procs

(* Once the document says "paused", each of the runs that work on it, any  *)
(* number of them, makes at most the one request it was already bound for. *)
THEOREM PauseIsHonoured == Spec => []PauseHonoured
<1>1. Init => PauseInv
  <2>1. Cardinality(Runs) \in Nat
    BY Numbers
  <2> QED BY <2>1 DEF Init, PauseInv, NoState
<1>2. PauseInv => PauseHonoured
  BY DEF PauseInv, PauseHonoured
<1> QED BY <1>1, <1>2, PauseStep, CInvHolds, PTL DEF Spec

-----------------------------------------------------------------------------
(* Any number of runs, one after the other.  A live document counts at     *)
(* least the steps the run at work has taken; it counts more when a pause  *)
(* left over from an earlier run writes back the copy it read then.        *)
Active(r) == pos[r].at \notin {"idle", "ended", "aborted"}
OneAtATime == \A r, s \in Runs : Active(r) /\ Active(s) => r = s

NotShort(r) ==
  /\ redis.status \in Live => taken(r) <= redis.step
  /\ pos[r].at = "save" /\ held[r].status \in Live => taken(r) <= held[r].step
  /\ pos[r].op \in {"initialize", "start"} => taken(r) = 0
  /\ pos[r].op = "increment_step" /\ pos[r].at \in {"load", "save"} => taken(r) < MaxIterations
  /\ Counted(r) => taken(r) <= MaxIterations

InTurn(r) ==
  /\ calls[r] <= MaxIterations
  /\ pos[r].at = "idle" => calls[r] = 0
  /\ Active(r) => NotShort(r)

(* A step that does not concern r, and makes no document live while r is   *)
(* at work.                                                                *)
LEMMA NotMyTurn ==
  ASSUME NEW r \in Runs, InTurn(r), pos'[r] = pos[r], held'[r] = held[r], calls'[r] = calls[r],
         redis' = redis \/ redis'.status \notin Live \/ ~Active(r)
  PROVE  InTurn(r)'
BY DEF InTurn, NotShort, Active, Counted, taken

LEMMA TurnLoad == ASSUME CInv, NEW r \in Runs, InTurn(r), Load(r) PROVE InTurn(r)'
<1> USE RuntimeAssumption DEF CInv
<1>1. /\ r \in Procs /\ calls' = calls /\ redis' = redis /\ NotShort(r)
      /\ pos[r].at = "load" /\ pos[r].op \in Updates
  BY DEF Load, Procs, runVars, InTurn, Active
<1>2. taken(r) = calls[r] /\ calls[r] \in Nat
  BY <1>1, TakenType DEF taken, Counted
<1>3. CASE redis = NoState
  <2>1. held' = held /\ pos'[r] = PastSave(r)
    BY <1>3 DEF Load, TypeOK, Procs
  <2>2. /\ PastSave(r).at \in {"db", "emit", "checkpoint"}
        /\ PastSave(r).op \in {"initialize", "start"} => pos[r].op = "start"
        /\ PastSave(r).at = "emit" /\ PastSave(r).op = "increment_step" =>
             pos[r].op = "increment_step"
        /\ PastSave(r).op = "increment_step" => PastSave(r).at = "emit"
    BY <1>1, PastSaveType DEF Transitions
  <2>3. Counted(r)' => pos[r].op = "increment_step"
    BY <2>1, <2>2 DEF Counted
  <2>4. taken(r)' = IF Counted(r)' THEN calls[r] + 1 ELSE calls[r]
    BY <1>1, <1>2 DEF taken
  <2>5. redis'.status \notin Live
    BY <1>1, <1>3 DEF NoState, Live
  <2>6. Counted(r)' => taken(r)' <= MaxIterations
    BY <1>1, <1>2, <2>3, <2>4 DEF NotShort
  <2>7. pos'[r].op \in {"initialize", "start"} => taken(r)' = 0
    BY <1>1, <1>2, <2>1, <2>2, <2>3, <2>4 DEF NotShort
  <2>8. NotShort(r)'
    BY <2>1, <2>2, <2>5, <2>6, <2>7 DEF NotShort
  <2> QED BY <1>1, <2>1, <2>2, <2>8 DEF InTurn
<1>4. CASE redis # NoState
  <2>1. held'[r] = redis /\ pos'[r] = [op |-> pos[r].op, at |-> "save"]
    BY <1>1, <1>4 DEF Load, TypeOK, Goto
  <2>2. taken(r)' = taken(r) /\ ~Counted(r)'
    BY <1>1, <1>2, <2>1 DEF taken, Counted
  <2> QED BY <1>1, <2>1, <2>2 DEF NotShort, InTurn
<1> QED BY <1>3, <1>4

LEMMA TurnSave == ASSUME CInv, NEW r \in Runs, InTurn(r), Save(r) PROVE InTurn(r)'
<1> USE RuntimeAssumption DEF CInv
<1>1. /\ r \in Procs /\ calls' = calls /\ NotShort(r) /\ pos[r].at = "save"
      /\ pos[r].op \in Updates /\ held[r] \in States
  BY DEF Save, Procs, runVars, InTurn, Active, Control, Position
<1>2. pos'[r] = PastSave(r) /\ held'[r] = NoState
  BY DEF Save, TypeOK, Procs
<1>3. /\ PastSave(r).at \in {"db", "emit", "checkpoint"}
      /\ PastSave(r).op \in {"initialize", "start"} => pos[r].op = "start"
      /\ PastSave(r).at = "emit" =>
           (PastSave(r).op = "increment_step" <=> pos[r].op = "increment_step")
      /\ pos[r].op = "increment_step" => PastSave(r).at = "emit"
      /\ PastSave(r).op = "increment_step" => PastSave(r).at = "emit"
  BY <1>1, PastSaveType DEF PastSave, Transitions, Updates
<1>4. Counted(r)' <=> pos[r].op = "increment_step"
  BY <1>2, <1>3 DEF Counted
<1>5. /\ taken(r) = calls[r] /\ calls[r] \in Nat
      /\ taken(r)' = IF pos[r].op = "increment_step" THEN taken(r) + 1 ELSE taken(r)
  BY <1>1, <1>4, TakenType DEF taken, Counted
<1>6. redis'.step = (IF pos[r].op = "increment_step" THEN held[r].step + 1 ELSE held[r].step)
      /\ redis'.status = StatusAfter(pos[r].op, held[r])
  BY <1>1, UpdatedType DEF Save
<1>7. redis'.status \in Live => taken(r)' <= redis'.step
  <2>1. CASE pos[r].op = "start"
    BY <1>1, <1>5, <1>6, <2>1 DEF NotShort, States
  <2>2. CASE pos[r].op \in {"pause", "complete", "fail"}
    BY <1>6, <2>2 DEF StatusAfter, Live
  <2>3. CASE pos[r].op \in {"increment_step", "record_tool_call"}
    BY <1>1, <1>5, <1>6, <2>3 DEF NotShort, StatusAfter, States
  <2> QED BY <1>1, <2>1, <2>2, <2>3 DEF Updates, Transitions
<1>8. Counted(r)' => taken(r)' <= MaxIterations
  BY <1>1, <1>4, <1>5 DEF NotShort
<1>9. pos'[r].op \in {"initialize", "start"} => taken(r)' = 0
  BY <1>1, <1>2, <1>3, <1>5 DEF NotShort
<1>10. NotShort(r)'
  BY <1>2, <1>3, <1>7, <1>8, <1>9 DEF NotShort
<1> QED BY <1>1, <1>2, <1>3, <1>10 DEF InTurn

LEMMA TurnEmit == ASSUME CInv, NEW r \in Runs, InTurn(r), Emit(r) PROVE InTurn(r)'
<1> USE RuntimeAssumption DEF CInv
<1>1. r \in Procs /\ UNCHANGED <<calls, redis, held>> /\ NotShort(r) /\ pos[r].at = "emit"
  BY DEF Emit, Procs, InTurn, Active
<1>2. pos'[r] = PastEmit(pos[r].op) /\ pos[r].op \in Emitting
  BY <1>1 DEF Emit, TypeOK, Control, Position
<1>3. Counted(r)' <=> Counted(r)
  BY <1>1, <1>2, PastEmitType DEF Counted
<1>4. taken(r)' = taken(r)
  BY <1>1, <1>3 DEF taken
<1>5. /\ pos'[r].at \in {"load", "check", "llm", "emit", "ended"}
      /\ pos'[r].op # "increment_step"
      /\ pos'[r].op \in {"initialize", "start"} => pos[r].op = "initialize"
  BY <1>2, PastEmitType DEF PastEmit, Emitting, Transitions, Announcements
<1> QED BY <1>1, <1>3, <1>4, <1>5 DEF NotShort, InTurn

LEMMA TurnOwn ==
  ASSUME CInv, NEW r \in Runs, InTurn(r),
         Initialize(r) \/ CanContinue(r) \/ LlmError(r) \/ LlmToolCalls(r) \/ LlmText(r)
           \/ SaveCheckpoint(r) \/ UpdateDb(r) \/ Abort(r)
  PROVE  InTurn(r)'
<1> USE RuntimeAssumption DEF CInv
<1>1. r \in Procs /\ held' = held /\ calls[r] \in Nat
  BY TakenType DEF Initialize, CanContinue, LlmError, LlmToolCalls, LlmText, SaveCheckpoint,
                   UpdateDb, Abort, Request, Procs
<1>2. CASE CanContinue(r)
  <2>1. /\ calls' = calls /\ redis' = redis /\ pos[r].at = "check" /\ pos[r].op = "loop"
        /\ NotShort(r)
    BY <1>1, <1>2 DEF CanContinue, runVars, Control, Position, InTurn, Active
  <2>2. pos'[r] = IF can_continue THEN [op |-> "increment_step", at |-> "load"]
                                  ELSE [op |-> "complete", at |-> "load"]
    BY <1>1, <1>2 DEF CanContinue, Goto, TypeOK
  <2>3. taken(r) = calls[r] /\ taken(r)' = taken(r) /\ ~Counted(r)'
    BY <1>1, <2>1, <2>2 DEF taken, Counted
  <2>4. can_continue => taken(r) < MaxIterations
    BY <1>1, <2>1, <2>3 DEF can_continue, NotShort, TypeOK, States, NoState
  <2> QED BY <2>1, <2>2, <2>3, <2>4 DEF NotShort, InTurn
<1>3. CASE LlmError(r) \/ LlmToolCalls(r) \/ LlmText(r)
  <2>1. pos[r].at = "llm" /\ calls'[r] = calls[r] + 1 /\ redis' = redis /\ NotShort(r)
    BY <1>3 DEF LlmError, LlmToolCalls, LlmText, Request, TypeOK, InTurn, Active
  <2>2. pos'[r] \in {[op |-> "fail", at |-> "load"], [op |-> "loop", at |-> "check"],
                     [op |-> "tool_called", at |-> "emit"],
                     [op |-> "step_completed", at |-> "emit"], [op |-> "final_output", at |-> "emit"]}
    BY <1>1, <1>3 DEF LlmError, LlmToolCalls, LlmText, Goto, TypeOK
  <2>3. Counted(r) /\ ~Counted(r)' /\ taken(r) = calls[r] + 1 /\ taken(r)' = calls[r] + 1
    BY <1>1, <2>1, <2>2 DEF taken, Counted
  <2> QED BY <2>1, <2>2, <2>3 DEF NotShort, InTurn
<1>4. CASE SaveCheckpoint(r) \/ UpdateDb(r)
  <2>1. calls' = calls /\ pos[r].at \in {"checkpoint", "db"} /\ redis' = redis /\ NotShort(r)
    BY <1>4 DEF SaveCheckpoint, UpdateDb, runVars, InTurn, Active
  <2>2. /\ pos'[r] \in {[op |-> "loop", at |-> "check"], [op |-> pos[r].op, at |-> "emit"]}
        /\ pos'[r].at = "emit" => pos[r].at = "db"
    BY <1>1, <1>4 DEF SaveCheckpoint, UpdateDb, Goto, TypeOK
  <2>3. pos[r].at = "db" => pos[r].op # "increment_step"
    BY <1>1 DEF Control, Position, Transitions
  <2>4. ~Counted(r) /\ ~Counted(r)'
    BY <2>1, <2>2, <2>3 DEF Counted
  <2>5. taken(r) = calls[r] /\ taken(r)' = taken(r)
    BY <2>1, <2>4, <1>1 DEF taken
  <2> QED BY <2>1, <2>2, <2>4, <2>5 DEF NotShort, InTurn
<1>5. CASE Abort(r)
  <2>1. calls' = calls /\ pos'[r].at = "aborted"
    BY <1>1, <1>5 DEF Abort, Goto, TypeOK, runVars
  <2> QED BY <2>1 DEF InTurn, Active
<1>6. CASE Initialize(r)
  <2>1. /\ calls' = calls /\ calls[r] = 0 /\ pos'[r] = [op |-> "initialize", at |-> "db"]
        /\ redis' = [status |-> "created", step |-> 0]
    BY <1>1, <1>6 DEF Initialize, Goto, TypeOK, runVars, InTurn
  <2>2. taken(r)' = 0 /\ ~Counted(r)'
    BY <2>1 DEF taken, Counted
  <2> QED BY <2>1, <2>2 DEF NotShort, InTurn
<1> QED BY <1>2, <1>3, <1>4, <1>5, <1>6

(* A step of p leaves the position, the copy and the requests of another   *)
(* process alone.                                                          *)
LEMMA OthersUntouched ==
  ASSUME CInv, NEW p \in Procs, NEW r \in Runs, p # r,
         Pause(p) \/ ProcStep(p) \/ (p \in Runs /\ (Initialize(p) \/ RunStep(p) \/ Abort(p)))
  PROVE  pos'[r] = pos[r] /\ held'[r] = held[r] /\ calls'[r] = calls[r]
<1> USE DEF CInv, ProcStep, RunStep
<1>1. \E x : pos' = [pos EXCEPT ![p] = x]
  BY DEF Pause, Load, Save, UpdateDb, Emit, Initialize, CanContinue, LlmError, LlmToolCalls,
         LlmText, SaveCheckpoint, Abort, Goto
<1>2. held' = held \/ (\E x : held' = [held EXCEPT ![p] = x])
  BY DEF Pause, Load, Save, UpdateDb, Emit, Initialize, CanContinue, LlmError, LlmToolCalls,
         LlmText, Request, SaveCheckpoint, Abort
<1>3. calls' = calls \/ (\E x : calls' = [calls EXCEPT ![p] = x])
  BY DEF Pause, Load, Save, UpdateDb, Emit, Initialize, CanContinue, LlmError, LlmToolCalls,
         LlmText, Request, SaveCheckpoint, Abort, runVars
<1> QED BY <1>1, <1>2, <1>3 DEF TypeOK, Procs

LEMMA TurnStep ==
  ASSUME CInv, OneAtATime, OneAtATime', NEW r \in Runs, InTurn(r), [Next]_vars
  PROVE  InTurn(r)'
<1> USE DEF CInv
<1>1. CASE Initialize(r) \/ RunStep(r) \/ Abort(r)
  BY <1>1, TurnLoad, TurnSave, TurnEmit, TurnOwn DEF RunStep, ProcStep
<1>2. ASSUME NEW q \in Runs, q # r, Initialize(q) \/ RunStep(q) \/ Abort(q)
      PROVE  InTurn(r)'
  <2>1. q \in Procs /\ pos'[r] = pos[r] /\ held'[r] = held[r] /\ calls'[r] = calls[r]
    BY <1>2, OthersUntouched DEF Procs
  <2>2. Active(q) \/ Active(q)'
    <3>1. CASE Initialize(q)
      BY <2>1, <3>1 DEF Initialize, Goto, TypeOK, Active
    <3>2. CASE RunStep(q) \/ Abort(q)
      BY <3>2 DEF RunStep, ProcStep, Load, Save, UpdateDb, Emit, CanContinue, LlmError,
                  LlmToolCalls, LlmText, Request, SaveCheckpoint, Abort, Active
    <3> QED BY <1>2, <3>1, <3>2
  <2>3. ~Active(r)
    BY <1>2, <2>1, <2>2 DEF OneAtATime, Active
  <2> QED BY <2>1, <2>3, NotMyTurn
<1>3. ASSUME NEW p \in Pausers, Pause(p) \/ ProcStep(p) PROVE InTurn(r)'
  <2>1. p \in Procs /\ p # r /\ pos'[r] = pos[r] /\ held'[r] = held[r] /\ calls'[r] = calls[r]
    BY <1>3, OthersUntouched, RuntimeAssumption DEF Procs
  <2>2. Save(p) => pos[p].op = "pause" /\ held[p] \in States
    BY <2>1, RuntimeAssumption DEF Save, Control, Position
  <2>3. redis' = redis \/ redis'.status \notin Live
    BY <1>3, <2>2, UpdatedType DEF ProcStep, Pause, Load, Save, UpdateDb, Emit, StatusAfter, Live
  <2> QED BY <2>1, <2>3, NotMyTurn
<1>4. CASE Deliver \/ UNCHANGED vars
  BY <1>4, NotMyTurn DEF Deliver, vars, runVars
<1> QED BY <1>1, <1>2, <1>3, <1>4 DEF Next

LEMMA TurnsHold == Spec /\ []OneAtATime => [](\A r \in Runs : InTurn(r))
<1> DEFINE Turns == \A r \in Runs : InTurn(r)
<1>1. Init => Turns
  BY RuntimeAssumption DEF Init, InTurn, Active, Procs
<1>2. CInv /\ OneAtATime /\ OneAtATime' /\ Turns /\ [Next]_vars => Turns'
  BY TurnStep
<1> HIDE DEF Turns
<1>3. Spec /\ []OneAtATime => []Turns
  BY <1>1, <1>2, CInvHolds, PTL DEF Spec
<1> QED BY <1>3 DEF Turns

(* A run asks the model at most max_iterations times, however many callers *)
(* of pause race with its unlocked updates, an earlier run's included, as  *)
(* long as no two runs of the agent are at work at the same time.          *)
THEOREM IterationCap == Spec /\ []OneAtATime => []IterationBudget
<1>1. (\A r \in Runs : InTurn(r)) => IterationBudget
  BY DEF InTurn, IterationBudget
<1> QED BY <1>1, TurnsHold, PTL

(* ... and a document that lets it go on has not lost count of any of its  *)
(* requests (it may count too many, see above).                            *)
CountNotShort == \A r \in Runs : pos[r].at = "check" /\ redis.status \in Live => calls[r] <= redis.step

(* state_manager.py increment_step: the count a run is let go on with      *)
(* covers all its requests, if no other run of the agent overlaps it.      *)
THEOREM CountIsNeverShort == Spec /\ []OneAtATime => []CountNotShort
<1>1. ASSUME CInv, \A r \in Runs : InTurn(r), NEW r \in Runs, pos[r].at = "check"
      PROVE  redis.status \in Live => calls[r] <= redis.step
  <2>1. NotShort(r)
    BY <1>1 DEF InTurn, Active
  <2>2. pos[r].op = "loop"
    BY <1>1 DEF CInv, Control, Position, Procs
  <2>3. taken(r) = calls[r]
    BY <1>1, <2>2, TakenType DEF taken, Counted
  <2> QED BY <2>1, <2>3 DEF NotShort
<1>2. CInv /\ (\A r \in Runs : InTurn(r)) => CountNotShort
  BY <1>1 DEF CountNotShort
<1> QED BY <1>2, TurnsHold, CInvHolds, PTL

-----------------------------------------------------------------------------
(* What RunEnds needs besides fairness: between two increments of the step *)
(* a run goes strictly down this scale, tool calls included.               *)
Rank(r) ==
  LET op == pos[r].op  at == pos[r].at IN
  CASE at = "idle"       -> 14
    [] at = "check"      -> 6
    [] at = "checkpoint" -> 8
    [] at = "llm"        -> 4 * MaxToolCalls + 19
    [] op = "initialize" /\ at \in {"db", "emit"} -> IF at = "db" THEN 13 ELSE 12
    [] op = "start" /\ at \in {"load", "save", "db", "emit"} ->
         (CASE at = "load" -> 11 [] at = "save" -> 10 [] at = "db" -> 9 [] at = "emit" -> 8)
    [] op = "increment_step" /\ at \in {"load", "save", "emit"} ->
         (CASE at = "load" -> 5 [] at = "save" -> 4 [] at = "emit" -> 4 * MaxToolCalls + 20)
    [] op \in Announcements /\ at = "emit" ->
         (CASE op = "tool_called" -> 4 * todo[r] + 8
            [] op = "tool_result" -> 4 * todo[r] + 11
            [] OTHER -> 7)
    [] op = "record_tool_call" /\ at \in {"load", "save"} ->
         IF at = "load" THEN 4 * todo[r] + 10 ELSE 4 * todo[r] + 9
    [] op \in {"complete", "fail"} /\ at \in {"load", "save", "db", "emit"} ->
         (CASE at = "load" -> 4 [] at = "save" -> 3 [] at = "db" -> 2 [] at = "emit" -> 1)
    [] OTHER -> 0

(* A step of a run is cancelled, takes the run to its next iteration, or   *)
(* brings it nearer to the end of the one it is in; a run that is over     *)
(* takes no step.  With IterationCap: a run that is alone takes at most    *)
(* (max_iterations + 1) * (4 * tool calls + 21) steps.                     *)
Nearer(r) ==
  /\ pos[r].at \notin {"ended", "aborted"}
  /\ \/ pos'[r].at = "aborted"
     \/ taken(r)' = taken(r) + 1
     \/ taken(r)' = taken(r) /\ Rank(r)' < Rank(r)
RunsDescend == [][\A r \in Runs : pos'[r] # pos[r] => Nearer(r)]_vars
RankIsNat == \A r \in Runs : Rank(r) \in Nat

LEMMA NearerSave ==
  ASSUME CInv, NEW r \in Runs, Load(r) \/ Save(r)
  PROVE  Nearer(r)
<1> USE RuntimeAssumption DEF CInv
<1>1. /\ r \in Procs /\ calls' = calls /\ todo' = todo /\ pos[r].at \in {"load", "save"}
      /\ pos[r].op \in Updates \ {"pause"} /\ calls[r] \in Nat /\ todo[r] \in Nat
      /\ pos'[r] = PastSave(r) \/ (pos[r].at = "load" /\ pos'[r] = [op |-> pos[r].op, at |-> "save"])
  BY DEF Load, Save, Procs, runVars, TypeOK, Goto, Control, Position
<1>2. ~Counted(r) /\ taken(r) = calls[r] /\ taken(r)' = IF Counted(r)' THEN calls[r] + 1 ELSE calls[r]
  BY <1>1 DEF Counted, taken
<1>3. CASE pos'[r] = [op |-> pos[r].op, at |-> "save"] /\ pos[r].at = "load"
  <2>1. ~Counted(r)'
    BY <1>3 DEF Counted
  <2> QED BY <1>1, <1>2, <1>3, <2>1 DEF Nearer, Rank, Updates, Transitions
<1>4. CASE pos'[r] = PastSave(r)
  <2>1. CASE pos[r].op \in Transitions
    <3>1. pos'[r] = [op |-> pos[r].op, at |-> "db"] /\ ~Counted(r)'
      BY <1>4, <2>1 DEF PastSave, Counted, Transitions
    <3> QED BY <1>1, <1>2, <2>1, <3>1 DEF Nearer, Rank, Transitions
  <2>2. CASE pos[r].op = "increment_step"
    <3>1. Counted(r)'
      BY <1>4, <2>2 DEF PastSave, Counted, Transitions
    <3> QED BY <1>1, <1>2, <3>1 DEF Nearer
  <2>3. CASE pos[r].op = "record_tool_call"
    <3>1. /\ ~Counted(r)'
          /\ pos'[r] = IF todo[r] > 0 THEN [op |-> "tool_called", at |-> "emit"]
                                      ELSE [op |-> "loop", at |-> "checkpoint"]
      BY <1>4, <2>3 DEF PastSave, Counted, Transitions
    <3> QED BY <1>1, <1>2, <2>3, <3>1 DEF Nearer, Rank, Announcements
  <2> QED BY <1>1, <2>1, <2>2, <2>3 DEF Updates
<1> QED BY <1>1, <1>3, <1>4

LEMMA NearerEmit == ASSUME CInv, NEW r \in Runs, Emit(r) PROVE Nearer(r)
<1> USE RuntimeAssumption DEF CInv
<1>1. /\ r \in Procs /\ calls' = calls /\ pos[r].at = "emit" /\ pos[r].op \in Emitting \ {"pause"}
      /\ calls[r] \in Nat /\ todo[r] \in Nat /\ pos'[r] = PastEmit(pos[r].op)
      /\ todo'[r] = IF pos[r].op = "tool_called" THEN todo[r] - 1 ELSE todo[r]
  BY DEF Emit, Procs, TypeOK, Control, Position
<1>2. Counted(r)' <=> Counted(r)
  BY <1>1, PastEmitType DEF Counted
<1>3. taken(r)' = taken(r)
  BY <1>1, <1>2 DEF taken
<1>4. CASE pos[r].op \in {"tool_called", "tool_result"}
  <2>1. pos[r].op = "tool_called" => pos'[r] = [op |-> "tool_result", at |-> "emit"]
    BY <1>1 DEF PastEmit
  <2>2. pos[r].op = "tool_result" => pos'[r] = [op |-> "record_tool_call", at |-> "load"]
    BY <1>1 DEF PastEmit
  <2> QED BY <1>1, <1>3, <1>4, <2>1, <2>2 DEF Nearer, Rank, Announcements
<1>5. CASE pos[r].op = "increment_step"
  <2>1. pos'[r] = [op |-> "loop", at |-> "llm"]
    BY <1>1, <1>5 DEF PastEmit
  <2> QED BY <1>1, <1>3, <1>5, <2>1 DEF Nearer, Rank, Announcements
<1>6. CASE pos[r].op \in {"initialize", "start", "step_completed", "final_output"}
  <2>1. pos'[r] = CASE pos[r].op = "initialize" -> [op |-> "start", at |-> "load"]
                    [] pos[r].op = "final_output" -> [op |-> "complete", at |-> "load"]
                    [] OTHER -> [op |-> "loop", at |-> "check"]
    BY <1>1, <1>6 DEF PastEmit
  <2> QED BY <1>1, <1>3, <1>6, <2>1 DEF Nearer, Rank, Announcements
<1>7. CASE pos[r].op \in {"complete", "fail"}
  <2>1. pos'[r] = [op |-> pos[r].op, at |-> "ended"]
    BY <1>1, <1>7 DEF PastEmit
  <2> QED BY <1>1, <1>3, <1>7, <2>1 DEF Nearer, Rank, Announcements
<1> QED BY <1>1, <1>4, <1>5, <1>6, <1>7 DEF Emitting, Transitions, Announcements

LEMMA NearerOwn ==
  ASSUME CInv, NEW r \in Runs,
         Initialize(r) \/ CanContinue(r) \/ LlmError(r) \/ LlmToolCalls(r) \/ LlmText(r)
           \/ SaveCheckpoint(r) \/ UpdateDb(r) \/ Abort(r)
  PROVE  Nearer(r)
<1> USE RuntimeAssumption DEF CInv
<1>1. r \in Procs /\ calls[r] \in Nat
  BY TakenType DEF Procs
<1>2. CASE LlmError(r) \/ LlmToolCalls(r) \/ LlmText(r)
  <2>1. pos[r].at = "llm" /\ calls'[r] = calls[r] + 1 /\ todo'[r] \in 0 .. MaxToolCalls
    BY <1>2 DEF LlmError, LlmToolCalls, LlmText, Request, TypeOK
  <2>2. pos'[r] \in {[op |-> "fail", at |-> "load"], [op |-> "loop", at |-> "check"],
                     [op |-> "tool_called", at |-> "emit"],
                     [op |-> "step_completed", at |-> "emit"], [op |-> "final_output", at |-> "emit"]}
    BY <1>1, <1>2 DEF LlmError, LlmToolCalls, LlmText, Goto, TypeOK
  <2>3. taken(r) = calls[r] + 1 /\ taken(r)' = calls[r] + 1
    BY <1>1, <2>1, <2>2 DEF taken, Counted
  <2>4. Rank(r) = 4 * MaxToolCalls + 19
    BY <2>1 DEF Rank
  <2>5. Rank(r)' <= 4 * MaxToolCalls + 8
    BY <2>1, <2>2 DEF Rank, Announcements
  <2>6. Rank(r)' < Rank(r)
    <3>1. Rank(r)' \in Nat
      BY <2>1, <2>2 DEF Rank, Announcements
    <3> QED BY <2>4, <2>5, <3>1
  <2> QED BY <2>1, <2>3, <2>6 DEF Nearer
<1>3. CASE Abort(r)
  <2>1. pos'[r].at = "aborted" /\ pos[r].at \notin {"ended", "aborted"}
    BY <1>1, <1>3 DEF Abort, Goto, TypeOK
  <2> QED BY <2>1 DEF Nearer
<1>4. CASE Initialize(r) \/ CanContinue(r) \/ SaveCheckpoint(r) \/ UpdateDb(r)
  <2>1. /\ calls' = calls
        /\ \/ pos[r].at = "idle" /\ pos'[r] = [op |-> "initialize", at |-> "db"]
           \/ pos[r].at = "check" /\ pos[r].op = "loop"
                /\ pos'[r] \in {[op |-> "increment_step", at |-> "load"],
                                 [op |-> "complete", at |-> "load"]}
           \/ pos[r].at = "checkpoint" /\ pos'[r] = [op |-> "loop", at |-> "check"]
           \/ pos[r].at = "db" /\ pos'[r] = [op |-> pos[r].op, at |-> "emit"]
                /\ pos[r].op \in {"initialize", "start", "complete", "fail"}
    BY <1>1, <1>4 DEF Initialize, CanContinue, SaveCheckpoint, UpdateDb, Goto, TypeOK, runVars,
       Control, Position, Transitions
  <2>2. ~Counted(r) /\ ~Counted(r)'
    BY <2>1 DEF Counted
  <2>3. taken(r)' = taken(r)
    BY <2>1, <2>2 DEF taken
  <2> QED BY <2>1, <2>3 DEF Nearer, Rank, Announcements
<1> QED BY <1>2, <1>3, <1>4

LEMMA RankType == CInv => RankIsNat
<1> SUFFICES ASSUME CInv, NEW r \in Runs PROVE Rank(r) \in Nat
  BY DEF RankIsNat
<1>1. todo[r] \in Nat /\ MaxToolCalls \in Nat
  BY RuntimeAssumption DEF CInv, TypeOK
<1> QED BY <1>1 DEF Rank, Announcements

(* Every step a run takes is one of these, whatever other runs, callers of *)
(* pause and the event bus do in between.                                  *)
THEOREM RunsLeadOn == Spec => []RankIsNat /\ RunsDescend
<1> DEFINE Down == \A r \in Runs : pos'[r] # pos[r] => Nearer(r)
<1>1. ASSUME CInv, [Next]_vars, NEW r \in Runs, pos'[r] # pos[r] PROVE Nearer(r)
  <2>1. CASE Initialize(r) \/ RunStep(r) \/ Abort(r)
    BY <1>1, <2>1, NearerSave, NearerEmit, NearerOwn DEF RunStep, ProcStep
  <2>2. ASSUME NEW p \in Procs, p # r,
               Pause(p) \/ ProcStep(p) \/ (p \in Runs /\ (Initialize(p) \/ RunStep(p) \/ Abort(p)))
        PROVE  FALSE
    BY <1>1, <2>2, OthersUntouched
  <2>3. CASE Deliver \/ UNCHANGED vars
    BY <1>1, <2>3 DEF Deliver, vars
  <2> QED BY <1>1, <2>1, <2>2, <2>3, RuntimeAssumption DEF Next, Procs
<1>2. CInv /\ [Next]_vars => [Down]_vars
  BY <1>1
<1> HIDE DEF Down
<1>3. Spec => [][Down]_vars
  BY <1>2, CInvHolds, PTL DEF Spec
<1> QED BY <1>3, RankType, CInvHolds, PTL DEF Down, RunsDescend

=============================================================================
