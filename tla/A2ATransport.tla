---------------------------- MODULE A2ATransport ----------------------------
(***************************************************************************)
(* backend/a2a/transport.py with the channel and the broker built on it    *)
(* (channels/direct.py, broker.py).  A message to an agent is added to its *)
(* inbox, a sorted set in Redis, and published on its channel.  An agent   *)
(* with an open channel has two tasks: the poller, which reads the inbox,  *)
(* removes what it read in a second command and hands it over, and the     *)
(* listener, which hands over what was published while it was subscribed.  *)
(* So a message comes by two paths.  request_response polls the inbox of   *)
(* the sender itself until the reply is there or the time is over.         *)
(*                                                                         *)
(* A message is the request r, or a reply <<r, c, p>>: the one callback c  *)
(* sent when path p handed it r.  Scores are not modelled: which members a *)
(* reader gets and in which order is left open.  Nor is time: a message    *)
(* whose ttl is over, a deadline and a key that expires are                *)
(* nondeterministic choices.                                               *)
(***************************************************************************)
EXTENDS Naturals, FiniteSets

CONSTANTS
  Agents,       \* the agents, each with one inbox and one channel name
  Requests,     \* the messages given to request_response, one call each
  Callbacks,    \* what is subscribed: one per DirectChannel or receive_once
  Sender,       \* Sender[r]: the agent that sends r and waits for the reply
  Recipient,    \* Recipient[r]: the agent r is addressed to
  Owner,        \* Owner[c]: the agent whose messages c is subscribed to
  PollLimit,    \* receive's max_messages of the poller (20)
  ReplyLimit,   \* ... and of request_response (5)
  None,         \* no message
  MaxEvents     \* bound: requests, openings and faults of one behaviour

Paths == {"poll", "pubsub"}
Replies == Requests \X Callbacks \X Paths
Messages == Requests \cup Replies

ASSUME TransportAssumption ==
  /\ IsFiniteSet(Agents) /\ IsFiniteSet(Requests) /\ IsFiniteSet(Callbacks)
  /\ Sender \in [Requests -> Agents]
  /\ Recipient \in [Requests -> Agents]
  /\ Owner \in [Callbacks -> Agents]
  /\ PollLimit \in Nat \ {0} /\ ReplyLimit \in Nat \ {0}
  /\ Requests \cap Replies = {}
  /\ None \notin Messages
  /\ MaxEvents \in Nat

VARIABLES
  inbox,       \* inbox[a]: the members of a's sorted set
  dlq,         \* dlq[a]: the dead letters of a
  expired,     \* messages whose ttl is over
  publishing,  \* messages added to an inbox and not yet published
  subs,        \* subs[a]: _subscriptions
  chan,        \* chan[c]: how far the life of channel c is
  task,        \* task[p][a]: where the poller or the listener of a is
  held,        \* held[p][a]: what it received and has not handed over
  current,     \* current[p][a]: the message its callbacks are running on
  running,     \* running[p][a]: those callbacks
  given,       \* given[p][c][m]: how often c was called with m by path p
  req,         \* req[r]: where request_response(r) is
  got,         \* got[r]: what it has read from the inbox
  answer,      \* answer[r]: what it returned
  sent,        \* messages that were added to an inbox (history)
  disturbed,   \* <<a, why>>: a's inbox lapsed, or was read by a request, or a
               \* task of a failed or was cancelled (history)
  events       \* requests, openings and faults so far (bound)

netVars  == <<inbox, dlq, expired, publishing, sent>>
taskVars == <<subs, chan, task, held, current, running, given>>
reqVars  == <<req, got, answer>>
vars == <<netVars, taskVars, reqVars, disturbed, events>>

ChanStates == {"new", "open", "once", "stop_poller", "drop_subs", "closed", "raised"}
TaskStates == {"none", "dead", "subscribe", "idle", "remove", "hand_over"}
ReqStates  == {"new", "sending", "wait", "remove", "answered",
               "timed_out", "refused", "failed"}

Dest(m) == IF m \in Requests THEN Recipient[m] ELSE Sender[m[1]]
(* Faulty variant: the first message of a round is taken for the reply. *)
AnswersAnything(m, r) == m \in Messages

Answers(m, r) == m \in Replies /\ m[1] = r

Goto(p, a, at) == task' = [task EXCEPT ![p][a] = at]
Disturb(a, why) == disturbed' = disturbed \cup {<<a, why>>}

-----------------------------------------------------------------------------
(* Sending: zadd, then publish.  A request that has expired is refused;    *)
(* an unknown recipient only gives a warning.                              *)
Count == events < MaxEvents /\ events' = events + 1

Add(m) ==
  /\ inbox' = [inbox EXCEPT ![Dest(m)] = @ \cup {m}]
  /\ publishing' = publishing \cup {m}
  /\ sent' = sent \cup {m}
  /\ UNCHANGED <<dlq, expired>>

SendRequest(r) ==
  /\ req[r] = "new"
  /\ r \notin expired
  /\ Add(r)
  /\ req' = [req EXCEPT ![r] = "sending"]
  /\ Count
  /\ UNCHANGED <<taskVars, got, answer, disturbed>>

Refuse(r) ==
  /\ req[r] = "new"
  /\ r \in expired
  /\ req' = [req EXCEPT ![r] = "refused"]
  /\ UNCHANGED <<netVars, taskVars, got, answer, disturbed, events>>

SenderGoesTo(m, at) ==
  req' = IF m \in Requests THEN [req EXCEPT ![m] = at] ELSE req

(* Only a listener that is subscribed by now hears it. *)
Publish(m) ==
  LET a == Dest(m) IN
  /\ m \in publishing
  /\ publishing' = publishing \ {m}
  /\ held' = IF task["pubsub"][a] \in {"idle", "hand_over"}
               THEN [held EXCEPT !["pubsub"][a] = @ \cup {m}] ELSE held
  /\ SenderGoesTo(m, "wait")
  /\ UNCHANGED <<inbox, dlq, expired, sent, subs, chan, task, current, running, given,
                 got, answer, disturbed, events>>

PublishFails(m) ==
  /\ m \in publishing
  /\ publishing' = publishing \ {m}
  /\ SenderGoesTo(m, "failed")
  /\ Count
  /\ UNCHANGED <<inbox, dlq, expired, sent, taskVars, got, answer, disturbed>>

Expire(m) ==
  /\ m \notin expired
  /\ m \in Requests \cup sent
  /\ expired' = expired \cup {m}
  /\ Count
  /\ UNCHANGED <<inbox, dlq, publishing, sent, taskVars, reqVars, disturbed>>

-----------------------------------------------------------------------------
(* receive: zrangebyscore, then zrem, then the expired go to the dead      *)
(* letters (or, when Redis raises there, nowhere).                         *)
Batches(a, limit) ==
  {B \in (SUBSET inbox[a]) \ {{}} : /\ Cardinality(B) <= limit
                                   /\ Cardinality(B) < limit => B = inbox[a]}

TakeOut(a, B) ==
  /\ inbox' = [inbox EXCEPT ![a] = @ \ B]
  /\ UNCHANGED <<dlq, expired, publishing, sent>>

(* Faulty variant: zrem of those that go to the dead letters only. *)
TakeOutExpired(a, B) ==
  /\ inbox' = [inbox EXCEPT ![a] = @ \ (B \cap expired)]
  /\ \E failed \in SUBSET (B \cap expired) :
       dlq' = [dlq EXCEPT ![a] = @ \cup ((B \cap expired) \ failed)]
  /\ UNCHANGED <<expired, publishing, sent>>

(* Faulty variant: zremrangebyscore, which takes what was added meanwhile. *)
TakeOutAll(a, B) ==
  /\ inbox' = [inbox EXCEPT ![a] = {}]
  /\ \E failed \in SUBSET (B \cap expired) :
       dlq' = [dlq EXCEPT ![a] = @ \cup ((B \cap expired) \ failed)]
  /\ UNCHANGED <<expired, publishing, sent>>

TakeOutAndBury(a, B) ==
  /\ inbox' = [inbox EXCEPT ![a] = @ \ B]
  /\ \E failed \in SUBSET (B \cap expired) :
       dlq' = [dlq EXCEPT ![a] = @ \cup ((B \cap expired) \ failed)]
  /\ UNCHANGED <<expired, publishing, sent>>

(* The inbox's key lives for an hour; whoever reads the inbox does so more *)
(* than once a second.                                                     *)
LapseInbox(a) ==
  /\ inbox[a] # {}
  /\ task["poll"][a] \in {"none", "dead"}
  /\ \A r \in Requests : Sender[r] = a => req[r] \notin {"wait", "remove"}
  /\ inbox' = [inbox EXCEPT ![a] = {}]
  /\ Disturb(a, "lapse")
  /\ Count
  /\ UNCHANGED <<dlq, expired, publishing, sent, taskVars, reqVars>>

-----------------------------------------------------------------------------
(* request_response: after the send, read, look for the reply and drop the *)
(* rest, until the deadline, which is looked at between two rounds.        *)
RequestRead(r) ==
  /\ req[r] = "wait"
  /\ \E B \in Batches(Sender[r], ReplyLimit) : got' = [got EXCEPT ![r] = B]
  /\ req' = [req EXCEPT ![r] = "remove"]
  /\ UNCHANGED <<netVars, taskVars, answer, disturbed, events>>

(* Faulty variant: the deadline is looked at again before the reply is. *)
RequestRemoveLate(r) ==
  /\ req[r] = "remove"
  /\ TakeOutAndBury(Sender[r], got[r])
  /\ req' = [req EXCEPT ![r] = "timed_out"]
  /\ got' = [got EXCEPT ![r] = {}]
  /\ Disturb(Sender[r], "reader")
  /\ UNCHANGED <<taskVars, answer, events>>

RequestRemove(r) ==
  /\ req[r] = "remove"
  /\ TakeOutAndBury(Sender[r], got[r])
  /\ LET found == {m \in got[r] \ expired : Answers(m, r)} IN
     \/ /\ found = {}
        /\ req' = [req EXCEPT ![r] = "wait"]
        /\ UNCHANGED answer
     \/ \E m \in found :
          /\ req' = [req EXCEPT ![r] = "answered"]
          /\ answer' = [answer EXCEPT ![r] = m]
  /\ got' = [got EXCEPT ![r] = {}]
  /\ Disturb(Sender[r], "reader")
  /\ UNCHANGED <<taskVars, events>>

RequestTimeout(r) ==
  /\ req[r] = "wait"
  /\ req' = [req EXCEPT ![r] = "timed_out"]
  /\ UNCHANGED <<netVars, taskVars, got, answer, disturbed, events>>

(* Redis raises; zrem may have been carried out all the same. *)
RequestFails(r) ==
  /\ req[r] \in {"wait", "remove"}
  /\ \E B \in {{}, got[r]} : TakeOut(Sender[r], B)
  /\ req' = [req EXCEPT ![r] = "failed"]
  /\ got' = [got EXCEPT ![r] = {}]
  /\ Disturb(Sender[r], "reader")
  /\ Count
  /\ UNCHANGED <<taskVars, answer>>

-----------------------------------------------------------------------------
(* The tasks of an agent.  subscribe adds a callback and creates the       *)
(* listener if the agent has no entry for one (a dead task is an entry).   *)
Subscribe(c, polling) ==
  LET a == Owner[c]
      Create(t, first) == IF t = "none" THEN first ELSE t
  IN
  /\ subs' = [subs EXCEPT ![a] = @ \cup {c}]
  /\ task' = [p \in Paths |-> [task[p] EXCEPT ![a] =
                IF p = "pubsub" THEN Create(@, "subscribe")
                ELSE IF polling THEN Create(@, "idle") ELSE @]]

OpenChannel(c) ==
  /\ chan[c] = "new"
  /\ chan' = [chan EXCEPT ![c] = "open"]
  /\ Subscribe(c, TRUE)
  /\ Count
  /\ UNCHANGED <<netVars, held, current, running, given, reqVars, disturbed>>

(* receive_once subscribes a callback that nobody removes; it does not poll. *)
ReceiveOnce(c) ==
  /\ chan[c] = "new"
  /\ chan' = [chan EXCEPT ![c] = "once"]
  /\ Subscribe(c, FALSE)
  /\ Count
  /\ UNCHANGED <<netVars, held, current, running, given, reqVars, disturbed>>

(* Faulty variant: the callbacks run on in tasks of their own. *)
EndTaskAlone(p, a, at) ==
  /\ \E B \in {{}, IF p = "poll" /\ task[p][a] = "remove" THEN held[p][a] ELSE {}} :
       TakeOut(a, B)
  /\ Disturb(a, "task")
  /\ Goto(p, a, at)
  /\ held' = [held EXCEPT ![p][a] = {}]
  /\ current' = [current EXCEPT ![p][a] = None]
  /\ UNCHANGED running

(* A task that is cancelled, or dies, drops what it holds and takes the    *)
(* callbacks that run with it; a zrem on its way may be carried out or not. *)
EndTask(p, a, at) ==
  /\ \E B \in {{}, IF p = "poll" /\ task[p][a] = "remove" THEN held[p][a] ELSE {}} :
       TakeOut(a, B)
  /\ Disturb(a, "task")
  /\ Goto(p, a, at)
  /\ held' = [held EXCEPT ![p][a] = {}]
  /\ current' = [current EXCEPT ![p][a] = None]
  /\ running' = [running EXCEPT ![p][a] = {}]

(* Faulty variant: stop forgets the poller. *)
StopTaskListener(c, p, next) ==
  LET a == Owner[c] IN
  /\ IF p = "poll" THEN UNCHANGED <<netVars, disturbed, task, held, current, running>>
     ELSE EndTask(p, a, "none")
  /\ chan' = [chan EXCEPT ![c] = IF task[p][a] = "dead" THEN "raised" ELSE next]
  /\ UNCHANGED <<subs, given, reqVars, events>>

(* close: stop pops and cancels the listener, then the poller, waiting for *)
(* each, then pops the subscriptions.  Waiting for a task that has died    *)
(* raises what it died of, and the rest is left as it is.                  *)
StopTask(c, p, next) ==
  LET a == Owner[c] IN
  /\ EndTask(p, a, "none")
  /\ chan' = [chan EXCEPT ![c] = IF task[p][a] = "dead" THEN "raised" ELSE next]
  /\ UNCHANGED <<subs, given, reqVars, events>>

Close(c) == chan[c] \in {"open", "raised"} /\ StopTask(c, "pubsub", "stop_poller")
StopPoller(c) == chan[c] = "stop_poller" /\ StopTask(c, "poll", "drop_subs")

DropSubscriptions(c) ==
  /\ chan[c] = "drop_subs"
  /\ subs' = [subs EXCEPT ![Owner[c]] = {}]
  /\ chan' = [chan EXCEPT ![c] = "closed"]
  /\ UNCHANGED <<netVars, task, held, current, running, given, reqVars, disturbed, events>>

Listening(a) ==
  /\ task["pubsub"][a] = "subscribe"
  /\ Goto("pubsub", a, "idle")
  /\ UNCHANGED <<netVars, subs, chan, held, current, running, given, reqVars, disturbed, events>>

PollRead(a) ==
  /\ task["poll"][a] = "idle"
  /\ \E B \in Batches(a, PollLimit) : held' = [held EXCEPT !["poll"][a] = B]
  /\ Goto("poll", a, "remove")
  /\ UNCHANGED <<netVars, subs, chan, current, running, given, reqVars, disturbed, events>>

PollRemove(a) ==
  /\ task["poll"][a] = "remove"
  /\ TakeOutAndBury(a, held["poll"][a])
  /\ held' = [held EXCEPT !["poll"][a] = @ \ expired]
  /\ Goto("poll", a, "hand_over")
  /\ UNCHANGED <<subs, chan, current, running, given, reqVars, disturbed, events>>

(* An exception of Redis ends the task; its entry in the table stays. *)
TaskFails(p, a) ==
  /\ task[p][a] \in {"subscribe", "idle", "remove"}
  /\ EndTask(p, a, "dead")
  /\ Count
  /\ UNCHANGED <<subs, chan, given, reqVars>>

Given(p, a, m) ==
  [q \in Paths |-> [c \in Callbacks |-> [n \in Messages |->
    IF q = p /\ c \in subs[a] /\ n = m THEN given[q][c][n] + 1 ELSE given[q][c][n]]]]

(* _dispatch: the callbacks subscribed at this moment run together; without *)
(* any the message is gone.                                                *)
HandOver(p, a) ==
  /\ task[p][a] = (IF p = "poll" THEN "hand_over" ELSE "idle")
  /\ current[p][a] = None
  /\ \E m \in held[p][a] :
       /\ held' = [held EXCEPT ![p][a] = @ \ {m}]
       /\ IF subs[a] = {}
            THEN UNCHANGED <<task, current, running, given>>
            ELSE /\ Goto(p, a, "hand_over")
                 /\ current' = [current EXCEPT ![p][a] = m]
                 /\ running' = [running EXCEPT ![p][a] = subs[a]]
                 /\ given' = Given(p, a, m)
  /\ UNCHANGED <<netVars, subs, chan, reqVars, disturbed, events>>

(* A callback ends, with a reply to a request or without. *)
EndCallback(p, a, c) ==
  /\ c \in running[p][a]
  /\ running' = [running EXCEPT ![p][a] = @ \ {c}]
  /\ \/ current[p][a] \in Requests /\ Add(<<current[p][a], c, p>>)
     \/ UNCHANGED netVars
  /\ UNCHANGED <<subs, chan, task, held, current, given, reqVars, disturbed, events>>

(* gather returns when the callbacks are through with their replies. *)
Gathered(p, a) ==
  /\ current[p][a] # None
  /\ running[p][a] = {}
  /\ \A c \in Callbacks : <<current[p][a], c, p>> \notin publishing
  /\ current' = [current EXCEPT ![p][a] = None]
  /\ IF p = "pubsub" THEN Goto(p, a, "idle") ELSE UNCHANGED task
  /\ UNCHANGED <<netVars, subs, chan, held, running, given, reqVars, disturbed, events>>

(* asyncio.sleep(interval), and the next round. *)
PollAgain(a) ==
  /\ task["poll"][a] = "hand_over"
  /\ current["poll"][a] = None
  /\ held["poll"][a] = {}
  /\ Goto("poll", a, "idle")
  /\ UNCHANGED <<netVars, subs, chan, held, current, running, given, reqVars, disturbed, events>>

-----------------------------------------------------------------------------
Init ==
  /\ inbox = [a \in Agents |-> {}]
  /\ dlq = [a \in Agents |-> {}]
  /\ expired = {}
  /\ publishing = {}
  /\ subs = [a \in Agents |-> {}]
  /\ chan = [c \in Callbacks |-> "new"]
  /\ task = [p \in Paths |-> [a \in Agents |-> "none"]]
  /\ held = [p \in Paths |-> [a \in Agents |-> {}]]
  /\ current = [p \in Paths |-> [a \in Agents |-> None]]
  /\ running = [p \in Paths |-> [a \in Agents |-> {}]]
  /\ given = [p \in Paths |-> [c \in Callbacks |-> [m \in Messages |-> 0]]]
  /\ req = [r \in Requests |-> "new"]
  /\ got = [r \in Requests |-> {}]
  /\ answer = [r \in Requests |-> None]
  /\ sent = {}
  /\ disturbed = {}
  /\ events = 0

RequestStep(r) ==
  RequestRead(r) \/ RequestRemove(r) \/ RequestTimeout(r)

PollStep(a) ==
  PollRead(a) \/ PollRemove(a) \/ PollAgain(a)

TaskStep(p, a) ==
  HandOver(p, a) \/ Gathered(p, a) \/ \E c \in Callbacks : EndCallback(p, a, c)

Next ==
  \/ \E r \in Requests : SendRequest(r) \/ Refuse(r) \/ RequestStep(r) \/ RequestFails(r)
  \/ \E m \in Messages : Publish(m) \/ PublishFails(m) \/ Expire(m)
  \/ \E c \in Callbacks : OpenChannel(c) \/ ReceiveOnce(c) \/ Close(c)
                           \/ StopPoller(c) \/ DropSubscriptions(c)
  \/ \E a \in Agents : LapseInbox(a) \/ Listening(a) \/ PollStep(a)
  \/ \E p \in Paths, a \in Agents : TaskFails(p, a) \/ TaskStep(p, a)

Spec == Init /\ [][Next]_vars

-----------------------------------------------------------------------------
TypeOK ==
  /\ inbox \in [Agents -> SUBSET Messages]
  /\ dlq \in [Agents -> SUBSET Messages]
  /\ expired \subseteq Messages /\ publishing \subseteq Messages /\ sent \subseteq Messages
  /\ subs \in [Agents -> SUBSET Callbacks]
  /\ chan \in [Callbacks -> ChanStates]
  /\ task \in [Paths -> [Agents -> TaskStates]]
  /\ held \in [Paths -> [Agents -> SUBSET Messages]]
  /\ current \in [Paths -> [Agents -> Messages \cup {None}]]
  /\ running \in [Paths -> [Agents -> SUBSET Callbacks]]
  /\ \A p \in Paths, a \in Agents : current[p][a] = None => running[p][a] = {}
  /\ given \in [Paths -> [Callbacks -> [Messages -> Nat]]]
  /\ req \in [Requests -> ReqStates]
  /\ got \in [Requests -> SUBSET Messages]
  /\ answer \in [Requests -> Messages \cup {None}]
  /\ disturbed \subseteq Agents \X {"lapse", "reader", "task"}
  /\ events \in 0 .. MaxEvents

(* direct.py:22-25, transport.py:65-81, 119-139: every message is both in   *)
(* the inbox and on the channel, so a callback may see it twice, but never  *)
(* more often: whatever channels are opened and closed, tasks cancelled    *)
(* between their two commands and callbacks interrupted, no path gives a   *)
(* callback the same message again.                                        *)
OncePerPath ==
  \A p \in Paths, c \in Callbacks, m \in Messages : given[p][c][m] <= 1

(* transport.py:108-117: stop takes three steps with anything in between,   *)
(* and other channels of the agent may be opened or closed meanwhile.  When *)
(* every close of an agent's channels has returned, nothing is left that   *)
(* could call anybody.                                                     *)
ClosedIsSilent ==
  \A a \in Agents :
    (\A c \in Callbacks : Owner[c] = a => chan[c] \in {"new", "closed"}) =>
      /\ subs[a] = {}
      /\ \A p \in Paths : task[p][a] = "none" /\ current[p][a] = None

(* transport.py:44-81, 119-124: as long as only the poller reads an inbox,  *)
(* and it is not stopped and Redis does not fail, an unexpired message to  *)
(* the agent waits in the inbox or in the poller's hands until a callback  *)
(* was called with it.                                                     *)
NothingLost ==
  \A m \in sent \ expired :
    LET a == Dest(m) IN
    (\A why \in {"lapse", "reader", "task"} : <<a, why>> \notin disturbed) =>
      \/ m \in inbox[a] \cup held["poll"][a]
      \/ \E c \in Callbacks : given["poll"][c][m] > 0

(* broker.py:79-83: what request_response returns was sent for this very    *)
(* request, by a callback of the agent it was addressed to, after that had *)
(* been called with it.                                                    *)
AnswerWasEarned ==
  \A r \in Requests : answer[r] # None =>
    \E c \in Callbacks, p \in Paths :
      /\ answer[r] = <<r, c, p>>
      /\ Owner[c] = Recipient[r]
      /\ given[p][c][r] > 0

Alone(r) ==
  /\ \A q \in Requests \ {r} : Sender[q] = Sender[r] => req[q] \in {"new", "refused"}
  /\ \A c \in Callbacks : Owner[c] = Sender[r] => chan[c] = "new"

(* broker.py:79-87: request_response drops every message it reads that is  *)
(* not the reply.  If no other request and no channel reads the inbox, a   *)
(* request that timed out has not dropped its own: an unexpired reply is   *)
(* still in the inbox.                                                     *)
TimeoutIsHonest ==
  \A r \in Requests :
    /\ req[r] = "timed_out"
    /\ Alone(r)
    /\ <<Sender[r], "lapse">> \notin disturbed
    => \A m \in sent \ expired : Answers(m, r) => m \in inbox[Sender[r]]
=============================================================================
