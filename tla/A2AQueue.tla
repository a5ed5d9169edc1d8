------------------------------ MODULE A2AQueue ------------------------------
(***************************************************************************)
(* backend/a2a/channels/queue.py: PersistentMessageQueue, a Redis sorted   *)
(* set of serialized messages that consumers poll.  A consumer reads some  *)
(* members and removes them in a second command; records each of them      *)
(* under a "processing" key; and runs the callback on all of them at once, *)
(* acknowledging those that return and putting back those that raise,      *)
(* until max_retries is reached.                                           *)
(*                                                                         *)
(* A member is a message with its retry_count, the one field that changes: *)
(* adding a member that is already there changes only its score.  Scores   *)
(* order the members by time of arrival and are not modelled: a consumer   *)
(* reads any members, as many as there are up to its concurrency (a member *)
(* put back 5 seconds ahead is due at once, dequeue reads 10 ahead).       *)
(* Time is not modelled: a message or a key whose time to live is over is  *)
(* a nondeterministic choice.                                              *)
(***************************************************************************)
EXTENDS Naturals, FiniteSets

CONSTANTS
  Messages,     \* the messages that may be enqueued
  Workers,      \* the consumers, one per call of start_consumer
  MaxRetries,   \* A2AMessage.max_retries
  Concurrency   \* members a consumer takes at a time

ASSUME QueueAssumption ==
  /\ IsFiniteSet(Messages)
  /\ MaxRetries \in Nat
  /\ Concurrency \in Nat \ {0}

VARIABLES
  sent,        \* sent[m]: "no", "adding" (zadd done, expire not yet), "yes"
  queue,       \* the members of the sorted set
  has_ttl,     \* does the sorted set's key expire?
  processing,  \* the messages that have a processing key
  pc,          \* pc[w]: where consumer w is
  batch,       \* batch[w]: the members w has read and not yet opened
  tasks,       \* tasks[w]: the members w has taken, and where each _process is
  attempts,    \* attempts[m]: the callbacks on m that came to an end (history)
  handled,     \* messages a callback returned on            (history)
  gave_up,     \* messages nack did not put back             (history)
  expired,     \* messages whose time was over               (history)
  dropped      \* messages in the hands of a consumer that failed  (history)

vars == <<sent, queue, has_ttl, processing, pc, batch, tasks, attempts,
          handled, gave_up, expired, dropped>>
producerVars == <<sent, has_ttl>>
outcomeVars == <<attempts, handled, gave_up, expired, dropped>>

Copies == [msg : Messages, retries : 0 .. MaxRetries]
Stages == {"callback", "ack", "nack", "requeue"}
Tasks  == [copy : Copies, at : Stages]
Points == {"off", "read", "remove", "open", "gather", "stopped"}

(* Bound: attempts are counted up to this number. *)
AttemptsCap == MaxRetries + 2

Fresh(m) == [msg |-> m, retries |-> 0]
MessagesOf(S) == {c.msg : c \in S}

-----------------------------------------------------------------------------
(* The producer: zadd, then expire, which does nothing without a key. *)
Enqueue(m) ==
  /\ sent[m] = "no"
  /\ sent' = [sent EXCEPT ![m] = "adding"]
  /\ queue' = queue \cup {Fresh(m)}
  /\ UNCHANGED <<has_ttl, processing, pc, batch, tasks, outcomeVars>>

SetTtl(m) ==
  /\ sent[m] = "adding"
  /\ sent' = [sent EXCEPT ![m] = "yes"]
  /\ has_ttl' = (queue # {})
  /\ UNCHANGED <<queue, processing, pc, batch, tasks, outcomeVars>>

(* Redis: keys expire; a sorted set without members has no key. *)
ExpireQueue ==
  /\ has_ttl
  /\ queue' = {}
  /\ has_ttl' = FALSE
  /\ expired' = expired \cup MessagesOf(queue)
  /\ UNCHANGED <<sent, processing, pc, batch, tasks, attempts, handled, gave_up, dropped>>

ExpireProcessing(m) ==
  /\ m \in processing
  /\ processing' = processing \ {m}
  /\ UNCHANGED <<producerVars, queue, pc, batch, tasks, outcomeVars>>

-----------------------------------------------------------------------------
(* A consumer. *)
Goto(w, at) == pc' = [pc EXCEPT ![w] = at]

StartConsumer(w) ==
  /\ pc[w] = "off"
  /\ Goto(w, "read")
  /\ UNCHANGED <<producerVars, queue, processing, batch, tasks, outcomeVars>>

(* dequeue: zrangebyscore *)
Read(w) ==
  /\ pc[w] = "read"
  /\ \E S \in (SUBSET queue) \ {{}} :
       /\ Cardinality(S) <= Concurrency
       /\ Cardinality(S) < Concurrency => S = queue
       /\ batch' = [batch EXCEPT ![w] = S]
  /\ Goto(w, "remove")
  /\ UNCHANGED <<producerVars, queue, processing, tasks, outcomeVars>>

(* dequeue: zrem, whether or not another consumer removed them first *)
Remove(w) ==
  /\ pc[w] = "remove"
  /\ queue' = queue \ batch[w]
  /\ has_ttl' = (has_ttl /\ queue' # {})
  /\ Goto(w, "open")
  /\ UNCHANGED <<sent, processing, batch, tasks, outcomeVars>>

TakeOut(w, c) ==
  /\ pc[w] = "open"
  /\ c \in batch[w]
  /\ batch' = [batch EXCEPT ![w] = @ \ {c}]

Open(w, c) ==
  /\ TakeOut(w, c)
  /\ processing' = processing \cup {c.msg}
  /\ tasks' = [tasks EXCEPT ![w] = @ \cup {[copy |-> c, at |-> "callback"]}]
  /\ UNCHANGED <<producerVars, queue, pc, outcomeVars>>

Discard(w, c) ==
  /\ TakeOut(w, c)
  /\ expired' = expired \cup {c.msg}
  /\ UNCHANGED <<producerVars, queue, processing, pc, tasks, attempts, handled, gave_up, dropped>>

(* setex raises: dequeue goes on with the next member. *)
OpenFails(w, c) ==
  /\ TakeOut(w, c)
  /\ dropped' = dropped \cup {c.msg}
  /\ UNCHANGED <<producerVars, queue, processing, pc, tasks, attempts, handled, gave_up, expired>>

Gather(w) ==
  /\ pc[w] = "open"
  /\ batch[w] = {}
  /\ Goto(w, "gather")
  /\ UNCHANGED <<producerVars, queue, processing, batch, tasks, outcomeVars>>

(* gather is over, or there was nothing to gather. *)
Again(w) ==
  /\ pc[w] = "gather"
  /\ tasks[w] = {}
  /\ Goto(w, "read")
  /\ UNCHANGED <<producerVars, queue, processing, batch, tasks, outcomeVars>>

-----------------------------------------------------------------------------
(* _process of one member.  The tasks of a consumer that one of them ended *)
(* (NackFails) go on.  The semaphore has room for the whole batch.         *)
TaskAt(w, t, at) == pc[w] \in {"gather", "stopped"} /\ t \in tasks[w] /\ t.at = at
MoveTask(w, t, at) ==
  tasks' = [tasks EXCEPT ![w] = (@ \ {t}) \cup {[copy |-> t.copy, at |-> at]}]
EndTask(w, t) == tasks' = [tasks EXCEPT ![w] = @ \ {t}]

CountAttempt(m) ==
  attempts' = [attempts EXCEPT ![m] = IF @ < AttemptsCap THEN @ + 1 ELSE @]

CallbackReturns(w, t) ==
  /\ TaskAt(w, t, "callback")
  /\ MoveTask(w, t, "ack")
  /\ CountAttempt(t.copy.msg)
  /\ handled' = handled \cup {t.copy.msg}
  /\ UNCHANGED <<producerVars, queue, processing, pc, batch, gave_up, expired, dropped>>

CallbackRaises(w, t) ==
  /\ TaskAt(w, t, "callback")
  /\ MoveTask(w, t, "nack")
  /\ CountAttempt(t.copy.msg)
  /\ UNCHANGED <<producerVars, queue, processing, pc, batch, handled, gave_up, expired, dropped>>

Ack(w, t) ==
  /\ TaskAt(w, t, "ack")
  /\ EndTask(w, t)
  /\ processing' = processing \ {t.copy.msg}
  /\ UNCHANGED <<producerVars, queue, pc, batch, outcomeVars>>

(* ack raises inside the try: the message is put back although a callback  *)
(* returned on it.                                                         *)
AckFails(w, t) ==
  /\ TaskAt(w, t, "ack")
  /\ MoveTask(w, t, "nack")
  /\ UNCHANGED <<producerVars, queue, processing, pc, batch, outcomeVars>>

(* Faulty variants: one retry too many, one too few. *)
can_retry_inclusive(c) == c.retries <= MaxRetries
can_retry_short(c) == c.retries + 1 < MaxRetries
can_retry(c) == c.retries < MaxRetries

Nack(w, t) ==
  /\ TaskAt(w, t, "nack")
  /\ processing' = processing \ {t.copy.msg}
  /\ IF can_retry(t.copy)
     THEN MoveTask(w, t, "requeue") /\ UNCHANGED gave_up
     ELSE EndTask(w, t) /\ gave_up' = gave_up \cup {t.copy.msg}
  /\ UNCHANGED <<producerVars, queue, pc, batch, attempts, handled, expired, dropped>>

(* Faulty variants: the retry is not counted; zadd with the flag XX.       *)
RetriedForever(c) == c
Retried(c) == [msg |-> c.msg, retries |-> c.retries + 1]
PutBackIfThere(c) == {Retried(c)} \cap queue
PutBack(c) == {Retried(c)}

Requeue(w, t) ==
  /\ TaskAt(w, t, "requeue")
  /\ EndTask(w, t)
  /\ queue' = queue \cup PutBack(t.copy)
  /\ UNCHANGED <<producerVars, processing, pc, batch, outcomeVars>>

(* nack raises: the exception ends the consumer, not the other tasks. *)
NackFails(w, t) ==
  /\ TaskAt(w, t, "nack") \/ TaskAt(w, t, "requeue")
  /\ EndTask(w, t)
  /\ Goto(w, "stopped")
  /\ dropped' = dropped \cup {t.copy.msg}
  /\ UNCHANGED <<producerVars, queue, processing, batch, attempts, handled, gave_up, expired>>

(* What w alone knows of: members it removed, and tasks short of the ack.  *)
InHand(w) ==
  MessagesOf((IF pc[w] = "open" THEN batch[w] ELSE {}) \cup {t.copy : t \in tasks[w]})

(* stop_consumers, the end of the process (which takes the tasks of a      *)
(* consumer that had ended with it), or an error of Redis in dequeue       *)
Stop(w) ==
  /\ pc[w] # "off"
  /\ pc[w] = "stopped" => tasks[w] # {}
  /\ Goto(w, "stopped")
  /\ batch' = [batch EXCEPT ![w] = {}]
  /\ tasks' = [tasks EXCEPT ![w] = {}]
  /\ dropped' = dropped \cup InHand(w)
  /\ UNCHANGED <<producerVars, queue, processing, attempts, handled, gave_up, expired>>

-----------------------------------------------------------------------------
Init ==
  /\ sent = [m \in Messages |-> "no"]
  /\ queue = {}
  /\ has_ttl = FALSE
  /\ processing = {}
  /\ pc = [w \in Workers |-> "off"]
  /\ batch = [w \in Workers |-> {}]
  /\ tasks = [w \in Workers |-> {}]
  /\ attempts = [m \in Messages |-> 0]
  /\ handled = {}
  /\ gave_up = {}
  /\ expired = {}
  /\ dropped = {}

TakeStep(w, c) == Open(w, c) \/ Discard(w, c) \/ OpenFails(w, c)
TaskStep(w, t) ==
  \/ CallbackReturns(w, t) \/ CallbackRaises(w, t)
  \/ Ack(w, t) \/ AckFails(w, t)
  \/ Nack(w, t) \/ Requeue(w, t) \/ NackFails(w, t)

WorkerStep(w) ==
  \/ Read(w) \/ Remove(w) \/ Gather(w) \/ Again(w)
  \/ \E c \in batch[w] : TakeStep(w, c)
  \/ \E t \in tasks[w] : TaskStep(w, t)

Next ==
  \/ \E m \in Messages : Enqueue(m) \/ SetTtl(m) \/ ExpireProcessing(m)
  \/ ExpireQueue
  \/ \E w \in Workers : StartConsumer(w) \/ WorkerStep(w) \/ Stop(w)

(* The event loop keeps resuming a consumer and its tasks, callbacks come  *)
(* to an end, and the producer gets its answers.  Nobody has to enqueue a  *)
(* message or start a consumer, and nothing has to fail or expire.         *)
Fairness ==
  /\ \A m \in Messages : WF_vars(SetTtl(m))
  /\ \A w \in Workers : WF_vars(WorkerStep(w))

Spec == Init /\ [][Next]_vars
FairSpec == Spec /\ Fairness

-----------------------------------------------------------------------------
(***************************************************************************)
(* The variables have their types; no member's retry_count exceeds         *)
(* max_retries.                                                            *)
(***************************************************************************)
TypeOK ==
  /\ sent \in [Messages -> {"no", "adding", "yes"}]
  /\ queue \subseteq Copies
  /\ has_ttl \in BOOLEAN
  /\ processing \subseteq Messages
  /\ pc \in [Workers -> Points]
  /\ batch \in [Workers -> SUBSET Copies]
  /\ tasks \in [Workers -> SUBSET Tasks]
  /\ attempts \in [Messages -> 0 .. AttemptsCap]
  /\ handled \subseteq Messages
  /\ gave_up \subseteq Messages
  /\ expired \subseteq Messages
  /\ dropped \subseteq Messages

Queued(m)  == m \in MessagesOf(queue)
Held(m)    == \E w \in Workers : m \in InHand(w)
Settled(m) == m \in handled \cup gave_up \cup expired

(***************************************************************************)
(* Without a failure no message is lost, however many consumers read the   *)
(* same members, remove them behind each other's back and put copies back: *)
(* a message that was enqueued is in the queue or in the hands of a        *)
(* consumer until a callback returned on it, its retries or its time were  *)
(* used up, or a consumer failed with it in hand.                          *)
(***************************************************************************)
NothingLost ==
  \A m \in Messages :
    sent[m] # "no" => Queued(m) \/ Held(m) \/ Settled(m) \/ m \in dropped

(***************************************************************************)
(* A message is given up only after the callback was tried max_retries + 1 *)
(* times, whichever consumers tried it.                                    *)
(***************************************************************************)
NotGivenUpEarly == \A m \in gave_up : attempts[m] >= MaxRetries + 1

(***************************************************************************)
(* With a single consumer the callback is tried at most max_retries + 1    *)
(* times on a message.                                                     *)
(***************************************************************************)
OneConsumer ==
  \A v, w \in Workers : pc[v] # "off" /\ pc[w] # "off" => v = w
AttemptBound ==
  OneConsumer => \A m \in Messages : attempts[m] <= MaxRetries + 1

(***************************************************************************)
(* An enqueued message comes to an end, unless a consumer failed with it   *)
(* in hand or no consumer is left.                                         *)
(***************************************************************************)
Settles ==
  \A m \in Messages :
    sent[m] = "yes" ~>
      \/ Settled(m) \/ m \in dropped
      \/ \A w \in Workers : pc[w] \in {"off", "stopped"}

(***************************************************************************)
(* The queue is persistent: a message that is not settled is in Redis, in  *)
(* the sorted set or under its processing key, or in the hands of a        *)
(* consumer that is alive.                                                 *)
(***************************************************************************)
Persistent ==
  \A m \in Messages :
    sent[m] # "no" => Queued(m) \/ m \in processing \/ Held(m) \/ Settled(m)
=============================================================================
