--------------------------- MODULE A2AQueueProofs ---------------------------
(***************************************************************************)
(* Proofs about A2AQueue, for all messages, any number of consumers, every *)
(* max_retries and every concurrency.                                      *)
(*                                                                         *)
(* IInv adds to the types what a task's stage says of its message          *)
(* (StageInv), that the retry_count of a member never runs ahead of the    *)
(* callbacks on its message (TriedInv), and that with one consumer there   *)
(* is at most one member per message, whose retry_count is the number of   *)
(* callbacks (SingleInv).                                                  *)
(***************************************************************************)
EXTENDS A2AQueue, TLAPS

StageInv ==
  \A w \in Workers : \A t \in tasks[w] :
    /\ t.at = "requeue" => can_retry(t.copy)
    /\ t.at = "ack" => t.copy.msg \in handled

(* Where a message can be, copy by copy. *)
Taken(m) == \E w \in Workers : \E c \in batch[w] : pc[w] = "open" /\ c.msg = m
InTask(m) == \E w \in Workers : \E t \in tasks[w] : t.copy.msg = m
Listed(m) == \E c \in queue : c.msg = m
Somewhere(m) == Listed(m) \/ Taken(m) \/ InTask(m) \/ Settled(m) \/ m \in dropped
LossInv == \A m \in Messages : sent[m] # "no" => Somewhere(m)

TriedInv ==
  /\ \A c \in queue : attempts[c.msg] >= c.retries
  /\ \A w \in Workers : \A c \in batch[w] : attempts[c.msg] >= c.retries
  /\ \A w \in Workers : \A t \in tasks[w] :
       /\ attempts[t.copy.msg] >= t.copy.retries
       /\ t.at # "callback" => attempts[t.copy.msg] >= t.copy.retries + 1
  /\ NotGivenUpEarly

IInv == TypeOK /\ StageInv /\ LossInv /\ TriedInv

-----------------------------------------------------------------------------
(* Comparing and counting attempts. *)
LEMMA CountUp ==
  ASSUME TypeOK, NEW m \in Messages, CountAttempt(m)
  PROVE  /\ attempts' \in [Messages -> 0 .. AttemptsCap]
         /\ \A n \in Messages : attempts'[n] >= attempts[n]
         /\ \A k \in 0 .. MaxRetries : attempts[m] >= k => attempts'[m] >= k + 1
         /\ \A n \in Messages \ {m} : attempts'[n] = attempts[n]
         /\ attempts'[m] <= attempts[m] + 1
<1> USE QueueAssumption DEF TypeOK, CountAttempt, AttemptsCap
<1>1. attempts[m] \in 0 .. AttemptsCap
  OBVIOUS
<1>2. attempts'[m] = IF attempts[m] < AttemptsCap THEN attempts[m] + 1 ELSE attempts[m]
  OBVIOUS
<1>3. \A n \in Messages \ {m} : attempts'[n] = attempts[n]
  OBVIOUS
<1> QED
  BY <1>1, <1>2, <1>3

(* The initial state satisfies the inductive invariant. *)
LEMMA InitIInv == Init => IInv
<1> SUFFICES ASSUME Init PROVE IInv
  OBVIOUS
<1>1. TypeOK
  <2>1. 0 \in 0 .. AttemptsCap
    BY QueueAssumption DEF AttemptsCap
  <2> QED
    BY <2>1 DEF Init, TypeOK, Points
<1>2. StageInv /\ LossInv
  BY DEF Init, StageInv, LossInv
<1>3. TriedInv
  BY DEF Init, TriedInv, NotGivenUpEarly
<1> QED
  BY <1>1, <1>2, <1>3 DEF IInv

-----------------------------------------------------------------------------
(* Every step keeps the types. *)
LEMMA TypeStep == IInv /\ [Next]_vars => TypeOK'
<1> SUFFICES ASSUME IInv, [Next]_vars PROVE TypeOK'
  OBVIOUS
<1> USE QueueAssumption DEF IInv, TypeOK, Points, producerVars, outcomeVars
<1>1. ASSUME NEW m \in Messages, Enqueue(m) PROVE TypeOK'
  BY <1>1 DEF Enqueue, Fresh, Copies
<1>2. ASSUME NEW m \in Messages, SetTtl(m) PROVE TypeOK'
  BY <1>2 DEF SetTtl
<1>3. ASSUME NEW m \in Messages, ExpireProcessing(m) PROVE TypeOK'
  BY <1>3 DEF ExpireProcessing
<1>4. CASE ExpireQueue
  BY <1>4 DEF ExpireQueue, MessagesOf, Copies
<1>5. ASSUME NEW w \in Workers, StartConsumer(w) \/ Gather(w) \/ Again(w) PROVE TypeOK'
  BY <1>5 DEF StartConsumer, Gather, Again, Goto
<1>6. ASSUME NEW w \in Workers, Read(w) PROVE TypeOK'
  BY <1>6 DEF Read, Goto
<1>7. ASSUME NEW w \in Workers, Remove(w) PROVE TypeOK'
  BY <1>7 DEF Remove, Goto
<1>8. ASSUME NEW w \in Workers, NEW c \in batch[w], TakeStep(w, c) PROVE TypeOK'
  <2>1. c \in Copies /\ c.msg \in Messages
    BY DEF Copies
  <2>2. [copy |-> c, at |-> "callback"] \in Tasks
    BY <2>1 DEF Tasks, Stages
  <2> QED
    BY <1>8, <2>1, <2>2 DEF TakeStep, Open, Discard, OpenFails, TakeOut
<1>9. ASSUME NEW w \in Workers, NEW t \in tasks[w], TaskStep(w, t) PROVE TypeOK'
  <2>1. t \in Tasks /\ t.copy \in Copies /\ t.copy.msg \in Messages
    BY DEF Tasks, Copies
  <2>2. \A at \in Stages : [copy |-> t.copy, at |-> at] \in Tasks
    BY <2>1 DEF Tasks
  <2>3. CASE CallbackReturns(w, t)
    BY <2>1, <2>2, <2>3, CountUp DEF CallbackReturns, MoveTask, Stages
  <2>4. CASE CallbackRaises(w, t)
    BY <2>1, <2>2, <2>4, CountUp DEF CallbackRaises, MoveTask, Stages
  <2>5. CASE Ack(w, t) \/ AckFails(w, t)
    BY <2>1, <2>2, <2>5 DEF Ack, AckFails, EndTask, MoveTask, Stages
  <2>6. CASE Nack(w, t)
    BY <2>1, <2>2, <2>6 DEF Nack, EndTask, MoveTask, Stages
  <2>7. CASE Requeue(w, t)
    <3>1. can_retry(t.copy)
      BY <2>7 DEF Requeue, TaskAt, StageInv
    <3>2. Retried(t.copy) \in Copies
      BY <2>1, <3>1 DEF can_retry, Retried, Copies
    <3> QED
      BY <2>7, <3>2 DEF Requeue, EndTask, PutBack
  <2>8. CASE NackFails(w, t)
    BY <2>1, <2>8 DEF NackFails, EndTask, Goto
  <2> QED
    BY <1>9, <2>3, <2>4, <2>5, <2>6, <2>7, <2>8 DEF TaskStep
<1>10. ASSUME NEW w \in Workers, Stop(w) PROVE TypeOK'
  <2>1. InHand(w) \subseteq Messages
    BY DEF InHand, MessagesOf, Copies, Tasks
  <2> QED
    BY <1>10, <2>1 DEF Stop, Goto
<1>11. CASE UNCHANGED vars
  BY <1>11 DEF vars
<1> QED
  BY <1>1, <1>2, <1>3, <1>4, <1>5, <1>6, <1>7, <1>8, <1>9, <1>10, <1>11
  DEF Next, WorkerStep

-----------------------------------------------------------------------------
(* A task that is to be put back may be retried; one that is to be         *)
(* acknowledged has been handled.                                          *)
LEMMA StageStep == IInv /\ [Next]_vars => StageInv'
<1> SUFFICES ASSUME IInv, [Next]_vars PROVE StageInv'
  OBVIOUS
<1> USE DEF IInv, TypeOK, StageInv, producerVars, outcomeVars, can_retry
<1>1. ASSUME NEW m \in Messages, Enqueue(m) \/ SetTtl(m) \/ ExpireProcessing(m)
      PROVE  StageInv'
  BY <1>1 DEF Enqueue, SetTtl, ExpireProcessing
<1>2. CASE ExpireQueue
  BY <1>2 DEF ExpireQueue
<1>3. ASSUME NEW w \in Workers,
             StartConsumer(w) \/ Read(w) \/ Remove(w) \/ Gather(w) \/ Again(w)
      PROVE  StageInv'
  BY <1>3 DEF StartConsumer, Read, Remove, Gather, Again
<1>4. ASSUME NEW w \in Workers, NEW c \in batch[w], TakeStep(w, c) PROVE StageInv'
  BY <1>4 DEF TakeStep, Open, Discard, OpenFails
<1>5. ASSUME NEW w \in Workers, NEW t \in tasks[w], TaskStep(w, t) PROVE StageInv'
  <2>1. CASE CallbackReturns(w, t) \/ CallbackRaises(w, t)
    BY <2>1 DEF CallbackReturns, CallbackRaises, MoveTask
  <2>2. CASE Ack(w, t) \/ AckFails(w, t)
    BY <2>2 DEF Ack, AckFails, EndTask, MoveTask
  <2>3. CASE Nack(w, t)
    BY <2>3 DEF Nack, EndTask, MoveTask
  <2>4. CASE Requeue(w, t) \/ NackFails(w, t)
    BY <2>4 DEF Requeue, NackFails, EndTask
  <2> QED
    BY <1>5, <2>1, <2>2, <2>3, <2>4 DEF TaskStep
<1>6. ASSUME NEW w \in Workers, Stop(w) PROVE StageInv'
  BY <1>6 DEF Stop
<1>7. CASE UNCHANGED vars
  BY <1>7 DEF vars
<1> QED
  BY <1>1, <1>2, <1>3, <1>4, <1>5, <1>6, <1>7 DEF Next, WorkerStep

-----------------------------------------------------------------------------
(* What a consumer alone knows of, copy by copy. *)
LEMMA InHandMember ==
  ASSUME NEW w \in Workers, NEW m
  PROVE  m \in InHand(w) <=>
           \/ \E c \in batch[w] : pc[w] = "open" /\ c.msg = m
           \/ \E t \in tasks[w] : t.copy.msg = m
BY DEF InHand, MessagesOf

(* NothingLost says the same as LossInv. *)
LEMMA LossMeaning == NothingLost <=> LossInv
<1>1. \A m : Held(m) <=> Taken(m) \/ InTask(m)
  BY InHandMember DEF Held, Taken, InTask
<1>2. \A m : Queued(m) <=> Listed(m)
  BY DEF Queued, MessagesOf, Listed
<1> QED
  BY <1>1, <1>2 DEF NothingLost, LossInv, Somewhere

(* What a step of one task leaves alone. *)
LEMMA TaskFrame ==
  ASSUME TypeOK, NEW w \in Workers, NEW t \in tasks[w], TaskStep(w, t)
  PROVE  /\ \A v \in Workers : \A u \in tasks[v] : v # w \/ u # t => u \in tasks'[v]
         /\ batch' = batch
         /\ sent' = sent
         /\ queue \subseteq queue'
         /\ \A v \in Workers : pc[v] = "open" => pc'[v] = "open"
         /\ handled \subseteq handled' /\ gave_up \subseteq gave_up'
         /\ expired' = expired /\ dropped \subseteq dropped'
<1> USE DEF TypeOK, producerVars, outcomeVars
<1>1. CASE CallbackReturns(w, t)
  BY <1>1 DEF CallbackReturns, MoveTask
<1>2. CASE CallbackRaises(w, t)
  BY <1>2 DEF CallbackRaises, MoveTask
<1>3. CASE Ack(w, t) \/ AckFails(w, t)
  BY <1>3 DEF Ack, AckFails, EndTask, MoveTask
<1>4. CASE Nack(w, t)
  BY <1>4 DEF Nack, EndTask, MoveTask
<1>5. CASE Requeue(w, t)
  BY <1>5 DEF Requeue, EndTask
<1>6. CASE NackFails(w, t)
  BY <1>6 DEF NackFails, EndTask, TaskAt, Goto
<1> QED
  BY <1>1, <1>2, <1>3, <1>4, <1>5, <1>6 DEF TaskStep

(* A task that moves on keeps its member. *)
LEMMA TaskMoved ==
  ASSUME TypeOK, NEW w \in Workers, NEW t \in tasks[w], NEW at, MoveTask(w, t, at)
  PROVE  \E u \in tasks'[w] : u.copy = t.copy
<1> DEFINE u == [copy |-> t.copy, at |-> at]
<1>1. u \in tasks'[w]
  BY DEF TypeOK, MoveTask
<1>2. u.copy = t.copy
  OBVIOUS
<1> QED
  BY <1>1, <1>2

(* No step loses sight of a message. *)
LEMMA LossStep == IInv /\ [Next]_vars => LossInv'
<1> SUFFICES ASSUME IInv, [Next]_vars PROVE LossInv'
  OBVIOUS
<1> USE DEF IInv, TypeOK, Points, LossInv, Somewhere, Settled, producerVars, outcomeVars
<1>1. ASSUME NEW m \in Messages, Enqueue(m) PROVE LossInv'
  <2> SUFFICES ASSUME NEW n \in Messages, sent[n] # "no" \/ n = m PROVE Somewhere(n)'
    BY <1>1 DEF Enqueue
  <2>1. Listed(m)'
    <3>1. Fresh(m) \in queue' /\ Fresh(m).msg = m
      BY <1>1 DEF Enqueue, Fresh
    <3> QED
      BY <3>1 DEF Listed
  <2>2. Listed(n) => Listed(n)'
    BY <1>1 DEF Enqueue, Listed
  <2>3. (Taken(n) => Taken(n)') /\ (InTask(n) => InTask(n)')
    BY <1>1 DEF Enqueue, Taken, InTask
  <2> QED
    BY <1>1, <2>1, <2>2, <2>3 DEF Enqueue
<1>2. ASSUME NEW m \in Messages, SetTtl(m) \/ ExpireProcessing(m) PROVE LossInv'
  BY <1>2 DEF SetTtl, ExpireProcessing, Listed, Taken, InTask
<1>3. CASE ExpireQueue
  BY <1>3 DEF ExpireQueue, Listed, Taken, InTask, MessagesOf
<1>4. ASSUME NEW w \in Workers, StartConsumer(w) \/ Again(w) PROVE LossInv'
  BY <1>4 DEF StartConsumer, Again, Goto, Listed, Taken, InTask
<1>5. ASSUME NEW w \in Workers, Read(w) PROVE LossInv'
  BY <1>5 DEF Read, Goto, Listed, Taken, InTask
<1>6. ASSUME NEW w \in Workers, Remove(w) PROVE LossInv'
  <2> SUFFICES ASSUME NEW m \in Messages, sent[m] # "no" PROVE Somewhere(m)'
    BY <1>6 DEF Remove
  <2>1. CASE \E c \in batch[w] : c.msg = m
    BY <1>6, <2>1 DEF Remove, Goto, Taken
  <2>2. CASE ~\E c \in batch[w] : c.msg = m
    <3>1. Listed(m) => Listed(m)'
      BY <1>6, <2>2 DEF Remove, Listed
    <3>2. Taken(m) => Taken(m)'
      BY <1>6 DEF Remove, Goto, Taken
    <3> QED
      BY <1>6, <3>1, <3>2 DEF Remove, InTask
  <2> QED
    BY <2>1, <2>2
<1>7. ASSUME NEW w \in Workers, Gather(w) PROVE LossInv'
  BY <1>7 DEF Gather, Goto, Listed, Taken, InTask
<1>8. ASSUME NEW w \in Workers, NEW c \in batch[w], TakeStep(w, c) PROVE LossInv'
  <2> SUFFICES ASSUME NEW m \in Messages, sent[m] # "no" PROVE Somewhere(m)'
    BY <1>8 DEF TakeStep, Open, Discard, OpenFails
  <2>1. CASE m # c.msg
    BY <1>8, <2>1 DEF TakeStep, Open, Discard, OpenFails, TakeOut, Listed, Taken, InTask
  <2>2. CASE m = c.msg
    <3>1. CASE Open(w, c)
      <4> DEFINE t == [copy |-> c, at |-> "callback"]
      <4>1. t \in tasks'[w] /\ t.copy.msg = m
        BY <2>2, <3>1 DEF Open
      <4> QED
        BY <4>1 DEF InTask
    <3>2. CASE Discard(w, c) \/ OpenFails(w, c)
      BY <2>2, <3>2 DEF Discard, OpenFails
    <3> QED
      BY <1>8, <3>1, <3>2 DEF TakeStep
  <2> QED
    BY <2>1, <2>2
<1>9. ASSUME NEW w \in Workers, NEW t \in tasks[w], TaskStep(w, t) PROVE LossInv'
  <2> SUFFICES ASSUME NEW m \in Messages, sent[m] # "no" PROVE Somewhere(m)'
    BY <1>9 DEF TaskStep, CallbackReturns, CallbackRaises, Ack, AckFails, Nack, Requeue, NackFails
  <2>1. t.copy.msg \in handled \/ t.at # "ack"
    BY DEF StageInv
  <2>2. CASE m # t.copy.msg
    <3>1. Listed(m) \/ Taken(m) \/ InTask(m) => (Listed(m) \/ Taken(m) \/ InTask(m))'
      BY <1>9, <2>2, TaskFrame DEF Listed, Taken, InTask
    <3>2. Settled(m) \/ m \in dropped => (Settled(m) \/ m \in dropped)'
      BY <1>9, TaskFrame
    <3> QED
      BY <1>9, <3>1, <3>2, TaskFrame
  <2>3. CASE m = t.copy.msg
    <3>1. CASE CallbackReturns(w, t) \/ CallbackRaises(w, t) \/ AckFails(w, t)
      BY <2>3, <3>1, TaskMoved DEF CallbackReturns, CallbackRaises, AckFails, InTask
    <3>2. CASE Ack(w, t)
      BY <2>1, <2>3, <3>2 DEF Ack, TaskAt
    <3>3. CASE Nack(w, t)
      BY <2>3, <3>3, TaskMoved DEF Nack, InTask
    <3>4. CASE Requeue(w, t)
      <4>1. Retried(t.copy) \in queue' /\ Retried(t.copy).msg = m
        BY <2>3, <3>4 DEF Requeue, PutBack, Retried
      <4> QED
        BY <4>1 DEF Listed
    <3>5. CASE NackFails(w, t)
      BY <2>3, <3>5 DEF NackFails
    <3> QED
      BY <1>9, <3>1, <3>2, <3>3, <3>4, <3>5 DEF TaskStep
  <2> QED
    BY <2>2, <2>3
<1>10. ASSUME NEW w \in Workers, Stop(w) PROVE LossInv'
  <2> SUFFICES ASSUME NEW m \in Messages, sent[m] # "no" PROVE Somewhere(m)'
    BY <1>10 DEF Stop
  <2>1. CASE m \in InHand(w)
    BY <1>10, <2>1 DEF Stop
  <2>2. CASE m \notin InHand(w)
    BY <1>10, <2>2, InHandMember DEF Stop, Goto, Listed, Taken, InTask
  <2> QED
    BY <2>1, <2>2
<1>11. CASE UNCHANGED vars
  BY <1>11 DEF vars, Listed, Taken, InTask
<1> QED
  BY <1>1, <1>2, <1>3, <1>4, <1>5, <1>6, <1>7, <1>8, <1>9, <1>10, <1>11
  DEF Next, WorkerStep
-----------------------------------------------------------------------------
(* The retry_count of a member never runs ahead of the callbacks.          *)
LEMMA TriedStep == IInv /\ [Next]_vars => TriedInv'
<1> SUFFICES ASSUME IInv, [Next]_vars PROVE TriedInv'
  OBVIOUS
<1> USE QueueAssumption
    DEF IInv, TypeOK, TriedInv, NotGivenUpEarly, producerVars, outcomeVars
<1>1. ASSUME NEW m \in Messages, Enqueue(m) PROVE TriedInv'
  <2>1. Fresh(m).msg = m /\ Fresh(m).retries = 0 /\ attempts[m] >= 0
    BY DEF Fresh, AttemptsCap
  <2> QED
    BY <1>1, <2>1 DEF Enqueue
<1>2. ASSUME NEW m \in Messages, SetTtl(m) \/ ExpireProcessing(m) PROVE TriedInv'
  BY <1>2 DEF SetTtl, ExpireProcessing
<1>3. CASE ExpireQueue
  BY <1>3 DEF ExpireQueue
<1>4. ASSUME NEW w \in Workers,
             StartConsumer(w) \/ Read(w) \/ Remove(w) \/ Gather(w) \/ Again(w)
      PROVE  TriedInv'
  BY <1>4 DEF StartConsumer, Read, Remove, Gather, Again
<1>5. ASSUME NEW w \in Workers, NEW c \in batch[w], TakeStep(w, c) PROVE TriedInv'
  <2>1. CASE Open(w, c)
    <3>1. attempts[c.msg] >= c.retries
      OBVIOUS
    <3> QED
      BY <2>1, <3>1 DEF Open, TakeOut
  <2>2. CASE Discard(w, c) \/ OpenFails(w, c)
    BY <2>2 DEF Discard, OpenFails, TakeOut
  <2> QED
    BY <1>5, <2>1, <2>2 DEF TakeStep
<1>6. ASSUME NEW w \in Workers, NEW t \in tasks[w], TaskStep(w, t) PROVE TriedInv'
  <2>1. /\ t.copy.msg \in Messages
        /\ t.copy.retries \in 0 .. MaxRetries
        /\ attempts[t.copy.msg] >= t.copy.retries
        /\ t.at # "callback" => attempts[t.copy.msg] >= t.copy.retries + 1
    BY DEF Tasks, Copies
  <2>2. CASE CallbackReturns(w, t) \/ CallbackRaises(w, t)
    <3>1. CountAttempt(t.copy.msg)
      BY <2>2 DEF CallbackReturns, CallbackRaises
    <3>2. \A n \in Messages : attempts'[n] >= attempts[n]
      BY <2>1, <3>1, CountUp
    <3>3. attempts'[t.copy.msg] >= t.copy.retries + 1
      BY <2>1, <3>1, CountUp
    <3>4. \A v \in Workers : \A u \in tasks'[v] : u \in tasks[v] \/ u.copy = t.copy
      BY <2>2 DEF CallbackReturns, CallbackRaises, MoveTask
    <3>5. queue' = queue /\ batch' = batch /\ gave_up' = gave_up
      BY <2>2 DEF CallbackReturns, CallbackRaises
    <3>6. /\ attempts \in [Messages -> Nat] /\ attempts' \in [Messages -> Nat]
          /\ MaxRetries \in Nat
      BY <2>1, <3>1, CountUp DEF AttemptsCap
    <3>7. \A c \in Copies : attempts[c.msg] >= c.retries => attempts'[c.msg] >= c.retries
      BY <3>2, <3>6 DEF Copies
    <3>8. \A v \in Workers : \A u \in tasks'[v] :
            /\ attempts'[u.copy.msg] >= u.copy.retries
            /\ u.at # "callback" => attempts'[u.copy.msg] >= u.copy.retries + 1
      <4> SUFFICES ASSUME NEW v \in Workers, NEW u \in tasks'[v]
                   PROVE  /\ attempts'[u.copy.msg] >= u.copy.retries
                          /\ u.at # "callback" => attempts'[u.copy.msg] >= u.copy.retries + 1
        OBVIOUS
      <4>1. CASE u.copy = t.copy
        BY <2>1, <3>3, <3>6, <4>1
      <4>2. CASE u \in tasks[v]
        <5>1. u.copy.msg \in Messages /\ u.copy.retries \in Nat
          BY <4>2 DEF Tasks, Copies
        <5> QED
          BY <3>2, <3>6, <4>2, <5>1
      <4> QED
        BY <3>4, <4>1, <4>2
    <3>9. \A m \in gave_up : attempts'[m] >= MaxRetries + 1
      BY <3>2, <3>6
    <3>10. /\ \A c \in queue : attempts'[c.msg] >= c.retries
           /\ \A v \in Workers : \A c \in batch[v] : attempts'[c.msg] >= c.retries
      BY <3>7
    <3> QED
      BY <3>5, <3>8, <3>9, <3>10
  <2>3. CASE Ack(w, t)
    BY <2>3 DEF Ack, EndTask
  <2>4. CASE AckFails(w, t)
    BY <2>1, <2>4 DEF AckFails, MoveTask, TaskAt
  <2>5. CASE Nack(w, t)
    <3>1. attempts[t.copy.msg] >= t.copy.retries + 1
      BY <2>1, <2>5 DEF Nack, TaskAt
    <3>2. CASE can_retry(t.copy)
      BY <2>1, <2>5, <3>1, <3>2 DEF Nack, MoveTask
    <3>3. CASE ~can_retry(t.copy)
      <4>1. t.copy.retries = MaxRetries
        BY <2>1, <3>3 DEF can_retry
      <4> QED
        BY <2>5, <3>1, <3>3, <4>1 DEF Nack, EndTask
    <3> QED
      BY <3>2, <3>3
  <2>6. CASE Requeue(w, t)
    <3>1. attempts[t.copy.msg] >= t.copy.retries + 1
      BY <2>1, <2>6 DEF Requeue, TaskAt
    <3>2. Retried(t.copy).msg = t.copy.msg /\ Retried(t.copy).retries = t.copy.retries + 1
      BY DEF Retried
    <3> QED
      BY <2>6, <3>1, <3>2 DEF Requeue, EndTask, PutBack
  <2>7. CASE NackFails(w, t)
    BY <2>7 DEF NackFails, EndTask
  <2> QED
    BY <1>6, <2>2, <2>3, <2>4, <2>5, <2>6, <2>7 DEF TaskStep
<1>7. ASSUME NEW w \in Workers, Stop(w) PROVE TriedInv'
  BY <1>7 DEF Stop
<1>8. CASE UNCHANGED vars
  BY <1>8 DEF vars
<1> QED
  BY <1>1, <1>2, <1>3, <1>4, <1>5, <1>6, <1>7, <1>8 DEF Next, WorkerStep

-----------------------------------------------------------------------------
(* The inductive invariant is one. *)
LEMMA Invariance == Spec => []IInv
<1>1. IInv /\ [Next]_vars => IInv'
  BY TypeStep, StageStep, LossStep, TriedStep DEF IInv
<1> QED
  BY InitIInv, <1>1, PTL DEF Spec

(***************************************************************************)
(* The variables keep their types and no retry_count exceeds max_retries,  *)
(* for any number of consumers.                                            *)
(***************************************************************************)
THEOREM TypeCorrect == Spec => []TypeOK
<1>1. IInv => TypeOK
  BY DEF IInv
<1> QED
  BY Invariance, <1>1, PTL

(***************************************************************************)
(* Whatever the consumers do to each other's members, a message is lost    *)
(* only in the hands of a consumer that failed.                            *)
(***************************************************************************)
THEOREM OnlyFailuresLose == Spec => []NothingLost
<1>1. IInv => NothingLost
  BY LossMeaning DEF IInv
<1> QED
  BY Invariance, <1>1, PTL

(***************************************************************************)
(* A message is given up only after max_retries + 1 attempts.              *)
(***************************************************************************)
THEOREM GivesUpLate == Spec => []NotGivenUpEarly
<1>1. IInv => NotGivenUpEarly
  BY DEF IInv, TriedInv
<1> QED
  BY Invariance, <1>1, PTL
-----------------------------------------------------------------------------
(* What a consumer has at each point of its loop. *)
PointInv ==
  \A w \in Workers :
    /\ pc[w] \in {"off", "read", "gather", "stopped"} => batch[w] = {}
    /\ pc[w] \in {"off", "read", "remove"} => tasks[w] = {}

LEMMA PointStep == TypeOK /\ PointInv /\ [Next]_vars => PointInv'
<1> SUFFICES ASSUME TypeOK, PointInv, [Next]_vars PROVE PointInv'
  OBVIOUS
<1> USE DEF TypeOK, Points, PointInv, producerVars, outcomeVars, Goto
<1>1. ASSUME NEW m \in Messages, Enqueue(m) \/ SetTtl(m) \/ ExpireProcessing(m)
      PROVE  PointInv'
  BY <1>1 DEF Enqueue, SetTtl, ExpireProcessing
<1>2. CASE ExpireQueue
  BY <1>2 DEF ExpireQueue
<1>3. ASSUME NEW w \in Workers,
             StartConsumer(w) \/ Read(w) \/ Remove(w) \/ Gather(w) \/ Again(w)
      PROVE  PointInv'
  BY <1>3 DEF StartConsumer, Read, Remove, Gather, Again
<1>4. ASSUME NEW w \in Workers, NEW c \in batch[w], TakeStep(w, c) PROVE PointInv'
  BY <1>4 DEF TakeStep, Open, Discard, OpenFails, TakeOut
<1>5. ASSUME NEW w \in Workers, NEW t \in tasks[w], TaskStep(w, t) PROVE PointInv'
  <2>1. pc[w] \in {"gather", "stopped"}
    BY <1>5 DEF TaskStep, CallbackReturns, CallbackRaises, Ack, AckFails, Nack, Requeue,
                NackFails, TaskAt
  <2>2. pc' = pc \/ pc' = [pc EXCEPT ![w] = "stopped"]
    BY <1>5 DEF TaskStep, CallbackReturns, CallbackRaises, Ack, AckFails, Nack, Requeue,
                NackFails
  <2>3. \E S : tasks' = [tasks EXCEPT ![w] = S]
    BY <1>5 DEF TaskStep, CallbackReturns, CallbackRaises, Ack, AckFails, Nack, Requeue,
                NackFails, MoveTask, EndTask
  <2> QED
    BY <1>5, <2>1, <2>2, <2>3, TaskFrame
<1>6. ASSUME NEW w \in Workers, Stop(w) PROVE PointInv'
  BY <1>6 DEF Stop
<1>7. CASE UNCHANGED vars
  BY <1>7 DEF vars
<1> QED
  BY <1>1, <1>2, <1>3, <1>4, <1>5, <1>6, <1>7 DEF Next, WorkerStep

(* With one consumer a message has at most one member, in one place, and   *)
(* the member's retry_count says how often the callback was tried.         *)
AloneInQueue ==
  /\ \A c, d \in queue : c.msg = d.msg => c = d
  /\ \A w \in Workers : \A c \in queue : \A t \in tasks[w] : c.msg # t.copy.msg
  /\ \A w \in Workers : \A c \in queue : \A d \in batch[w] :
       c.msg = d.msg => pc[w] = "remove" /\ c = d
AloneInHand ==
  /\ \A w \in Workers : \A c, d \in batch[w] : c.msg = d.msg => c = d
  /\ \A w \in Workers : \A t, u \in tasks[w] : t.copy.msg = u.copy.msg => t = u
  /\ \A w \in Workers : \A c \in batch[w] : \A t \in tasks[w] : c.msg # t.copy.msg
CountedByRetries ==
  /\ \A c \in queue : attempts[c.msg] <= c.retries
  /\ \A w \in Workers : \A c \in batch[w] : attempts[c.msg] <= c.retries
  /\ \A w \in Workers : \A t \in tasks[w] :
       /\ t.at = "callback" => attempts[t.copy.msg] <= t.copy.retries
       /\ attempts[t.copy.msg] <= t.copy.retries + 1
  /\ \A m \in Messages : attempts[m] <= MaxRetries + 1
NotYetSent ==
  \A m \in Messages : sent[m] = "no" =>
    /\ attempts[m] = 0
    /\ \A c \in queue : c.msg # m
    /\ \A w \in Workers : \A c \in batch[w] : c.msg # m
    /\ \A w \in Workers : \A t \in tasks[w] : t.copy.msg # m
SingleInv == AloneInQueue /\ AloneInHand /\ CountedByRetries /\ NotYetSent

(* A consumer that was started stays started. *)
LEMMA ConsumersStay == TypeOK /\ [Next]_vars /\ OneConsumer' => OneConsumer
<1> SUFFICES ASSUME TypeOK, [Next]_vars PROVE \A w \in Workers : pc[w] # "off" => pc'[w] # "off"
  BY DEF OneConsumer
<1> USE DEF TypeOK, producerVars, outcomeVars, Goto
<1>1. ASSUME NEW m \in Messages, Enqueue(m) \/ SetTtl(m) \/ ExpireProcessing(m)
      PROVE  pc' = pc
  BY <1>1 DEF Enqueue, SetTtl, ExpireProcessing
<1>2. CASE ExpireQueue
  BY <1>2 DEF ExpireQueue
<1>3. ASSUME NEW w \in Workers, StartConsumer(w) \/ WorkerStep(w) \/ Stop(w)
      PROVE  pc' = pc \/ \E at \in Points \ {"off"} : pc' = [pc EXCEPT ![w] = at]
  BY <1>3 DEF WorkerStep, StartConsumer, Read, Remove, Gather, Again, TakeStep, Open, Discard,
     OpenFails, TaskStep, CallbackReturns, CallbackRaises, Ack, AckFails, Nack, Requeue,
     NackFails, Stop, Points
<1>4. CASE UNCHANGED vars
  BY <1>4 DEF vars
<1> QED
  BY <1>1, <1>2, <1>3, <1>4 DEF Next

LEMMA SingleStep ==
  TypeOK /\ StageInv /\ PointInv /\ OneConsumer /\ SingleInv /\ [Next]_vars => SingleInv'
<1> SUFFICES ASSUME TypeOK, StageInv, PointInv, OneConsumer, SingleInv, [Next]_vars
             PROVE  SingleInv'
  OBVIOUS
<1> USE QueueAssumption
    DEF TypeOK, SingleInv, AloneInQueue, AloneInHand, CountedByRetries, NotYetSent,
        producerVars, outcomeVars
<1>0. ASSUME NEW w \in Workers, pc[w] # "off"
      PROVE  \A v \in Workers \ {w} : batch[v] = {} /\ tasks[v] = {}
  BY <1>0 DEF OneConsumer, PointInv
<1>1. ASSUME NEW m \in Messages, Enqueue(m) PROVE SingleInv'
  <2>1. Fresh(m).msg = m /\ Fresh(m).retries = 0 /\ attempts[m] = 0
    BY <1>1 DEF Enqueue, Fresh
  <2> QED
    BY <1>1, <2>1 DEF Enqueue
<1>2. ASSUME NEW m \in Messages, SetTtl(m) \/ ExpireProcessing(m) PROVE SingleInv'
  BY <1>2 DEF SetTtl, ExpireProcessing
<1>3. CASE ExpireQueue
  BY <1>3 DEF ExpireQueue
<1>4. ASSUME NEW w \in Workers, StartConsumer(w) \/ Gather(w) \/ Again(w) PROVE SingleInv'
  BY <1>4 DEF StartConsumer, Gather, Again, Goto, PointInv
<1>5. ASSUME NEW w \in Workers, Read(w) PROVE SingleInv'
  BY <1>5 DEF Read, Goto, PointInv
<1>6. ASSUME NEW w \in Workers, Remove(w) PROVE SingleInv'
  BY <1>6, <1>0 DEF Remove, Goto, PointInv
<1>7. ASSUME NEW w \in Workers, NEW c \in batch[w], TakeStep(w, c) PROVE SingleInv'
  <2>1. CASE Open(w, c)
    <3>1. /\ pc[w] = "open"
          /\ batch' = [batch EXCEPT ![w] = @ \ {c}]
          /\ tasks' = [tasks EXCEPT ![w] = @ \cup {[copy |-> c, at |-> "callback"]}]
          /\ UNCHANGED <<queue, pc, sent, attempts>>
      BY <2>1 DEF Open, TakeOut
    <3>2. \A v \in Workers : batch'[v] \subseteq batch[v] /\ (v = w => c \notin batch'[v])
      BY <3>1
    <3>3. \A v \in Workers : \A t \in tasks'[v] :
            \/ t \in tasks[v]
            \/ v = w /\ t = [copy |-> c, at |-> "callback"] /\ t.copy = c /\ t.at = "callback"
      BY <3>1
    <3>4. \A d \in queue : d.msg # c.msg
      BY <3>1
    <3>5. AloneInQueue'
      BY <3>1, <3>2, <3>3, <3>4
    <3>6. AloneInHand'
      BY <3>1, <3>2, <3>3
    <3>7. CountedByRetries'
      <4>1. attempts[c.msg] <= c.retries /\ c \in Copies
        OBVIOUS
      <4>2. attempts[c.msg] <= c.retries + 1
        BY <4>1 DEF Copies, AttemptsCap
      <4> QED
        BY <3>1, <3>2, <3>3, <4>1, <4>2
    <3>8. NotYetSent'
      BY <3>1, <3>2, <3>3
    <3> QED
      BY <3>5, <3>6, <3>7, <3>8
  <2>2. CASE Discard(w, c) \/ OpenFails(w, c)
    BY <2>2 DEF Discard, OpenFails, TakeOut
  <2> QED
    BY <1>7, <2>1, <2>2 DEF TakeStep
<1>8. ASSUME NEW w \in Workers, NEW t \in tasks[w], TaskStep(w, t) PROVE SingleInv'
  <2>1. /\ t.copy \in Copies
        /\ t.copy.msg \in Messages
        /\ t.copy.retries \in 0 .. MaxRetries
    BY DEF Tasks, Copies
  <2>2. pc[w] \in {"gather", "stopped"} /\ batch[w] = {}
    BY <1>8 DEF PointInv, TaskStep, CallbackReturns, CallbackRaises, Ack, AckFails, Nack,
                Requeue, NackFails, TaskAt
  <2>3. \A v \in Workers : batch[v] = {} /\ (v # w => tasks[v] = {})
    BY <1>0, <2>2
  <2>4. CASE CallbackReturns(w, t) \/ CallbackRaises(w, t)
    <3>1. PICK at \in {"ack", "nack"} : MoveTask(w, t, at)
      BY <2>4 DEF CallbackReturns, CallbackRaises
    <3>2. /\ t.at = "callback"
          /\ CountAttempt(t.copy.msg)
          /\ UNCHANGED <<queue, pc, sent, batch>>
      BY <2>4 DEF CallbackReturns, CallbackRaises, TaskAt
    <3>3. \A v \in Workers : \A u \in tasks'[v] :
            \/ u \in tasks[v] /\ u # t /\ v = w
            \/ v = w /\ u = [copy |-> t.copy, at |-> at] /\ u.copy = t.copy /\ u.at = at
      BY <2>3, <3>1 DEF MoveTask
    <3>4. \A u \in tasks[w] : u # t => u.copy.msg # t.copy.msg
      OBVIOUS
    <3>5. AloneInQueue'
      BY <3>2, <3>3
    <3>6. AloneInHand'
      BY <2>3, <3>2, <3>3, <3>4
    <3>7. CountedByRetries'
      <4>1. /\ \A n \in Messages \ {t.copy.msg} : attempts'[n] = attempts[n]
            /\ attempts'[t.copy.msg] <= attempts[t.copy.msg] + 1
            /\ attempts' \in [Messages -> 0 .. AttemptsCap]
        BY <2>1, <3>2, CountUp
      <4>2. attempts[t.copy.msg] <= t.copy.retries
        BY <3>2
      <4>3. attempts'[t.copy.msg] <= t.copy.retries + 1
        BY <2>1, <4>1, <4>2 DEF AttemptsCap
      <4>4. \A m \in Messages : attempts'[m] <= MaxRetries + 1
        BY <2>1, <4>1, <4>3 DEF AttemptsCap
      <4>5. \A c \in queue' : attempts'[c.msg] <= c.retries
        BY <3>2, <4>1 DEF Copies
      <4>6. \A v \in Workers : \A c \in batch'[v] : attempts'[c.msg] <= c.retries
        BY <2>3, <3>2
      <4>7. \A v \in Workers : \A u \in tasks'[v] :
              /\ u.at = "callback" => attempts'[u.copy.msg] <= u.copy.retries
              /\ attempts'[u.copy.msg] <= u.copy.retries + 1
        BY <3>3, <3>4, <4>1, <4>3 DEF Tasks, Copies
      <4> QED
        BY <4>4, <4>5, <4>6, <4>7
    <3>8. NotYetSent'
      <4>1. sent[t.copy.msg] # "no"
        BY <2>1
      <4>2. \A n \in Messages \ {t.copy.msg} : attempts'[n] = attempts[n]
        BY <2>1, <3>2, CountUp
      <4> QED
        BY <3>2, <3>3, <4>1, <4>2
    <3> QED
      BY <3>5, <3>6, <3>7, <3>8
  <2>5. CASE Ack(w, t)
    BY <2>5 DEF Ack, EndTask
  <2>6. CASE AckFails(w, t)
    BY <2>1, <2>6 DEF AckFails, MoveTask
  <2>7. CASE Nack(w, t)
    BY <2>1, <2>7 DEF Nack, MoveTask, EndTask
  <2>8. CASE Requeue(w, t)
    BY <2>1, <2>3, <2>8 DEF Requeue, EndTask, PutBack, Retried
  <2>9. CASE NackFails(w, t)
    BY <2>2, <2>3, <2>9 DEF NackFails, EndTask, Goto
  <2> QED
    BY <1>8, <2>4, <2>5, <2>6, <2>7, <2>8, <2>9 DEF TaskStep
<1>9. ASSUME NEW w \in Workers, Stop(w) PROVE SingleInv'
  BY <1>9 DEF Stop, Goto
<1>10. CASE UNCHANGED vars
  BY <1>10 DEF vars
<1> QED
  BY <1>1, <1>2, <1>3, <1>4, <1>5, <1>6, <1>7, <1>8, <1>9, <1>10 DEF Next, WorkerStep

LEMMA SingleInvariant == Spec => [](OneConsumer => SingleInv)
<1> DEFINE Inv == PointInv /\ (OneConsumer => SingleInv)
<1>1. Init => Inv
  <2>1. 0 <= MaxRetries + 1
    BY QueueAssumption
  <2> QED
    BY <2>1 DEF Init, PointInv, SingleInv, AloneInQueue, AloneInHand, CountedByRetries, NotYetSent
<1>2. IInv /\ Inv /\ [Next]_vars => Inv'
  BY PointStep, ConsumersStay, SingleStep DEF IInv
<1> QED
  BY Invariance, <1>1, <1>2, PTL DEF Spec

(***************************************************************************)
(* A single consumer tries no message more than max_retries + 1 times.     *)
(***************************************************************************)
THEOREM OneConsumerBound == Spec => []AttemptBound
<1>1. (OneConsumer => SingleInv) => AttemptBound
  BY DEF AttemptBound, SingleInv, CountedByRetries
<1> QED
  BY SingleInvariant, <1>1, PTL

(***************************************************************************)
(* queue.py:41, 56-61, 76-92: with a single consumer, never two callbacks  *)
(* run on the same message, and a message that is in the consumer's hands  *)
(* is not in the queue: a retry is put back when the attempt is over, and  *)
(* nothing else adds a copy.  Two consumers may both read a member.        *)
(***************************************************************************)
OneCopy ==
  OneConsumer =>
    /\ \A c, d \in queue : c.msg = d.msg => c = d
    /\ \A w \in Workers : \A t, u \in tasks[w] : t.copy.msg = u.copy.msg => t = u
    /\ \A w \in Workers : \A t \in tasks[w] :
         t.copy.msg \notin MessagesOf(queue \cup batch[w])

(* queue.py dequeue and nack: one consumer has a message once, in one      *)
(* place.                                                                  *)
THEOREM OneConsumerOneCopy == Spec => []OneCopy
<1>1. (OneConsumer => SingleInv) => OneCopy
  BY DEF OneCopy, SingleInv, AloneInQueue, AloneInHand, MessagesOf
<1> QED
  BY SingleInvariant, <1>1, PTL
=============================================================================
