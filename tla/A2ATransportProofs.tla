-------------------------- MODULE A2ATransportProofs --------------------------
(***************************************************************************)
(* Proofs about A2ATransport, for any agents, requests, callbacks, limits  *)
(* and numbers of faults.                                                  *)
(*                                                                         *)
(* Where a message may be while it was handed over or not: MessageInv says *)
(* that whatever somebody holds was sent to him, ReplyInv that a reply is  *)
(* sent once, after the callback was given its request, and OnceInv that a *)
(* message which a path has handed over is nowhere left on that path.      *)
(***************************************************************************)
EXTENDS A2ATransport, TLAPS

For(a) == {m \in sent : Dest(m) = a}

MessageInv ==
  /\ publishing \subseteq sent
  /\ \A a \in Agents : inbox[a] \subseteq For(a)
  /\ \A p \in Paths, a \in Agents : held[p][a] \subseteq For(a)
  /\ \A p \in Paths, a \in Agents : current[p][a] # None => current[p][a] \in For(a)
  /\ \A r \in Requests : got[r] \subseteq For(Sender[r])
  /\ \A r \in Requests : req[r] \in {"new", "refused"} => r \notin sent
  /\ \A r \in Requests : r \in publishing => req[r] = "sending"
  /\ \A p \in Paths, c \in Callbacks, m \in Messages : given[p][c][m] > 0 => m \in sent

CallbackInv ==
  /\ \A a \in Agents : \A c \in subs[a] : Owner[c] = a
  /\ \A p \in Paths, a \in Agents :
       /\ \A c \in running[p][a] : Owner[c] = a /\ given[p][c][current[p][a]] > 0
       /\ current[p][a] # None => task[p][a] = "hand_over"

ReplyInv ==
  /\ \A r \in Requests, c \in Callbacks, p \in Paths :
       <<r, c, p>> \in sent => given[p][c][r] > 0 /\ Owner[c] = Recipient[r]
  /\ \A p \in Paths, a \in Agents : \A c \in running[p][a] :
       current[p][a] \in Requests => <<current[p][a], c, p>> \notin sent
  /\ \A r \in Requests : answer[r] # None => answer[r] \in sent /\ Answers(answer[r], r)

OnceInv ==
  /\ \A a \in Agents :
       /\ task["poll"][a] \notin {"remove", "hand_over"} => held["poll"][a] = {}
       /\ task["poll"][a] = "hand_over" => held["poll"][a] \cap inbox[a] = {}
       /\ held["pubsub"][a] \cap publishing = {}
  /\ \A c \in Callbacks, m \in Messages : given["poll"][c][m] > 0 =>
       m \notin inbox[Dest(m)] /\ m \notin held["poll"][Dest(m)]
  /\ \A c \in Callbacks, m \in Messages : given["pubsub"][c][m] > 0 =>
       m \notin publishing /\ m \notin held["pubsub"][Dest(m)]
  /\ OncePerPath

(* Who keeps a subscription, a listener or a poller alive. *)
SomeChannel(a, states) == \E c \in Callbacks : Owner[c] = a /\ chan[c] \in states

KeptSubscriptions(a) == subs[a] # {} => SomeChannel(a, ChanStates \ {"new", "closed"})
KeptListener(a) == task["pubsub"][a] # "none" => SomeChannel(a, {"open", "once"})
KeptPoller(a) == task["poll"][a] # "none" => SomeChannel(a, {"open", "stop_poller", "raised"})
Undisturbed(a) ==
  <<a, "task">> \notin disturbed =>
    \A c \in Callbacks : Owner[c] = a =>
      /\ chan[c] \in {"new", "open", "once"}
      /\ chan[c] # "new" => c \in subs[a]

ChannelInv ==
  \A a \in Agents :
    KeptSubscriptions(a) /\ KeptListener(a) /\ KeptPoller(a) /\ Undisturbed(a)

(* Until r has its answer or has failed, no answer of r is dropped. *)
WaitInv ==
  \A r \in Requests :
    /\ req[r] \notin {"answered", "failed"}
    /\ Alone(r)
    /\ <<Sender[r], "lapse">> \notin disturbed
    => \A m \in sent \ expired : Answers(m, r) => m \in inbox[Sender[r]]

IInv ==
  /\ TypeOK /\ MessageInv /\ CallbackInv /\ ReplyInv /\ OnceInv
  /\ ChannelInv /\ NothingLost /\ WaitInv

-----------------------------------------------------------------------------
LEMMA Constants ==
  /\ Sender \in [Requests -> Agents] /\ Recipient \in [Requests -> Agents]
  /\ Owner \in [Callbacks -> Agents]
  /\ None \notin Messages /\ MaxEvents \in Nat
  /\ Requests \subseteq Messages
  BY TransportAssumption DEF Messages

LEMMA Replying ==
  ASSUME NEW r \in Requests, NEW c \in Callbacks, NEW p \in Paths
  PROVE  /\ <<r, c, p>> \in Messages /\ <<r, c, p>> \notin Requests
         /\ Dest(<<r, c, p>>) = Sender[r]
         /\ Answers(<<r, c, p>>, r)
  BY TransportAssumption DEF Messages, Replies, Dest, Answers

LEMMA Destinations ==
  /\ \A m \in Messages : Dest(m) \in Agents
  /\ \A r \in Requests : Dest(r) = Recipient[r]
  BY TransportAssumption DEF Messages, Replies, Dest

LEMMA TwoPaths == Paths = {"poll", "pubsub"} /\ "poll" \in Paths /\ "pubsub" \in Paths
  BY DEF Paths

(* What a path does that hands over m. *)
Handing(p, a, m) ==
  /\ m \in held[p][a] /\ m \in Messages
  /\ current[p][a] = None
  /\ task[p][a] = (IF p = "poll" THEN "hand_over" ELSE "idle")
  /\ held' = [held EXCEPT ![p][a] = @ \ {m}]
  /\ \/ subs[a] = {} /\ UNCHANGED <<task, current, running, given>>
     \/ /\ subs[a] # {}
        /\ task' = [task EXCEPT ![p][a] = "hand_over"]
        /\ current' = [current EXCEPT ![p][a] = m]
        /\ running' = [running EXCEPT ![p][a] = subs[a]]
        /\ given' = Given(p, a, m)
  /\ UNCHANGED <<netVars, subs, chan, reqVars, disturbed, events>>

LEMMA HandingOver ==
  ASSUME TypeOK, NEW p \in Paths, NEW a \in Agents, HandOver(p, a)
  PROVE  \E m \in Messages : Handing(p, a, m)
<1>1. \A m \in held[p][a] : m \in Messages
  BY DEF TypeOK
<1> QED
  BY <1>1 DEF HandOver, Goto, Handing

(* The initial state satisfies the inductive invariant. *)
LEMMA InitIInv == Init => IInv
<1> SUFFICES ASSUME Init PROVE IInv
  OBVIOUS
<1> USE Constants, TwoPaths DEF Init
<1>1. TypeOK
  BY DEF TypeOK, ChanStates, TaskStates, ReqStates
<1>2. MessageInv /\ CallbackInv
  BY DEF MessageInv, CallbackInv, For
<1>3. ReplyInv
  BY DEF ReplyInv
<1>4. OnceInv
  BY Destinations DEF OnceInv, OncePerPath
<1>5. ChannelInv
  BY DEF ChannelInv, KeptSubscriptions, KeptListener, KeptPoller, Undisturbed
<1>6. NothingLost /\ WaitInv
  BY DEF NothingLost, WaitInv
<1> QED
  BY <1>1, <1>2, <1>3, <1>4, <1>5, <1>6 DEF IInv

-----------------------------------------------------------------------------
(* Every step keeps the types. *)
LEMMA TypeStep == IInv /\ [Next]_vars => TypeOK'
<1> SUFFICES ASSUME IInv, [Next]_vars PROVE TypeOK'
  OBVIOUS
<1> USE DEF netVars, taskVars, reqVars
<1> USE DEF TypeOK
<1>a. TypeOK
  BY DEF IInv
<1>1. ASSUME NEW r \in Requests, SendRequest(r) PROVE TypeOK'
  BY <1>1, <1>a, Constants, TwoPaths, Destinations
  DEF SendRequest, Add, Count, ChanStates, TaskStates, ReqStates
<1>2. ASSUME NEW r \in Requests, Refuse(r) PROVE TypeOK'
  BY <1>2, <1>a, Constants, TwoPaths, Destinations
  DEF Refuse, ChanStates, TaskStates, ReqStates
<1>3. ASSUME NEW r \in Requests, RequestRead(r) PROVE TypeOK'
  BY <1>3, <1>a, Constants, TwoPaths, Destinations
  DEF RequestRead, Batches, ChanStates, TaskStates, ReqStates
<1>4. ASSUME NEW r \in Requests, RequestRemove(r) PROVE TypeOK'
  <2>1. CASE {m \in got[r] \ expired : Answers(m, r)} = {} /\ req' = [req EXCEPT ![r] = "wait"] /\ UNCHANGED answer
    <3>0. /\ req[r] = "remove"
          /\ inbox' = [inbox EXCEPT ![Sender[r]] = @ \ got[r]]
          /\ \E failed \in SUBSET (got[r] \cap expired) :
               dlq' = [dlq EXCEPT ![Sender[r]] = @ \cup ((got[r] \cap expired) \ failed)]
          /\ UNCHANGED <<expired, publishing, sent>>
          /\ got' = [got EXCEPT ![r] = {}]
          /\ disturbed' = disturbed \cup {<<Sender[r], "reader">>}
          /\ UNCHANGED <<taskVars, events>>
          /\ req' = [req EXCEPT ![r] = "wait"]
          /\ answer' = answer
          /\ \A m \in got[r] \ expired : ~ Answers(m, r)
      BY <1>4, <2>1 DEF RequestRemove, TakeOutAndBury, Disturb
    <3>1. inbox' \in [Agents -> SUBSET Messages] /\ dlq' \in [Agents -> SUBSET Messages]
      BY <3>0, <1>a, Constants, TwoPaths, Destinations DEF ReqStates
    <3>2. /\ expired' \subseteq Messages /\ publishing' \subseteq Messages /\ sent' \subseteq Messages
          /\ disturbed' \subseteq Agents \X {"lapse", "reader", "task"}
          /\ events' \in 0 .. MaxEvents
      BY <3>0, <1>a, Constants, TwoPaths, Destinations DEF ReqStates
    <3>3. subs' \in [Agents -> SUBSET Callbacks] /\ chan' \in [Callbacks -> ChanStates]
      BY <3>0, <1>a, Constants, TwoPaths, Destinations DEF ReqStates
    <3>4. task' \in [Paths -> [Agents -> TaskStates]]
      BY <3>0, <1>a, Constants, TwoPaths, Destinations DEF ReqStates
    <3>5. held' \in [Paths -> [Agents -> SUBSET Messages]]
      BY <3>0, <1>a, Constants, TwoPaths, Destinations DEF ReqStates
    <3>6. /\ current' \in [Paths -> [Agents -> Messages \cup {None}]]
          /\ running' \in [Paths -> [Agents -> SUBSET Callbacks]]
      BY <3>0, <1>a, Constants, TwoPaths, Destinations DEF ReqStates
    <3>7. \A q \in Paths, b \in Agents : current'[q][b] = None => running'[q][b] = {}
      BY <3>0, <1>a, Constants, TwoPaths, Destinations DEF ReqStates
    <3>8. given' \in [Paths -> [Callbacks -> [Messages -> Nat]]]
      BY <3>0, <1>a, Constants, TwoPaths, Destinations DEF ReqStates
    <3>9. /\ req' \in [Requests -> ReqStates] /\ got' \in [Requests -> SUBSET Messages]
          /\ answer' \in [Requests -> Messages \cup {None}]
      BY <3>0, <1>a, Constants, TwoPaths, Destinations DEF ReqStates
    <3> QED
      BY <3>1, <3>2, <3>3, <3>4, <3>5, <3>6, <3>7, <3>8, <3>9
  <2>2. CASE \E m \in got[r] \ expired : Answers(m, r) /\ req' = [req EXCEPT ![r] = "answered"] /\ answer' = [answer EXCEPT ![r] = m]
    <3>0. /\ req[r] = "remove"
          /\ inbox' = [inbox EXCEPT ![Sender[r]] = @ \ got[r]]
          /\ \E failed \in SUBSET (got[r] \cap expired) :
               dlq' = [dlq EXCEPT ![Sender[r]] = @ \cup ((got[r] \cap expired) \ failed)]
          /\ UNCHANGED <<expired, publishing, sent>>
          /\ got' = [got EXCEPT ![r] = {}]
          /\ disturbed' = disturbed \cup {<<Sender[r], "reader">>}
          /\ UNCHANGED <<taskVars, events>>
          /\ req' = [req EXCEPT ![r] = "answered"]
          /\ \E m \in got[r] \ expired : Answers(m, r) /\ answer' = [answer EXCEPT ![r] = m]
      BY <1>4, <2>2 DEF RequestRemove, TakeOutAndBury, Disturb
    <3>1. inbox' \in [Agents -> SUBSET Messages] /\ dlq' \in [Agents -> SUBSET Messages]
      BY <3>0, <1>a, Constants, TwoPaths, Destinations DEF ReqStates
    <3>2. /\ expired' \subseteq Messages /\ publishing' \subseteq Messages /\ sent' \subseteq Messages
          /\ disturbed' \subseteq Agents \X {"lapse", "reader", "task"}
          /\ events' \in 0 .. MaxEvents
      BY <3>0, <1>a, Constants, TwoPaths, Destinations DEF ReqStates
    <3>3. subs' \in [Agents -> SUBSET Callbacks] /\ chan' \in [Callbacks -> ChanStates]
      BY <3>0, <1>a, Constants, TwoPaths, Destinations DEF ReqStates
    <3>4. task' \in [Paths -> [Agents -> TaskStates]]
      BY <3>0, <1>a, Constants, TwoPaths, Destinations DEF ReqStates
    <3>5. held' \in [Paths -> [Agents -> SUBSET Messages]]
      BY <3>0, <1>a, Constants, TwoPaths, Destinations DEF ReqStates
    <3>6. /\ current' \in [Paths -> [Agents -> Messages \cup {None}]]
          /\ running' \in [Paths -> [Agents -> SUBSET Callbacks]]
      BY <3>0, <1>a, Constants, TwoPaths, Destinations DEF ReqStates
    <3>7. \A q \in Paths, b \in Agents : current'[q][b] = None => running'[q][b] = {}
      BY <3>0, <1>a, Constants, TwoPaths, Destinations DEF ReqStates
    <3>8. given' \in [Paths -> [Callbacks -> [Messages -> Nat]]]
      BY <3>0, <1>a, Constants, TwoPaths, Destinations DEF ReqStates
    <3>9. /\ req' \in [Requests -> ReqStates] /\ got' \in [Requests -> SUBSET Messages]
          /\ answer' \in [Requests -> Messages \cup {None}]
      BY <3>0, <1>a, Constants, TwoPaths, Destinations DEF ReqStates
    <3> QED
      BY <3>1, <3>2, <3>3, <3>4, <3>5, <3>6, <3>7, <3>8, <3>9
  <2> QED
    BY <1>4, <2>1, <2>2 DEF RequestRemove
<1>5. ASSUME NEW r \in Requests, RequestTimeout(r) PROVE TypeOK'
  BY <1>5, <1>a, Constants, TwoPaths, Destinations
  DEF RequestTimeout, ChanStates, TaskStates, ReqStates
<1>6. ASSUME NEW r \in Requests, RequestFails(r) PROVE TypeOK'
  BY <1>6, <1>a, Constants, TwoPaths, Destinations
  DEF RequestFails, TakeOut, Disturb, Count, ChanStates, TaskStates,
      ReqStates
<1>7. ASSUME NEW m \in Messages, Publish(m) PROVE TypeOK'
  BY <1>7, <1>a, Constants, TwoPaths, Destinations
  DEF Publish, SenderGoesTo, ChanStates, TaskStates, ReqStates
<1>8. ASSUME NEW m \in Messages, PublishFails(m) PROVE TypeOK'
  BY <1>8, <1>a, Constants, TwoPaths, Destinations
  DEF PublishFails, SenderGoesTo, Count, ChanStates, TaskStates, ReqStates
<1>9. ASSUME NEW m \in Messages, Expire(m) PROVE TypeOK'
  BY <1>9, <1>a, Constants, TwoPaths, Destinations
  DEF Expire, Count, ChanStates, TaskStates, ReqStates
<1>10. ASSUME NEW c \in Callbacks, OpenChannel(c) PROVE TypeOK'
  <2>1. inbox' \in [Agents -> SUBSET Messages] /\ dlq' \in [Agents -> SUBSET Messages]
    BY <1>10, <1>a, Constants, TwoPaths, Destinations
    DEF OpenChannel, Subscribe, Count
  <2>2. /\ expired' \subseteq Messages /\ publishing' \subseteq Messages /\ sent' \subseteq Messages
        /\ disturbed' \subseteq Agents \X {"lapse", "reader", "task"}
        /\ events' \in 0 .. MaxEvents
    BY <1>10, <1>a, Constants, TwoPaths, Destinations
    DEF OpenChannel, Subscribe, Count
  <2>3. subs' \in [Agents -> SUBSET Callbacks] /\ chan' \in [Callbacks -> ChanStates]
    BY <1>10, <1>a, Constants, TwoPaths, Destinations
    DEF OpenChannel, Subscribe, Count, ChanStates
  <2>4. task' \in [Paths -> [Agents -> TaskStates]]
    BY <1>10, <1>a, Constants, TwoPaths, Destinations
    DEF OpenChannel, Subscribe, Count, TaskStates
  <2>5. held' \in [Paths -> [Agents -> SUBSET Messages]]
    BY <1>10, <1>a, Constants, TwoPaths, Destinations
    DEF OpenChannel, Subscribe, Count
  <2>6. /\ current' \in [Paths -> [Agents -> Messages \cup {None}]]
        /\ running' \in [Paths -> [Agents -> SUBSET Callbacks]]
    BY <1>10, <1>a, Constants, TwoPaths, Destinations
    DEF OpenChannel, Subscribe, Count
  <2>7. \A q \in Paths, b \in Agents : current'[q][b] = None => running'[q][b] = {}
    BY <1>10, <1>a, Constants, TwoPaths, Destinations
    DEF OpenChannel, Subscribe, Count
  <2>8. given' \in [Paths -> [Callbacks -> [Messages -> Nat]]]
    BY <1>10, <1>a, Constants, TwoPaths, Destinations
    DEF OpenChannel, Subscribe, Count
  <2>9. /\ req' \in [Requests -> ReqStates] /\ got' \in [Requests -> SUBSET Messages]
        /\ answer' \in [Requests -> Messages \cup {None}]
    BY <1>10, <1>a, Constants, TwoPaths, Destinations
    DEF OpenChannel, Subscribe, Count, ReqStates
  <2> QED
    BY <2>1, <2>2, <2>3, <2>4, <2>5, <2>6, <2>7, <2>8, <2>9
<1>11. ASSUME NEW c \in Callbacks, ReceiveOnce(c) PROVE TypeOK'
  <2>1. inbox' \in [Agents -> SUBSET Messages] /\ dlq' \in [Agents -> SUBSET Messages]
    BY <1>11, <1>a, Constants, TwoPaths, Destinations
    DEF ReceiveOnce, Subscribe, Count
  <2>2. /\ expired' \subseteq Messages /\ publishing' \subseteq Messages /\ sent' \subseteq Messages
        /\ disturbed' \subseteq Agents \X {"lapse", "reader", "task"}
        /\ events' \in 0 .. MaxEvents
    BY <1>11, <1>a, Constants, TwoPaths, Destinations
    DEF ReceiveOnce, Subscribe, Count
  <2>3. subs' \in [Agents -> SUBSET Callbacks] /\ chan' \in [Callbacks -> ChanStates]
    BY <1>11, <1>a, Constants, TwoPaths, Destinations
    DEF ReceiveOnce, Subscribe, Count, ChanStates
  <2>4. task' \in [Paths -> [Agents -> TaskStates]]
    BY <1>11, <1>a, Constants, TwoPaths, Destinations
    DEF ReceiveOnce, Subscribe, Count, TaskStates
  <2>5. held' \in [Paths -> [Agents -> SUBSET Messages]]
    BY <1>11, <1>a, Constants, TwoPaths, Destinations
    DEF ReceiveOnce, Subscribe, Count
  <2>6. /\ current' \in [Paths -> [Agents -> Messages \cup {None}]]
        /\ running' \in [Paths -> [Agents -> SUBSET Callbacks]]
    BY <1>11, <1>a, Constants, TwoPaths, Destinations
    DEF ReceiveOnce, Subscribe, Count
  <2>7. \A q \in Paths, b \in Agents : current'[q][b] = None => running'[q][b] = {}
    BY <1>11, <1>a, Constants, TwoPaths, Destinations
    DEF ReceiveOnce, Subscribe, Count
  <2>8. given' \in [Paths -> [Callbacks -> [Messages -> Nat]]]
    BY <1>11, <1>a, Constants, TwoPaths, Destinations
    DEF ReceiveOnce, Subscribe, Count
  <2>9. /\ req' \in [Requests -> ReqStates] /\ got' \in [Requests -> SUBSET Messages]
        /\ answer' \in [Requests -> Messages \cup {None}]
    BY <1>11, <1>a, Constants, TwoPaths, Destinations
    DEF ReceiveOnce, Subscribe, Count, ReqStates
  <2> QED
    BY <2>1, <2>2, <2>3, <2>4, <2>5, <2>6, <2>7, <2>8, <2>9
<1>12. ASSUME NEW c \in Callbacks, Close(c) PROVE TypeOK'
  <2>1. inbox' \in [Agents -> SUBSET Messages] /\ dlq' \in [Agents -> SUBSET Messages]
    BY <1>12, <1>a, Constants, TwoPaths, Destinations
    DEF Close, StopTask, EndTask, TakeOut, Disturb, Goto
  <2>2. /\ expired' \subseteq Messages /\ publishing' \subseteq Messages /\ sent' \subseteq Messages
        /\ disturbed' \subseteq Agents \X {"lapse", "reader", "task"}
        /\ events' \in 0 .. MaxEvents
    BY <1>12, <1>a, Constants, TwoPaths, Destinations
    DEF Close, StopTask, EndTask, TakeOut, Disturb, Goto
  <2>3. subs' \in [Agents -> SUBSET Callbacks] /\ chan' \in [Callbacks -> ChanStates]
    BY <1>12, <1>a, Constants, TwoPaths, Destinations
    DEF Close, StopTask, EndTask, TakeOut, Disturb, Goto, ChanStates
  <2>4. task' \in [Paths -> [Agents -> TaskStates]]
    BY <1>12, <1>a, Constants, TwoPaths, Destinations
    DEF Close, StopTask, EndTask, TakeOut, Disturb, Goto, TaskStates
  <2>5. held' \in [Paths -> [Agents -> SUBSET Messages]]
    BY <1>12, <1>a, Constants, TwoPaths, Destinations
    DEF Close, StopTask, EndTask, TakeOut, Disturb, Goto
  <2>6. /\ current' \in [Paths -> [Agents -> Messages \cup {None}]]
        /\ running' \in [Paths -> [Agents -> SUBSET Callbacks]]
    BY <1>12, <1>a, Constants, TwoPaths, Destinations
    DEF Close, StopTask, EndTask, TakeOut, Disturb, Goto
  <2>7. \A q \in Paths, b \in Agents : current'[q][b] = None => running'[q][b] = {}
    BY <1>12, <1>a, Constants, TwoPaths, Destinations
    DEF Close, StopTask, EndTask, TakeOut, Disturb, Goto
  <2>8. given' \in [Paths -> [Callbacks -> [Messages -> Nat]]]
    BY <1>12, <1>a, Constants, TwoPaths, Destinations
    DEF Close, StopTask, EndTask, TakeOut, Disturb, Goto
  <2>9. /\ req' \in [Requests -> ReqStates] /\ got' \in [Requests -> SUBSET Messages]
        /\ answer' \in [Requests -> Messages \cup {None}]
    BY <1>12, <1>a, Constants, TwoPaths, Destinations
    DEF Close, StopTask, EndTask, TakeOut, Disturb, Goto, ReqStates
  <2> QED
    BY <2>1, <2>2, <2>3, <2>4, <2>5, <2>6, <2>7, <2>8, <2>9
<1>13. ASSUME NEW c \in Callbacks, StopPoller(c) PROVE TypeOK'
  <2>1. inbox' \in [Agents -> SUBSET Messages] /\ dlq' \in [Agents -> SUBSET Messages]
    BY <1>13, <1>a, Constants, TwoPaths, Destinations
    DEF StopPoller, StopTask, EndTask, TakeOut, Disturb, Goto
  <2>2. /\ expired' \subseteq Messages /\ publishing' \subseteq Messages /\ sent' \subseteq Messages
        /\ disturbed' \subseteq Agents \X {"lapse", "reader", "task"}
        /\ events' \in 0 .. MaxEvents
    BY <1>13, <1>a, Constants, TwoPaths, Destinations
    DEF StopPoller, StopTask, EndTask, TakeOut, Disturb, Goto
  <2>3. subs' \in [Agents -> SUBSET Callbacks] /\ chan' \in [Callbacks -> ChanStates]
    BY <1>13, <1>a, Constants, TwoPaths, Destinations
    DEF StopPoller, StopTask, EndTask, TakeOut, Disturb, Goto, ChanStates
  <2>4. task' \in [Paths -> [Agents -> TaskStates]]
    BY <1>13, <1>a, Constants, TwoPaths, Destinations
    DEF StopPoller, StopTask, EndTask, TakeOut, Disturb, Goto, TaskStates
  <2>5. held' \in [Paths -> [Agents -> SUBSET Messages]]
    BY <1>13, <1>a, Constants, TwoPaths, Destinations
    DEF StopPoller, StopTask, EndTask, TakeOut, Disturb, Goto
  <2>6. /\ current' \in [Paths -> [Agents -> Messages \cup {None}]]
        /\ running' \in [Paths -> [Agents -> SUBSET Callbacks]]
    BY <1>13, <1>a, Constants, TwoPaths, Destinations
    DEF StopPoller, StopTask, EndTask, TakeOut, Disturb, Goto
  <2>7. \A q \in Paths, b \in Agents : current'[q][b] = None => running'[q][b] = {}
    BY <1>13, <1>a, Constants, TwoPaths, Destinations
    DEF StopPoller, StopTask, EndTask, TakeOut, Disturb, Goto
  <2>8. given' \in [Paths -> [Callbacks -> [Messages -> Nat]]]
    BY <1>13, <1>a, Constants, TwoPaths, Destinations
    DEF StopPoller, StopTask, EndTask, TakeOut, Disturb, Goto
  <2>9. /\ req' \in [Requests -> ReqStates] /\ got' \in [Requests -> SUBSET Messages]
        /\ answer' \in [Requests -> Messages \cup {None}]
    BY <1>13, <1>a, Constants, TwoPaths, Destinations
    DEF StopPoller, StopTask, EndTask, TakeOut, Disturb, Goto, ReqStates
  <2> QED
    BY <2>1, <2>2, <2>3, <2>4, <2>5, <2>6, <2>7, <2>8, <2>9
<1>14. ASSUME NEW c \in Callbacks, DropSubscriptions(c) PROVE TypeOK'
  BY <1>14, <1>a, Constants, TwoPaths, Destinations
  DEF DropSubscriptions, ChanStates, TaskStates, ReqStates
<1>15. ASSUME NEW a \in Agents, LapseInbox(a) PROVE TypeOK'
  BY <1>15, <1>a, Constants, TwoPaths, Destinations
  DEF LapseInbox, Disturb, Count, ChanStates, TaskStates, ReqStates
<1>16. ASSUME NEW a \in Agents, Listening(a) PROVE TypeOK'
  BY <1>16, <1>a, Constants, TwoPaths, Destinations
  DEF Listening, Goto, ChanStates, TaskStates, ReqStates
<1>17. ASSUME NEW a \in Agents, PollRead(a) PROVE TypeOK'
  BY <1>17, <1>a, Constants, TwoPaths, Destinations
  DEF PollRead, Goto, Batches, ChanStates, TaskStates, ReqStates
<1>18. ASSUME NEW a \in Agents, PollRemove(a) PROVE TypeOK'
  BY <1>18, <1>a, Constants, TwoPaths, Destinations
  DEF PollRemove, Goto, TakeOutAndBury, ChanStates, TaskStates, ReqStates
<1>19. ASSUME NEW a \in Agents, PollAgain(a) PROVE TypeOK'
  BY <1>19, <1>a, Constants, TwoPaths, Destinations
  DEF PollAgain, Goto, ChanStates, TaskStates, ReqStates
<1>20. ASSUME NEW p \in Paths, NEW a \in Agents, TaskFails(p, a) PROVE TypeOK'
  <2>1. inbox' \in [Agents -> SUBSET Messages] /\ dlq' \in [Agents -> SUBSET Messages]
    BY <1>20, <1>a, Constants, TwoPaths, Destinations
    DEF TaskFails, EndTask, TakeOut, Disturb, Goto, Count
  <2>2. /\ expired' \subseteq Messages /\ publishing' \subseteq Messages /\ sent' \subseteq Messages
        /\ disturbed' \subseteq Agents \X {"lapse", "reader", "task"}
        /\ events' \in 0 .. MaxEvents
    BY <1>20, <1>a, Constants, TwoPaths, Destinations
    DEF TaskFails, EndTask, TakeOut, Disturb, Goto, Count
  <2>3. subs' \in [Agents -> SUBSET Callbacks] /\ chan' \in [Callbacks -> ChanStates]
    BY <1>20, <1>a, Constants, TwoPaths, Destinations
    DEF TaskFails, EndTask, TakeOut, Disturb, Goto, Count, ChanStates
  <2>4. task' \in [Paths -> [Agents -> TaskStates]]
    BY <1>20, <1>a, Constants, TwoPaths, Destinations
    DEF TaskFails, EndTask, TakeOut, Disturb, Goto, Count, TaskStates
  <2>5. held' \in [Paths -> [Agents -> SUBSET Messages]]
    BY <1>20, <1>a, Constants, TwoPaths, Destinations
    DEF TaskFails, EndTask, TakeOut, Disturb, Goto, Count
  <2>6. /\ current' \in [Paths -> [Agents -> Messages \cup {None}]]
        /\ running' \in [Paths -> [Agents -> SUBSET Callbacks]]
    BY <1>20, <1>a, Constants, TwoPaths, Destinations
    DEF TaskFails, EndTask, TakeOut, Disturb, Goto, Count
  <2>7. \A q \in Paths, b \in Agents : current'[q][b] = None => running'[q][b] = {}
    BY <1>20, <1>a, Constants, TwoPaths, Destinations
    DEF TaskFails, EndTask, TakeOut, Disturb, Goto, Count
  <2>8. given' \in [Paths -> [Callbacks -> [Messages -> Nat]]]
    BY <1>20, <1>a, Constants, TwoPaths, Destinations
    DEF TaskFails, EndTask, TakeOut, Disturb, Goto, Count
  <2>9. /\ req' \in [Requests -> ReqStates] /\ got' \in [Requests -> SUBSET Messages]
        /\ answer' \in [Requests -> Messages \cup {None}]
    BY <1>20, <1>a, Constants, TwoPaths, Destinations
    DEF TaskFails, EndTask, TakeOut, Disturb, Goto, Count, ReqStates
  <2> QED
    BY <2>1, <2>2, <2>3, <2>4, <2>5, <2>6, <2>7, <2>8, <2>9
<1>21. ASSUME NEW p \in Paths, NEW a \in Agents, HandOver(p, a) PROVE TypeOK'
  <2>0. PICK m \in Messages : Handing(p, a, m)
    BY <1>21, <1>a, HandingOver
  <2>1. CASE subs[a] = {}
    <3>0. /\ m \in held[p][a] /\ current[p][a] = None
          /\ task[p][a] = (IF p = "poll" THEN "hand_over" ELSE "idle")
          /\ held' = [held EXCEPT ![p][a] = @ \ {m}]
          /\ UNCHANGED <<task, current, running, given>>
          /\ UNCHANGED <<netVars, subs, chan, reqVars, disturbed, events>>
      BY <2>0, <2>1 DEF Handing
    <3>1. inbox' \in [Agents -> SUBSET Messages] /\ dlq' \in [Agents -> SUBSET Messages]
      BY <3>0, <1>a, Constants, TwoPaths, Destinations DEF TaskStates, Given
    <3>2. /\ expired' \subseteq Messages /\ publishing' \subseteq Messages /\ sent' \subseteq Messages
          /\ disturbed' \subseteq Agents \X {"lapse", "reader", "task"}
          /\ events' \in 0 .. MaxEvents
      BY <3>0, <1>a, Constants, TwoPaths, Destinations DEF TaskStates, Given
    <3>3. subs' \in [Agents -> SUBSET Callbacks] /\ chan' \in [Callbacks -> ChanStates]
      BY <3>0, <1>a, Constants, TwoPaths, Destinations DEF TaskStates, Given
    <3>4. task' \in [Paths -> [Agents -> TaskStates]]
      BY <3>0, <1>a, Constants, TwoPaths, Destinations DEF TaskStates, Given
    <3>5. held' \in [Paths -> [Agents -> SUBSET Messages]]
      BY <3>0, <1>a, Constants, TwoPaths, Destinations DEF TaskStates, Given
    <3>6. /\ current' \in [Paths -> [Agents -> Messages \cup {None}]]
          /\ running' \in [Paths -> [Agents -> SUBSET Callbacks]]
      BY <3>0, <1>a, Constants, TwoPaths, Destinations DEF TaskStates, Given
    <3>7. \A q \in Paths, b \in Agents : current'[q][b] = None => running'[q][b] = {}
      BY <3>0, <1>a, Constants, TwoPaths, Destinations DEF TaskStates, Given
    <3>8. given' \in [Paths -> [Callbacks -> [Messages -> Nat]]]
      BY <3>0, <1>a, Constants, TwoPaths, Destinations DEF TaskStates, Given
    <3>9. /\ req' \in [Requests -> ReqStates] /\ got' \in [Requests -> SUBSET Messages]
          /\ answer' \in [Requests -> Messages \cup {None}]
      BY <3>0, <1>a, Constants, TwoPaths, Destinations DEF TaskStates, Given
    <3> QED
      BY <3>1, <3>2, <3>3, <3>4, <3>5, <3>6, <3>7, <3>8, <3>9
  <2>2. CASE subs[a] # {}
    <3>0. /\ m \in held[p][a] /\ current[p][a] = None
          /\ task[p][a] = (IF p = "poll" THEN "hand_over" ELSE "idle")
          /\ held' = [held EXCEPT ![p][a] = @ \ {m}]
          /\ task' = [task EXCEPT ![p][a] = "hand_over"]
          /\ current' = [current EXCEPT ![p][a] = m]
          /\ running' = [running EXCEPT ![p][a] = subs[a]]
          /\ given' = Given(p, a, m)
          /\ UNCHANGED <<netVars, subs, chan, reqVars, disturbed, events>>
      BY <2>0, <2>2 DEF Handing
    <3>1. inbox' \in [Agents -> SUBSET Messages] /\ dlq' \in [Agents -> SUBSET Messages]
      BY <3>0, <1>a, Constants, TwoPaths, Destinations DEF TaskStates, Given
    <3>2. /\ expired' \subseteq Messages /\ publishing' \subseteq Messages /\ sent' \subseteq Messages
          /\ disturbed' \subseteq Agents \X {"lapse", "reader", "task"}
          /\ events' \in 0 .. MaxEvents
      BY <3>0, <1>a, Constants, TwoPaths, Destinations DEF TaskStates, Given
    <3>3. subs' \in [Agents -> SUBSET Callbacks] /\ chan' \in [Callbacks -> ChanStates]
      BY <3>0, <1>a, Constants, TwoPaths, Destinations DEF TaskStates, Given
    <3>4. task' \in [Paths -> [Agents -> TaskStates]]
      BY <3>0, <1>a, Constants, TwoPaths, Destinations DEF TaskStates, Given
    <3>5. held' \in [Paths -> [Agents -> SUBSET Messages]]
      BY <3>0, <1>a, Constants, TwoPaths, Destinations DEF TaskStates, Given
    <3>6. /\ current' \in [Paths -> [Agents -> Messages \cup {None}]]
          /\ running' \in [Paths -> [Agents -> SUBSET Callbacks]]
      BY <3>0, <1>a, Constants, TwoPaths, Destinations DEF TaskStates, Given
    <3>7. \A q \in Paths, b \in Agents : current'[q][b] = None => running'[q][b] = {}
      BY <3>0, <1>a, Constants, TwoPaths, Destinations DEF TaskStates, Given
    <3>8. given' \in [Paths -> [Callbacks -> [Messages -> Nat]]]
      BY <3>0, <1>a, Constants, TwoPaths, Destinations DEF TaskStates, Given
    <3>9. /\ req' \in [Requests -> ReqStates] /\ got' \in [Requests -> SUBSET Messages]
          /\ answer' \in [Requests -> Messages \cup {None}]
      BY <3>0, <1>a, Constants, TwoPaths, Destinations DEF TaskStates, Given
    <3> QED
      BY <3>1, <3>2, <3>3, <3>4, <3>5, <3>6, <3>7, <3>8, <3>9
  <2> QED
    BY <2>1, <2>2
<1>22. ASSUME NEW p \in Paths, NEW a \in Agents, Gathered(p, a) PROVE TypeOK'
  <2>1. CASE p = "poll"
    <3>0. /\ current[p][a] # None /\ running[p][a] = {}
          /\ current' = [current EXCEPT ![p][a] = None]
          /\ task' = task
          /\ UNCHANGED <<netVars, subs, chan, held, running, given, reqVars, disturbed, events>>
      BY <1>22, <2>1 DEF Gathered, Goto
    <3>1. inbox' \in [Agents -> SUBSET Messages] /\ dlq' \in [Agents -> SUBSET Messages]
      BY <3>0, <1>a, Constants, TwoPaths, Destinations DEF TaskStates
    <3>2. /\ expired' \subseteq Messages /\ publishing' \subseteq Messages /\ sent' \subseteq Messages
          /\ disturbed' \subseteq Agents \X {"lapse", "reader", "task"}
          /\ events' \in 0 .. MaxEvents
      BY <3>0, <1>a, Constants, TwoPaths, Destinations DEF TaskStates
    <3>3. subs' \in [Agents -> SUBSET Callbacks] /\ chan' \in [Callbacks -> ChanStates]
      BY <3>0, <1>a, Constants, TwoPaths, Destinations DEF TaskStates
    <3>4. task' \in [Paths -> [Agents -> TaskStates]]
      BY <3>0, <1>a, Constants, TwoPaths, Destinations DEF TaskStates
    <3>5. held' \in [Paths -> [Agents -> SUBSET Messages]]
      BY <3>0, <1>a, Constants, TwoPaths, Destinations DEF TaskStates
    <3>6. /\ current' \in [Paths -> [Agents -> Messages \cup {None}]]
          /\ running' \in [Paths -> [Agents -> SUBSET Callbacks]]
      BY <3>0, <1>a, Constants, TwoPaths, Destinations DEF TaskStates
    <3>7. \A q \in Paths, b \in Agents : current'[q][b] = None => running'[q][b] = {}
      BY <3>0, <1>a, Constants, TwoPaths, Destinations DEF TaskStates
    <3>8. given' \in [Paths -> [Callbacks -> [Messages -> Nat]]]
      BY <3>0, <1>a, Constants, TwoPaths, Destinations DEF TaskStates
    <3>9. /\ req' \in [Requests -> ReqStates] /\ got' \in [Requests -> SUBSET Messages]
          /\ answer' \in [Requests -> Messages \cup {None}]
      BY <3>0, <1>a, Constants, TwoPaths, Destinations DEF TaskStates
    <3> QED
      BY <3>1, <3>2, <3>3, <3>4, <3>5, <3>6, <3>7, <3>8, <3>9
  <2>2. CASE p = "pubsub"
    <3>0. /\ current[p][a] # None /\ running[p][a] = {}
          /\ current' = [current EXCEPT ![p][a] = None]
          /\ task' = [task EXCEPT ![p][a] = "idle"]
          /\ UNCHANGED <<netVars, subs, chan, held, running, given, reqVars, disturbed, events>>
      BY <1>22, <2>2 DEF Gathered, Goto
    <3>1. inbox' \in [Agents -> SUBSET Messages] /\ dlq' \in [Agents -> SUBSET Messages]
      BY <3>0, <1>a, Constants, TwoPaths, Destinations DEF TaskStates
    <3>2. /\ expired' \subseteq Messages /\ publishing' \subseteq Messages /\ sent' \subseteq Messages
          /\ disturbed' \subseteq Agents \X {"lapse", "reader", "task"}
          /\ events' \in 0 .. MaxEvents
      BY <3>0, <1>a, Constants, TwoPaths, Destinations DEF TaskStates
    <3>3. subs' \in [Agents -> SUBSET Callbacks] /\ chan' \in [Callbacks -> ChanStates]
      BY <3>0, <1>a, Constants, TwoPaths, Destinations DEF TaskStates
    <3>4. task' \in [Paths -> [Agents -> TaskStates]]
      BY <3>0, <1>a, Constants, TwoPaths, Destinations DEF TaskStates
    <3>5. held' \in [Paths -> [Agents -> SUBSET Messages]]
      BY <3>0, <1>a, Constants, TwoPaths, Destinations DEF TaskStates
    <3>6. /\ current' \in [Paths -> [Agents -> Messages \cup {None}]]
          /\ running' \in [Paths -> [Agents -> SUBSET Callbacks]]
      BY <3>0, <1>a, Constants, TwoPaths, Destinations DEF TaskStates
    <3>7. \A q \in Paths, b \in Agents : current'[q][b] = None => running'[q][b] = {}
      BY <3>0, <1>a, Constants, TwoPaths, Destinations DEF TaskStates
    <3>8. given' \in [Paths -> [Callbacks -> [Messages -> Nat]]]
      BY <3>0, <1>a, Constants, TwoPaths, Destinations DEF TaskStates
    <3>9. /\ req' \in [Requests -> ReqStates] /\ got' \in [Requests -> SUBSET Messages]
          /\ answer' \in [Requests -> Messages \cup {None}]
      BY <3>0, <1>a, Constants, TwoPaths, Destinations DEF TaskStates
    <3> QED
      BY <3>1, <3>2, <3>3, <3>4, <3>5, <3>6, <3>7, <3>8, <3>9
  <2> QED
    BY <2>1, <2>2, TwoPaths
<1>23. ASSUME NEW p \in Paths, NEW a \in Agents, NEW c \in Callbacks, EndCallback(p, a, c)
       PROVE TypeOK'
  <2>1. CASE UNCHANGED netVars
    <3>0. /\ c \in running[p][a] /\ running' = [running EXCEPT ![p][a] = @ \ {c}]
          /\ UNCHANGED <<subs, chan, task, held, current, given, reqVars, disturbed, events>>
          /\ UNCHANGED netVars
      BY <1>23, <2>1 DEF EndCallback, Add
    <3>1. inbox' \in [Agents -> SUBSET Messages] /\ dlq' \in [Agents -> SUBSET Messages]
      BY <3>0, <1>a, Constants, TwoPaths, Destinations
    <3>2. /\ expired' \subseteq Messages /\ publishing' \subseteq Messages /\ sent' \subseteq Messages
          /\ disturbed' \subseteq Agents \X {"lapse", "reader", "task"}
          /\ events' \in 0 .. MaxEvents
      BY <3>0, <1>a, Constants, TwoPaths, Destinations
    <3>3. subs' \in [Agents -> SUBSET Callbacks] /\ chan' \in [Callbacks -> ChanStates]
      BY <3>0, <1>a, Constants, TwoPaths, Destinations
    <3>4. task' \in [Paths -> [Agents -> TaskStates]]
      BY <3>0, <1>a, Constants, TwoPaths, Destinations
    <3>5. held' \in [Paths -> [Agents -> SUBSET Messages]]
      BY <3>0, <1>a, Constants, TwoPaths, Destinations
    <3>6. /\ current' \in [Paths -> [Agents -> Messages \cup {None}]]
          /\ running' \in [Paths -> [Agents -> SUBSET Callbacks]]
      BY <3>0, <1>a, Constants, TwoPaths, Destinations
    <3>7. \A q \in Paths, b \in Agents : current'[q][b] = None => running'[q][b] = {}
      BY <3>0, <1>a, Constants, TwoPaths, Destinations
    <3>8. given' \in [Paths -> [Callbacks -> [Messages -> Nat]]]
      BY <3>0, <1>a, Constants, TwoPaths, Destinations
    <3>9. /\ req' \in [Requests -> ReqStates] /\ got' \in [Requests -> SUBSET Messages]
          /\ answer' \in [Requests -> Messages \cup {None}]
      BY <3>0, <1>a, Constants, TwoPaths, Destinations
    <3> QED
      BY <3>1, <3>2, <3>3, <3>4, <3>5, <3>6, <3>7, <3>8, <3>9
  <2>2. CASE current[p][a] \in Requests /\ Add(<<current[p][a], c, p>>)
    <3>0. /\ c \in running[p][a] /\ running' = [running EXCEPT ![p][a] = @ \ {c}]
          /\ UNCHANGED <<subs, chan, task, held, current, given, reqVars, disturbed, events>>
          /\ current[p][a] \in Requests
          /\ inbox' = [inbox EXCEPT ![Sender[current[p][a]]] = @ \cup {<<current[p][a], c, p>>}]
          /\ publishing' = publishing \cup {<<current[p][a], c, p>>}
          /\ sent' = sent \cup {<<current[p][a], c, p>>}
          /\ UNCHANGED <<dlq, expired>>
          /\ <<current[p][a], c, p>> \in Messages /\ <<current[p][a], c, p>> \notin Requests
          /\ Dest(<<current[p][a], c, p>>) = Sender[current[p][a]]
      BY <1>23, <2>2, Replying DEF EndCallback, Add
    <3>1. inbox' \in [Agents -> SUBSET Messages] /\ dlq' \in [Agents -> SUBSET Messages]
      BY ZenonT(60), <3>0, <1>a, Constants, TwoPaths, Destinations
    <3>2. /\ expired' \subseteq Messages /\ publishing' \subseteq Messages /\ sent' \subseteq Messages
          /\ disturbed' \subseteq Agents \X {"lapse", "reader", "task"}
          /\ events' \in 0 .. MaxEvents
      BY <3>0, <1>a, Constants, TwoPaths, Destinations
    <3>3. subs' \in [Agents -> SUBSET Callbacks] /\ chan' \in [Callbacks -> ChanStates]
      BY <3>0, <1>a, Constants, TwoPaths, Destinations
    <3>4. task' \in [Paths -> [Agents -> TaskStates]]
      BY <3>0, <1>a, Constants, TwoPaths, Destinations
    <3>5. held' \in [Paths -> [Agents -> SUBSET Messages]]
      BY <3>0, <1>a, Constants, TwoPaths, Destinations
    <3>6. /\ current' \in [Paths -> [Agents -> Messages \cup {None}]]
          /\ running' \in [Paths -> [Agents -> SUBSET Callbacks]]
      BY <3>0, <1>a, Constants, TwoPaths, Destinations
    <3>7. \A q \in Paths, b \in Agents : current'[q][b] = None => running'[q][b] = {}
      BY <3>0, <1>a, Constants, TwoPaths, Destinations
    <3>8. given' \in [Paths -> [Callbacks -> [Messages -> Nat]]]
      BY <3>0, <1>a, Constants, TwoPaths, Destinations
    <3>9. /\ req' \in [Requests -> ReqStates] /\ got' \in [Requests -> SUBSET Messages]
          /\ answer' \in [Requests -> Messages \cup {None}]
      BY <3>0, <1>a, Constants, TwoPaths, Destinations
    <3> QED
      BY <3>1, <3>2, <3>3, <3>4, <3>5, <3>6, <3>7, <3>8, <3>9
  <2> QED
    BY <1>23, <2>1, <2>2 DEF EndCallback
<1>24. CASE UNCHANGED vars
  BY <1>24, <1>a, Constants, TwoPaths, Destinations DEF vars
<1> QED
  BY <1>1, <1>2, <1>3, <1>4, <1>5, <1>6, <1>7, <1>8, <1>9, <1>10, <1>11,
     <1>12, <1>13, <1>14, <1>15, <1>16, <1>17, <1>18, <1>19, <1>20, <1>21,
     <1>22, <1>23, <1>24
  DEF Next, RequestStep, PollStep, TaskStep
-----------------------------------------------------------------------------
(* Whatever somebody holds was sent to him. *)
LEMMA MessageStep == IInv /\ [Next]_vars => MessageInv'
<1> SUFFICES ASSUME IInv, [Next]_vars PROVE MessageInv'
  OBVIOUS
<1> USE DEF netVars, taskVars, reqVars
<1> USE DEF MessageInv, For
<1>a. MessageInv /\ TypeOK
  BY DEF IInv
<1>b. /\ inbox \in [Agents -> SUBSET Messages]
      /\ publishing \subseteq Messages /\ sent \subseteq Messages
      /\ subs \in [Agents -> SUBSET Callbacks]
      /\ chan \in [Callbacks -> ChanStates]
      /\ task \in [Paths -> [Agents -> TaskStates]]
      /\ held \in [Paths -> [Agents -> SUBSET Messages]]
      /\ current \in [Paths -> [Agents -> Messages \cup {None}]]
      /\ running \in [Paths -> [Agents -> SUBSET Callbacks]]
      /\ \A p \in Paths, a \in Agents : current[p][a] = None => running[p][a] = {}
      /\ given \in [Paths -> [Callbacks -> [Messages -> Nat]]]
      /\ req \in [Requests -> ReqStates]
      /\ got \in [Requests -> SUBSET Messages]
      /\ answer \in [Requests -> Messages \cup {None}]
  BY DEF IInv, TypeOK
<1>1. ASSUME NEW r \in Requests, SendRequest(r) PROVE MessageInv'
  BY <1>1, <1>a, <1>b, Constants, TwoPaths, Destinations
  DEF SendRequest, Add, Count
<1>2. ASSUME NEW r \in Requests, Refuse(r) PROVE MessageInv'
  BY <1>2, <1>a, <1>b, Constants, TwoPaths, Destinations DEF Refuse
<1>3. ASSUME NEW r \in Requests, RequestRead(r) PROVE MessageInv'
  BY <1>3, <1>a, <1>b, Constants, TwoPaths, Destinations
  DEF RequestRead, Batches
<1>4. ASSUME NEW r \in Requests, RequestRemove(r) PROVE MessageInv'
  <2>1. CASE {m \in got[r] \ expired : Answers(m, r)} = {} /\ req' = [req EXCEPT ![r] = "wait"] /\ UNCHANGED answer
    <3>0. /\ req[r] = "remove"
          /\ inbox' = [inbox EXCEPT ![Sender[r]] = @ \ got[r]]
          /\ \E failed \in SUBSET (got[r] \cap expired) :
               dlq' = [dlq EXCEPT ![Sender[r]] = @ \cup ((got[r] \cap expired) \ failed)]
          /\ UNCHANGED <<expired, publishing, sent>>
          /\ got' = [got EXCEPT ![r] = {}]
          /\ disturbed' = disturbed \cup {<<Sender[r], "reader">>}
          /\ UNCHANGED <<taskVars, events>>
          /\ req' = [req EXCEPT ![r] = "wait"]
          /\ answer' = answer
          /\ \A m \in got[r] \ expired : ~ Answers(m, r)
      BY <1>4, <2>1 DEF RequestRemove, TakeOutAndBury, Disturb
    <3> QED
      BY <3>0, <1>a, <1>b, Constants, TwoPaths, Destinations
  <2>2. CASE \E m \in got[r] \ expired : Answers(m, r) /\ req' = [req EXCEPT ![r] = "answered"] /\ answer' = [answer EXCEPT ![r] = m]
    <3>0. /\ req[r] = "remove"
          /\ inbox' = [inbox EXCEPT ![Sender[r]] = @ \ got[r]]
          /\ \E failed \in SUBSET (got[r] \cap expired) :
               dlq' = [dlq EXCEPT ![Sender[r]] = @ \cup ((got[r] \cap expired) \ failed)]
          /\ UNCHANGED <<expired, publishing, sent>>
          /\ got' = [got EXCEPT ![r] = {}]
          /\ disturbed' = disturbed \cup {<<Sender[r], "reader">>}
          /\ UNCHANGED <<taskVars, events>>
          /\ req' = [req EXCEPT ![r] = "answered"]
          /\ \E m \in got[r] \ expired : Answers(m, r) /\ answer' = [answer EXCEPT ![r] = m]
      BY <1>4, <2>2 DEF RequestRemove, TakeOutAndBury, Disturb
    <3> QED
      BY <3>0, <1>a, <1>b, Constants, TwoPaths, Destinations
  <2> QED
    BY <1>4, <2>1, <2>2 DEF RequestRemove
<1>5. ASSUME NEW r \in Requests, RequestTimeout(r) PROVE MessageInv'
  BY <1>5, <1>a, <1>b, Constants, TwoPaths, Destinations DEF RequestTimeout
<1>6. ASSUME NEW r \in Requests, RequestFails(r) PROVE MessageInv'
  BY <1>6, <1>a, <1>b, Constants, TwoPaths, Destinations
  DEF RequestFails, TakeOut, Disturb, Count
<1>7. ASSUME NEW m \in Messages, Publish(m) PROVE MessageInv'
  BY <1>7, <1>a, <1>b, Constants, TwoPaths, Destinations
  DEF Publish, SenderGoesTo
<1>8. ASSUME NEW m \in Messages, PublishFails(m) PROVE MessageInv'
  BY <1>8, <1>a, <1>b, Constants, TwoPaths, Destinations
  DEF PublishFails, SenderGoesTo, Count
<1>9. ASSUME NEW m \in Messages, Expire(m) PROVE MessageInv'
  BY <1>9, <1>a, <1>b, Constants, TwoPaths, Destinations DEF Expire, Count
<1>10. ASSUME NEW c \in Callbacks, OpenChannel(c) PROVE MessageInv'
  BY <1>10, <1>a, <1>b, Constants, TwoPaths, Destinations
  DEF OpenChannel, Subscribe, Count
<1>11. ASSUME NEW c \in Callbacks, ReceiveOnce(c) PROVE MessageInv'
  BY <1>11, <1>a, <1>b, Constants, TwoPaths, Destinations
  DEF ReceiveOnce, Subscribe, Count
<1>12. ASSUME NEW c \in Callbacks, Close(c) PROVE MessageInv'
  BY <1>12, <1>a, <1>b, Constants, TwoPaths, Destinations
  DEF Close, StopTask, EndTask, TakeOut, Disturb, Goto
<1>13. ASSUME NEW c \in Callbacks, StopPoller(c) PROVE MessageInv'
  BY <1>13, <1>a, <1>b, Constants, TwoPaths, Destinations
  DEF StopPoller, StopTask, EndTask, TakeOut, Disturb, Goto
<1>14. ASSUME NEW c \in Callbacks, DropSubscriptions(c) PROVE MessageInv'
  BY <1>14, <1>a, <1>b, Constants, TwoPaths, Destinations DEF DropSubscriptions
<1>15. ASSUME NEW a \in Agents, LapseInbox(a) PROVE MessageInv'
  BY <1>15, <1>a, <1>b, Constants, TwoPaths, Destinations
  DEF LapseInbox, Disturb, Count
<1>16. ASSUME NEW a \in Agents, Listening(a) PROVE MessageInv'
  BY <1>16, <1>a, <1>b, Constants, TwoPaths, Destinations DEF Listening, Goto
<1>17. ASSUME NEW a \in Agents, PollRead(a) PROVE MessageInv'
  BY <1>17, <1>a, <1>b, Constants, TwoPaths, Destinations
  DEF PollRead, Goto, Batches
<1>18. ASSUME NEW a \in Agents, PollRemove(a) PROVE MessageInv'
  BY <1>18, <1>a, <1>b, Constants, TwoPaths, Destinations
  DEF PollRemove, Goto, TakeOutAndBury
<1>19. ASSUME NEW a \in Agents, PollAgain(a) PROVE MessageInv'
  BY <1>19, <1>a, <1>b, Constants, TwoPaths, Destinations DEF PollAgain, Goto
<1>20. ASSUME NEW p \in Paths, NEW a \in Agents, TaskFails(p, a)
       PROVE MessageInv'
  BY <1>20, <1>a, <1>b, Constants, TwoPaths, Destinations
  DEF TaskFails, EndTask, TakeOut, Disturb, Goto, Count
<1>21. ASSUME NEW p \in Paths, NEW a \in Agents, HandOver(p, a)
       PROVE MessageInv'
  <2>0. PICK m \in Messages : Handing(p, a, m)
    BY <1>21, <1>a, HandingOver
  <2>1. CASE subs[a] = {}
    <3>0. /\ m \in held[p][a] /\ current[p][a] = None
          /\ task[p][a] = (IF p = "poll" THEN "hand_over" ELSE "idle")
          /\ held' = [held EXCEPT ![p][a] = @ \ {m}]
          /\ UNCHANGED <<task, current, running, given>>
          /\ UNCHANGED <<netVars, subs, chan, reqVars, disturbed, events>>
      BY <2>0, <2>1 DEF Handing
    <3> QED
      BY <3>0, <1>a, <1>b, Constants, TwoPaths, Destinations DEF Given
  <2>2. CASE subs[a] # {}
    <3>0. /\ m \in held[p][a] /\ current[p][a] = None
          /\ task[p][a] = (IF p = "poll" THEN "hand_over" ELSE "idle")
          /\ held' = [held EXCEPT ![p][a] = @ \ {m}]
          /\ task' = [task EXCEPT ![p][a] = "hand_over"]
          /\ current' = [current EXCEPT ![p][a] = m]
          /\ running' = [running EXCEPT ![p][a] = subs[a]]
          /\ given' = Given(p, a, m)
          /\ UNCHANGED <<netVars, subs, chan, reqVars, disturbed, events>>
      BY <2>0, <2>2 DEF Handing
    <3> QED
      BY <3>0, <1>a, <1>b, Constants, TwoPaths, Destinations DEF Given
  <2> QED
    BY <2>1, <2>2
<1>22. ASSUME NEW p \in Paths, NEW a \in Agents, Gathered(p, a)
       PROVE MessageInv'
  <2>1. CASE p = "poll"
    <3>0. /\ current[p][a] # None /\ running[p][a] = {}
          /\ current' = [current EXCEPT ![p][a] = None]
          /\ task' = task
          /\ UNCHANGED <<netVars, subs, chan, held, running, given, reqVars, disturbed, events>>
      BY <1>22, <2>1 DEF Gathered, Goto
    <3> QED
      BY <3>0, <1>a, <1>b, Constants, TwoPaths, Destinations
  <2>2. CASE p = "pubsub"
    <3>0. /\ current[p][a] # None /\ running[p][a] = {}
          /\ current' = [current EXCEPT ![p][a] = None]
          /\ task' = [task EXCEPT ![p][a] = "idle"]
          /\ UNCHANGED <<netVars, subs, chan, held, running, given, reqVars, disturbed, events>>
      BY <1>22, <2>2 DEF Gathered, Goto
    <3> QED
      BY <3>0, <1>a, <1>b, Constants, TwoPaths, Destinations
  <2> QED
    BY <2>1, <2>2, TwoPaths
<1>23. ASSUME NEW p \in Paths, NEW a \in Agents, NEW c \in Callbacks, EndCallback(p, a, c)
       PROVE MessageInv'
  <2>1. CASE UNCHANGED netVars
    <3>0. /\ c \in running[p][a] /\ running' = [running EXCEPT ![p][a] = @ \ {c}]
          /\ UNCHANGED <<subs, chan, task, held, current, given, reqVars, disturbed, events>>
          /\ UNCHANGED netVars
      BY <1>23, <2>1 DEF EndCallback, Add
    <3> QED
      BY <3>0, <1>a, <1>b, Constants, TwoPaths, Destinations
  <2>2. CASE current[p][a] \in Requests /\ Add(<<current[p][a], c, p>>)
    <3>0. /\ c \in running[p][a] /\ running' = [running EXCEPT ![p][a] = @ \ {c}]
          /\ UNCHANGED <<subs, chan, task, held, current, given, reqVars, disturbed, events>>
          /\ current[p][a] \in Requests
          /\ inbox' = [inbox EXCEPT ![Sender[current[p][a]]] = @ \cup {<<current[p][a], c, p>>}]
          /\ publishing' = publishing \cup {<<current[p][a], c, p>>}
          /\ sent' = sent \cup {<<current[p][a], c, p>>}
          /\ UNCHANGED <<dlq, expired>>
          /\ <<current[p][a], c, p>> \in Messages /\ <<current[p][a], c, p>> \notin Requests
          /\ Dest(<<current[p][a], c, p>>) = Sender[current[p][a]]
      BY <1>23, <2>2, Replying DEF EndCallback, Add
    <3>1. publishing' \subseteq sent'
      BY <3>0, <1>a, <1>b, Constants, Destinations
    <3>2. ASSUME NEW b \in Agents PROVE inbox'[b] \subseteq For(b)'
      <4> DEFINE reply == <<current[p][a], c, p>>
      <4>1. inbox'[b] = IF b = Sender[current[p][a]] THEN inbox[b] \cup {reply} ELSE inbox[b]
        BY <3>0, <1>b, Constants
      <4>2. sent' = sent \cup {reply} /\ Dest(reply) = Sender[current[p][a]]
        BY <3>0
      <4> HIDE DEF reply
      <4> QED
        BY <4>1, <4>2, <1>a
    <3>3. \A q \in Paths, b \in Agents : held'[q][b] \subseteq For(b)'
      BY <3>0, <1>a, <1>b, Constants, Destinations
    <3>4. \A q \in Paths, b \in Agents : current'[q][b] # None => current'[q][b] \in For(b)'
      BY <3>0, <1>a, <1>b, Constants, Destinations
    <3>5. \A r \in Requests : got'[r] \subseteq For(Sender[r])'
      BY <3>0, <1>a, <1>b, Constants, Destinations
    <3>6. \A r \in Requests : req'[r] \in {"new", "refused"} => r \notin sent'
      BY ZenonT(60), <3>0, <1>a, <1>b, Constants, Destinations
    <3>7. \A r \in Requests : r \in publishing' => req'[r] = "sending"
      BY ZenonT(60), <3>0, <1>a, <1>b, Constants, Destinations
    <3>8. \A q \in Paths, d \in Callbacks, m \in Messages : given'[q][d][m] > 0 => m \in sent'
      BY <3>0, <1>a, <1>b, Constants, Destinations
    <3> QED
      BY <3>1, <3>2, <3>3, <3>4, <3>5, <3>6, <3>7, <3>8
  <2> QED
    BY <1>23, <2>1, <2>2 DEF EndCallback
<1>24. CASE UNCHANGED vars
  BY <1>24, <1>a, <1>b, Constants, TwoPaths, Destinations DEF vars
<1> QED
  BY <1>1, <1>2, <1>3, <1>4, <1>5, <1>6, <1>7, <1>8, <1>9, <1>10, <1>11,
     <1>12, <1>13, <1>14, <1>15, <1>16, <1>17, <1>18, <1>19, <1>20, <1>21,
     <1>22, <1>23, <1>24
  DEF Next, RequestStep, PollStep, TaskStep
-----------------------------------------------------------------------------
(* A callback that runs was given its message. *)
LEMMA CallbackStep == IInv /\ [Next]_vars => CallbackInv'
<1> SUFFICES ASSUME IInv, [Next]_vars PROVE CallbackInv'
  OBVIOUS
<1> USE DEF netVars, taskVars, reqVars
<1> USE DEF CallbackInv
<1>a. CallbackInv /\ MessageInv /\ TypeOK
  BY DEF IInv
<1>b. /\ inbox \in [Agents -> SUBSET Messages]
      /\ publishing \subseteq Messages /\ sent \subseteq Messages
      /\ subs \in [Agents -> SUBSET Callbacks]
      /\ chan \in [Callbacks -> ChanStates]
      /\ task \in [Paths -> [Agents -> TaskStates]]
      /\ held \in [Paths -> [Agents -> SUBSET Messages]]
      /\ current \in [Paths -> [Agents -> Messages \cup {None}]]
      /\ running \in [Paths -> [Agents -> SUBSET Callbacks]]
      /\ \A p \in Paths, a \in Agents : current[p][a] = None => running[p][a] = {}
      /\ given \in [Paths -> [Callbacks -> [Messages -> Nat]]]
      /\ req \in [Requests -> ReqStates]
      /\ got \in [Requests -> SUBSET Messages]
      /\ answer \in [Requests -> Messages \cup {None}]
  BY DEF IInv, TypeOK
<1>1. ASSUME NEW r \in Requests, SendRequest(r) PROVE CallbackInv'
  BY <1>1, <1>a, <1>b, Constants, TwoPaths, Destinations
  DEF SendRequest, Add, Count
<1>2. ASSUME NEW r \in Requests, Refuse(r) PROVE CallbackInv'
  BY <1>2, <1>a, <1>b, Constants, TwoPaths, Destinations DEF Refuse
<1>3. ASSUME NEW r \in Requests, RequestRead(r) PROVE CallbackInv'
  BY <1>3, <1>a, <1>b, Constants, TwoPaths, Destinations
  DEF RequestRead, Batches
<1>4. ASSUME NEW r \in Requests, RequestRemove(r) PROVE CallbackInv'
  <2>1. CASE {m \in got[r] \ expired : Answers(m, r)} = {} /\ req' = [req EXCEPT ![r] = "wait"] /\ UNCHANGED answer
    <3>0. /\ req[r] = "remove"
          /\ inbox' = [inbox EXCEPT ![Sender[r]] = @ \ got[r]]
          /\ \E failed \in SUBSET (got[r] \cap expired) :
               dlq' = [dlq EXCEPT ![Sender[r]] = @ \cup ((got[r] \cap expired) \ failed)]
          /\ UNCHANGED <<expired, publishing, sent>>
          /\ got' = [got EXCEPT ![r] = {}]
          /\ disturbed' = disturbed \cup {<<Sender[r], "reader">>}
          /\ UNCHANGED <<taskVars, events>>
          /\ req' = [req EXCEPT ![r] = "wait"]
          /\ answer' = answer
          /\ \A m \in got[r] \ expired : ~ Answers(m, r)
      BY <1>4, <2>1 DEF RequestRemove, TakeOutAndBury, Disturb
    <3> QED
      BY <3>0, <1>a, <1>b, Constants, TwoPaths, Destinations
  <2>2. CASE \E m \in got[r] \ expired : Answers(m, r) /\ req' = [req EXCEPT ![r] = "answered"] /\ answer' = [answer EXCEPT ![r] = m]
    <3>0. /\ req[r] = "remove"
          /\ inbox' = [inbox EXCEPT ![Sender[r]] = @ \ got[r]]
          /\ \E failed \in SUBSET (got[r] \cap expired) :
               dlq' = [dlq EXCEPT ![Sender[r]] = @ \cup ((got[r] \cap expired) \ failed)]
          /\ UNCHANGED <<expired, publishing, sent>>
          /\ got' = [got EXCEPT ![r] = {}]
          /\ disturbed' = disturbed \cup {<<Sender[r], "reader">>}
          /\ UNCHANGED <<taskVars, events>>
          /\ req' = [req EXCEPT ![r] = "answered"]
          /\ \E m \in got[r] \ expired : Answers(m, r) /\ answer' = [answer EXCEPT ![r] = m]
      BY <1>4, <2>2 DEF RequestRemove, TakeOutAndBury, Disturb
    <3> QED
      BY <3>0, <1>a, <1>b, Constants, TwoPaths, Destinations
  <2> QED
    BY <1>4, <2>1, <2>2 DEF RequestRemove
<1>5. ASSUME NEW r \in Requests, RequestTimeout(r) PROVE CallbackInv'
  BY <1>5, <1>a, <1>b, Constants, TwoPaths, Destinations DEF RequestTimeout
<1>6. ASSUME NEW r \in Requests, RequestFails(r) PROVE CallbackInv'
  BY <1>6, <1>a, <1>b, Constants, TwoPaths, Destinations
  DEF RequestFails, TakeOut, Disturb, Count
<1>7. ASSUME NEW m \in Messages, Publish(m) PROVE CallbackInv'
  BY <1>7, <1>a, <1>b, Constants, TwoPaths, Destinations
  DEF Publish, SenderGoesTo
<1>8. ASSUME NEW m \in Messages, PublishFails(m) PROVE CallbackInv'
  BY <1>8, <1>a, <1>b, Constants, TwoPaths, Destinations
  DEF PublishFails, SenderGoesTo, Count
<1>9. ASSUME NEW m \in Messages, Expire(m) PROVE CallbackInv'
  BY <1>9, <1>a, <1>b, Constants, TwoPaths, Destinations DEF Expire, Count
<1>10. ASSUME NEW c \in Callbacks, OpenChannel(c) PROVE CallbackInv'
  BY <1>10, <1>a, <1>b, Constants, TwoPaths, Destinations
  DEF OpenChannel, Subscribe, Count
<1>11. ASSUME NEW c \in Callbacks, ReceiveOnce(c) PROVE CallbackInv'
  BY <1>11, <1>a, <1>b, Constants, TwoPaths, Destinations
  DEF ReceiveOnce, Subscribe, Count
<1>12. ASSUME NEW c \in Callbacks, Close(c) PROVE CallbackInv'
  BY <1>12, <1>a, <1>b, Constants, TwoPaths, Destinations
  DEF Close, StopTask, EndTask, TakeOut, Disturb, Goto
<1>13. ASSUME NEW c \in Callbacks, StopPoller(c) PROVE CallbackInv'
  BY <1>13, <1>a, <1>b, Constants, TwoPaths, Destinations
  DEF StopPoller, StopTask, EndTask, TakeOut, Disturb, Goto
<1>14. ASSUME NEW c \in Callbacks, DropSubscriptions(c) PROVE CallbackInv'
  BY <1>14, <1>a, <1>b, Constants, TwoPaths, Destinations DEF DropSubscriptions
<1>15. ASSUME NEW a \in Agents, LapseInbox(a) PROVE CallbackInv'
  BY <1>15, <1>a, <1>b, Constants, TwoPaths, Destinations
  DEF LapseInbox, Disturb, Count
<1>16. ASSUME NEW a \in Agents, Listening(a) PROVE CallbackInv'
  BY <1>16, <1>a, <1>b, Constants, TwoPaths, Destinations DEF Listening, Goto
<1>17. ASSUME NEW a \in Agents, PollRead(a) PROVE CallbackInv'
  BY <1>17, <1>a, <1>b, Constants, TwoPaths, Destinations
  DEF PollRead, Goto, Batches
<1>18. ASSUME NEW a \in Agents, PollRemove(a) PROVE CallbackInv'
  BY <1>18, <1>a, <1>b, Constants, TwoPaths, Destinations
  DEF PollRemove, Goto, TakeOutAndBury
<1>19. ASSUME NEW a \in Agents, PollAgain(a) PROVE CallbackInv'
  BY <1>19, <1>a, <1>b, Constants, TwoPaths, Destinations DEF PollAgain, Goto
<1>20. ASSUME NEW p \in Paths, NEW a \in Agents, TaskFails(p, a)
       PROVE CallbackInv'
  BY <1>20, <1>a, <1>b, Constants, TwoPaths, Destinations
  DEF TaskFails, EndTask, TakeOut, Disturb, Goto, Count
<1>21. ASSUME NEW p \in Paths, NEW a \in Agents, HandOver(p, a)
       PROVE CallbackInv'
  <2>0. PICK m \in Messages : Handing(p, a, m)
    BY <1>21, <1>a, HandingOver
  <2>1. CASE subs[a] = {}
    <3>0. /\ m \in held[p][a] /\ current[p][a] = None
          /\ task[p][a] = (IF p = "poll" THEN "hand_over" ELSE "idle")
          /\ held' = [held EXCEPT ![p][a] = @ \ {m}]
          /\ UNCHANGED <<task, current, running, given>>
          /\ UNCHANGED <<netVars, subs, chan, reqVars, disturbed, events>>
      BY <2>0, <2>1 DEF Handing
    <3> QED
      BY <3>0, <1>a, <1>b, Constants, TwoPaths, Destinations DEF Given
  <2>2. CASE subs[a] # {}
    <3>0. /\ m \in held[p][a] /\ current[p][a] = None
          /\ task[p][a] = (IF p = "poll" THEN "hand_over" ELSE "idle")
          /\ held' = [held EXCEPT ![p][a] = @ \ {m}]
          /\ task' = [task EXCEPT ![p][a] = "hand_over"]
          /\ current' = [current EXCEPT ![p][a] = m]
          /\ running' = [running EXCEPT ![p][a] = subs[a]]
          /\ given' = Given(p, a, m)
          /\ UNCHANGED <<netVars, subs, chan, reqVars, disturbed, events>>
      BY <2>0, <2>2 DEF Handing
    <3> QED
      BY SMTT(30), <3>0, <1>a, <1>b, Constants, TwoPaths, Destinations
      DEF Given
  <2> QED
    BY <2>1, <2>2
<1>22. ASSUME NEW p \in Paths, NEW a \in Agents, Gathered(p, a)
       PROVE CallbackInv'
  <2>1. CASE p = "poll"
    <3>0. /\ current[p][a] # None /\ running[p][a] = {}
          /\ current' = [current EXCEPT ![p][a] = None]
          /\ task' = task
          /\ UNCHANGED <<netVars, subs, chan, held, running, given, reqVars, disturbed, events>>
      BY <1>22, <2>1 DEF Gathered, Goto
    <3> QED
      BY <3>0, <1>a, <1>b, Constants, TwoPaths, Destinations
  <2>2. CASE p = "pubsub"
    <3>0. /\ current[p][a] # None /\ running[p][a] = {}
          /\ current' = [current EXCEPT ![p][a] = None]
          /\ task' = [task EXCEPT ![p][a] = "idle"]
          /\ UNCHANGED <<netVars, subs, chan, held, running, given, reqVars, disturbed, events>>
      BY <1>22, <2>2 DEF Gathered, Goto
    <3> QED
      BY <3>0, <1>a, <1>b, Constants, TwoPaths, Destinations
  <2> QED
    BY <2>1, <2>2, TwoPaths
<1>23. ASSUME NEW p \in Paths, NEW a \in Agents, NEW c \in Callbacks, EndCallback(p, a, c)
       PROVE CallbackInv'
  <2>1. CASE UNCHANGED netVars
    <3>0. /\ c \in running[p][a] /\ running' = [running EXCEPT ![p][a] = @ \ {c}]
          /\ UNCHANGED <<subs, chan, task, held, current, given, reqVars, disturbed, events>>
          /\ UNCHANGED netVars
      BY <1>23, <2>1 DEF EndCallback, Add
    <3> QED
      BY <3>0, <1>a, <1>b, Constants, TwoPaths, Destinations
  <2>2. CASE current[p][a] \in Requests /\ Add(<<current[p][a], c, p>>)
    <3>0. /\ c \in running[p][a] /\ running' = [running EXCEPT ![p][a] = @ \ {c}]
          /\ UNCHANGED <<subs, chan, task, held, current, given, reqVars, disturbed, events>>
          /\ current[p][a] \in Requests
          /\ inbox' = [inbox EXCEPT ![Sender[current[p][a]]] = @ \cup {<<current[p][a], c, p>>}]
          /\ publishing' = publishing \cup {<<current[p][a], c, p>>}
          /\ sent' = sent \cup {<<current[p][a], c, p>>}
          /\ UNCHANGED <<dlq, expired>>
          /\ <<current[p][a], c, p>> \in Messages /\ <<current[p][a], c, p>> \notin Requests
          /\ Dest(<<current[p][a], c, p>>) = Sender[current[p][a]]
      BY <1>23, <2>2, Replying DEF EndCallback, Add
    <3> QED
      BY <3>0, <1>a, <1>b, Constants, TwoPaths, Destinations
  <2> QED
    BY <1>23, <2>1, <2>2 DEF EndCallback
<1>24. CASE UNCHANGED vars
  BY <1>24, <1>a, <1>b, Constants, TwoPaths, Destinations DEF vars
<1> QED
  BY <1>1, <1>2, <1>3, <1>4, <1>5, <1>6, <1>7, <1>8, <1>9, <1>10, <1>11,
     <1>12, <1>13, <1>14, <1>15, <1>16, <1>17, <1>18, <1>19, <1>20, <1>21,
     <1>22, <1>23, <1>24
  DEF Next, RequestStep, PollStep, TaskStep
-----------------------------------------------------------------------------
(* A reply is sent once, by a callback that was given the request. *)
LEMMA ReplyStep == IInv /\ [Next]_vars => ReplyInv'
<1> SUFFICES ASSUME IInv, [Next]_vars PROVE ReplyInv'
  OBVIOUS
<1> USE DEF netVars, taskVars, reqVars
<1> USE DEF ReplyInv
<1>a. ReplyInv /\ CallbackInv /\ MessageInv /\ OnceInv /\ TypeOK
  BY DEF IInv
<1>b. /\ inbox \in [Agents -> SUBSET Messages]
      /\ publishing \subseteq Messages /\ sent \subseteq Messages
      /\ subs \in [Agents -> SUBSET Callbacks]
      /\ chan \in [Callbacks -> ChanStates]
      /\ task \in [Paths -> [Agents -> TaskStates]]
      /\ held \in [Paths -> [Agents -> SUBSET Messages]]
      /\ current \in [Paths -> [Agents -> Messages \cup {None}]]
      /\ running \in [Paths -> [Agents -> SUBSET Callbacks]]
      /\ \A p \in Paths, a \in Agents : current[p][a] = None => running[p][a] = {}
      /\ given \in [Paths -> [Callbacks -> [Messages -> Nat]]]
      /\ req \in [Requests -> ReqStates]
      /\ got \in [Requests -> SUBSET Messages]
      /\ answer \in [Requests -> Messages \cup {None}]
  BY DEF IInv, TypeOK
<1>1. ASSUME NEW r \in Requests, SendRequest(r) PROVE ReplyInv'
  <2>1. /\ sent' = sent \cup {r}
        /\ UNCHANGED <<given, current, running, answer>>
    BY <1>1 DEF SendRequest, Add
  <2>2. \A q, d, p : <<q, d, p>> \in Replies => <<q, d, p>> # r
    BY TransportAssumption
  <2>3. \A q \in Requests, d \in Callbacks, p \in Paths :
          <<q, d, p>> \in sent' => <<q, d, p>> \in sent
    BY <2>1, <2>2 DEF Replies
  <2>4. \A p \in Paths, b \in Agents : running[p][b] \subseteq Callbacks
    BY <1>b
  <2> QED
    BY <2>1, <2>3, <2>4, <1>a
<1>2. ASSUME NEW r \in Requests, Refuse(r) PROVE ReplyInv'
  BY <1>2, <1>a, <1>b, Constants, TwoPaths, Destinations DEF Refuse
<1>3. ASSUME NEW r \in Requests, RequestRead(r) PROVE ReplyInv'
  BY <1>3, <1>a, <1>b, Constants, TwoPaths, Destinations
  DEF RequestRead, Batches
<1>4. ASSUME NEW r \in Requests, RequestRemove(r) PROVE ReplyInv'
  <2>1. CASE {m \in got[r] \ expired : Answers(m, r)} = {} /\ req' = [req EXCEPT ![r] = "wait"] /\ UNCHANGED answer
    <3>0. /\ req[r] = "remove"
          /\ inbox' = [inbox EXCEPT ![Sender[r]] = @ \ got[r]]
          /\ \E failed \in SUBSET (got[r] \cap expired) :
               dlq' = [dlq EXCEPT ![Sender[r]] = @ \cup ((got[r] \cap expired) \ failed)]
          /\ UNCHANGED <<expired, publishing, sent>>
          /\ got' = [got EXCEPT ![r] = {}]
          /\ disturbed' = disturbed \cup {<<Sender[r], "reader">>}
          /\ UNCHANGED <<taskVars, events>>
          /\ req' = [req EXCEPT ![r] = "wait"]
          /\ answer' = answer
          /\ \A m \in got[r] \ expired : ~ Answers(m, r)
      BY <1>4, <2>1 DEF RequestRemove, TakeOutAndBury, Disturb
    <3> QED
      BY <3>0, <1>a, <1>b, Constants, TwoPaths, Destinations
      DEF MessageInv, For
  <2>2. CASE \E m \in got[r] \ expired : Answers(m, r) /\ req' = [req EXCEPT ![r] = "answered"] /\ answer' = [answer EXCEPT ![r] = m]
    <3>0. /\ req[r] = "remove"
          /\ inbox' = [inbox EXCEPT ![Sender[r]] = @ \ got[r]]
          /\ \E failed \in SUBSET (got[r] \cap expired) :
               dlq' = [dlq EXCEPT ![Sender[r]] = @ \cup ((got[r] \cap expired) \ failed)]
          /\ UNCHANGED <<expired, publishing, sent>>
          /\ got' = [got EXCEPT ![r] = {}]
          /\ disturbed' = disturbed \cup {<<Sender[r], "reader">>}
          /\ UNCHANGED <<taskVars, events>>
          /\ req' = [req EXCEPT ![r] = "answered"]
          /\ \E m \in got[r] \ expired : Answers(m, r) /\ answer' = [answer EXCEPT ![r] = m]
      BY <1>4, <2>2 DEF RequestRemove, TakeOutAndBury, Disturb
    <3> QED
      BY <3>0, <1>a, <1>b, Constants, TwoPaths, Destinations
      DEF MessageInv, For
  <2> QED
    BY <1>4, <2>1, <2>2 DEF RequestRemove
<1>5. ASSUME NEW r \in Requests, RequestTimeout(r) PROVE ReplyInv'
  BY <1>5, <1>a, <1>b, Constants, TwoPaths, Destinations DEF RequestTimeout
<1>6. ASSUME NEW r \in Requests, RequestFails(r) PROVE ReplyInv'
  BY <1>6, <1>a, <1>b, Constants, TwoPaths, Destinations
  DEF RequestFails, TakeOut, Disturb, Count
<1>7. ASSUME NEW m \in Messages, Publish(m) PROVE ReplyInv'
  BY <1>7, <1>a, <1>b, Constants, TwoPaths, Destinations
  DEF Publish, SenderGoesTo
<1>8. ASSUME NEW m \in Messages, PublishFails(m) PROVE ReplyInv'
  BY <1>8, <1>a, <1>b, Constants, TwoPaths, Destinations
  DEF PublishFails, SenderGoesTo, Count
<1>9. ASSUME NEW m \in Messages, Expire(m) PROVE ReplyInv'
  BY <1>9, <1>a, <1>b, Constants, TwoPaths, Destinations DEF Expire, Count
<1>10. ASSUME NEW c \in Callbacks, OpenChannel(c) PROVE ReplyInv'
  BY <1>10, <1>a, <1>b, Constants, TwoPaths, Destinations
  DEF OpenChannel, Subscribe, Count
<1>11. ASSUME NEW c \in Callbacks, ReceiveOnce(c) PROVE ReplyInv'
  BY <1>11, <1>a, <1>b, Constants, TwoPaths, Destinations
  DEF ReceiveOnce, Subscribe, Count
<1>12. ASSUME NEW c \in Callbacks, Close(c) PROVE ReplyInv'
  BY <1>12, <1>a, <1>b, Constants, TwoPaths, Destinations
  DEF Close, StopTask, EndTask, TakeOut, Disturb, Goto
<1>13. ASSUME NEW c \in Callbacks, StopPoller(c) PROVE ReplyInv'
  BY <1>13, <1>a, <1>b, Constants, TwoPaths, Destinations
  DEF StopPoller, StopTask, EndTask, TakeOut, Disturb, Goto
<1>14. ASSUME NEW c \in Callbacks, DropSubscriptions(c) PROVE ReplyInv'
  BY <1>14, <1>a, <1>b, Constants, TwoPaths, Destinations DEF DropSubscriptions
<1>15. ASSUME NEW a \in Agents, LapseInbox(a) PROVE ReplyInv'
  BY <1>15, <1>a, <1>b, Constants, TwoPaths, Destinations
  DEF LapseInbox, Disturb, Count
<1>16. ASSUME NEW a \in Agents, Listening(a) PROVE ReplyInv'
  BY <1>16, <1>a, <1>b, Constants, TwoPaths, Destinations DEF Listening, Goto
<1>17. ASSUME NEW a \in Agents, PollRead(a) PROVE ReplyInv'
  BY <1>17, <1>a, <1>b, Constants, TwoPaths, Destinations
  DEF PollRead, Goto, Batches
<1>18. ASSUME NEW a \in Agents, PollRemove(a) PROVE ReplyInv'
  BY <1>18, <1>a, <1>b, Constants, TwoPaths, Destinations
  DEF PollRemove, Goto, TakeOutAndBury
<1>19. ASSUME NEW a \in Agents, PollAgain(a) PROVE ReplyInv'
  BY <1>19, <1>a, <1>b, Constants, TwoPaths, Destinations DEF PollAgain, Goto
<1>20. ASSUME NEW p \in Paths, NEW a \in Agents, TaskFails(p, a)
       PROVE ReplyInv'
  BY <1>20, <1>a, <1>b, Constants, TwoPaths, Destinations
  DEF TaskFails, EndTask, TakeOut, Disturb, Goto, Count
<1>21. ASSUME NEW p \in Paths, NEW a \in Agents, HandOver(p, a) PROVE ReplyInv'
  <2>0. PICK m \in Messages : Handing(p, a, m)
    BY <1>21, <1>a, HandingOver
  <2>1. CASE subs[a] = {}
    <3>0. /\ m \in held[p][a] /\ current[p][a] = None
          /\ task[p][a] = (IF p = "poll" THEN "hand_over" ELSE "idle")
          /\ held' = [held EXCEPT ![p][a] = @ \ {m}]
          /\ UNCHANGED <<task, current, running, given>>
          /\ UNCHANGED <<netVars, subs, chan, reqVars, disturbed, events>>
      BY <2>0, <2>1 DEF Handing
    <3> QED
      BY <3>0, <1>a, <1>b, Constants, TwoPaths, Destinations
      DEF MessageInv, CallbackInv, OnceInv, For, Given, Given
  <2>2. CASE subs[a] # {}
    <3>0. /\ m \in held[p][a] /\ current[p][a] = None
          /\ task[p][a] = (IF p = "poll" THEN "hand_over" ELSE "idle")
          /\ held' = [held EXCEPT ![p][a] = @ \ {m}]
          /\ task' = [task EXCEPT ![p][a] = "hand_over"]
          /\ current' = [current EXCEPT ![p][a] = m]
          /\ running' = [running EXCEPT ![p][a] = subs[a]]
          /\ given' = Given(p, a, m)
          /\ UNCHANGED <<netVars, subs, chan, reqVars, disturbed, events>>
      BY <2>0, <2>2 DEF Handing
    <3>1. \A q \in Paths, d \in Callbacks, n \in Messages :
            /\ given'[q][d][n] \in Nat /\ given[q][d][n] \in Nat
            /\ given'[q][d][n] >= given[q][d][n]
      BY <3>0, <1>b DEF Given
    <3>2. \A r \in Requests, d \in Callbacks, q \in Paths :
            <<r, d, q>> \in sent' => given'[q][d][r] > 0 /\ Owner[d] = Recipient[r]
      BY <3>0, <3>1, <1>a, <1>b, Constants
    <3>3. Dest(m) = a /\ m \in held[p][Dest(m)]
      BY <3>0, <1>a, <1>b DEF MessageInv, For
    <3>4. \A d \in Callbacks : given[p][d][m] = 0
      BY <3>0, <3>3, <1>a, <1>b, TwoPaths DEF OnceInv
    <3>5. \A d \in subs[a] : m \in Requests => <<m, d, p>> \notin sent
      BY <3>4, <1>a, <1>b
    <3>6. ASSUME NEW q \in Paths, NEW b \in Agents, NEW d \in running'[q][b],
                 current'[q][b] \in Requests
          PROVE  <<current'[q][b], d, q>> \notin sent'
      <4>1. CASE q = p /\ b = a
        BY <3>0, <3>5, <3>6, <4>1, <1>b
      <4>2. CASE ~ (q = p /\ b = a)
        BY <3>0, <3>6, <4>2, <1>a, <1>b
      <4> QED
        BY <4>1, <4>2
    <3> QED
      BY <3>0, <3>2, <3>6, <1>a
  <2> QED
    BY <2>1, <2>2
<1>22. ASSUME NEW p \in Paths, NEW a \in Agents, Gathered(p, a) PROVE ReplyInv'
  <2>1. CASE p = "poll"
    <3>0. /\ current[p][a] # None /\ running[p][a] = {}
          /\ current' = [current EXCEPT ![p][a] = None]
          /\ task' = task
          /\ UNCHANGED <<netVars, subs, chan, held, running, given, reqVars, disturbed, events>>
      BY <1>22, <2>1 DEF Gathered, Goto
    <3> QED
      BY <3>0, <1>a, <1>b, Constants, TwoPaths, Destinations
  <2>2. CASE p = "pubsub"
    <3>0. /\ current[p][a] # None /\ running[p][a] = {}
          /\ current' = [current EXCEPT ![p][a] = None]
          /\ task' = [task EXCEPT ![p][a] = "idle"]
          /\ UNCHANGED <<netVars, subs, chan, held, running, given, reqVars, disturbed, events>>
      BY <1>22, <2>2 DEF Gathered, Goto
    <3> QED
      BY <3>0, <1>a, <1>b, Constants, TwoPaths, Destinations
  <2> QED
    BY <2>1, <2>2, TwoPaths
<1>23. ASSUME NEW p \in Paths, NEW a \in Agents, NEW c \in Callbacks, EndCallback(p, a, c)
       PROVE ReplyInv'
  <2>1. CASE UNCHANGED netVars
    <3>0. /\ c \in running[p][a] /\ running' = [running EXCEPT ![p][a] = @ \ {c}]
          /\ UNCHANGED <<subs, chan, task, held, current, given, reqVars, disturbed, events>>
          /\ UNCHANGED netVars
      BY <1>23, <2>1 DEF EndCallback, Add
    <3> QED
      BY <3>0, <1>a, <1>b, Constants, TwoPaths, Destinations
      DEF MessageInv, CallbackInv, OnceInv, For
  <2>2. CASE current[p][a] \in Requests /\ Add(<<current[p][a], c, p>>)
    <3>0. /\ c \in running[p][a] /\ running' = [running EXCEPT ![p][a] = @ \ {c}]
          /\ UNCHANGED <<subs, chan, task, held, current, given, reqVars, disturbed, events>>
          /\ current[p][a] \in Requests
          /\ inbox' = [inbox EXCEPT ![Sender[current[p][a]]] = @ \cup {<<current[p][a], c, p>>}]
          /\ publishing' = publishing \cup {<<current[p][a], c, p>>}
          /\ sent' = sent \cup {<<current[p][a], c, p>>}
          /\ UNCHANGED <<dlq, expired>>
          /\ <<current[p][a], c, p>> \in Messages /\ <<current[p][a], c, p>> \notin Requests
          /\ Dest(<<current[p][a], c, p>>) = Sender[current[p][a]]
      BY <1>23, <2>2, Replying DEF EndCallback, Add
    <3> QED
      BY <3>0, <1>a, <1>b, Constants, TwoPaths, Destinations
      DEF MessageInv, CallbackInv, OnceInv, For
  <2> QED
    BY <1>23, <2>1, <2>2 DEF EndCallback
<1>24. CASE UNCHANGED vars
  BY <1>24, <1>a, <1>b, Constants, TwoPaths, Destinations DEF vars
<1> QED
  BY <1>1, <1>2, <1>3, <1>4, <1>5, <1>6, <1>7, <1>8, <1>9, <1>10, <1>11,
     <1>12, <1>13, <1>14, <1>15, <1>16, <1>17, <1>18, <1>19, <1>20, <1>21,
     <1>22, <1>23, <1>24
  DEF Next, RequestStep, PollStep, TaskStep
-----------------------------------------------------------------------------
(* What a path has handed over is nowhere left on it. *)
LEMMA OnceStep == IInv /\ [Next]_vars => OnceInv'
<1> SUFFICES ASSUME IInv, [Next]_vars PROVE OnceInv'
  OBVIOUS
<1> USE DEF netVars, taskVars, reqVars
<1> USE DEF OnceInv, OncePerPath
<1>a. OnceInv /\ MessageInv /\ ReplyInv /\ TypeOK
  BY DEF IInv
<1>b. /\ inbox \in [Agents -> SUBSET Messages]
      /\ publishing \subseteq Messages /\ sent \subseteq Messages
      /\ subs \in [Agents -> SUBSET Callbacks]
      /\ chan \in [Callbacks -> ChanStates]
      /\ task \in [Paths -> [Agents -> TaskStates]]
      /\ held \in [Paths -> [Agents -> SUBSET Messages]]
      /\ current \in [Paths -> [Agents -> Messages \cup {None}]]
      /\ running \in [Paths -> [Agents -> SUBSET Callbacks]]
      /\ \A p \in Paths, a \in Agents : current[p][a] = None => running[p][a] = {}
      /\ given \in [Paths -> [Callbacks -> [Messages -> Nat]]]
      /\ req \in [Requests -> ReqStates]
      /\ got \in [Requests -> SUBSET Messages]
      /\ answer \in [Requests -> Messages \cup {None}]
  BY DEF IInv, TypeOK
<1>1. ASSUME NEW r \in Requests, SendRequest(r) PROVE OnceInv'
  BY <1>1, <1>a, <1>b, Constants, TwoPaths, Destinations
  DEF SendRequest, Add, Count, MessageInv, For
<1>2. ASSUME NEW r \in Requests, Refuse(r) PROVE OnceInv'
  BY <1>2, <1>a, <1>b, Constants, TwoPaths, Destinations DEF Refuse
<1>3. ASSUME NEW r \in Requests, RequestRead(r) PROVE OnceInv'
  BY <1>3, <1>a, <1>b, Constants, TwoPaths, Destinations
  DEF RequestRead, Batches
<1>4. ASSUME NEW r \in Requests, RequestRemove(r) PROVE OnceInv'
  <2>1. CASE {m \in got[r] \ expired : Answers(m, r)} = {} /\ req' = [req EXCEPT ![r] = "wait"] /\ UNCHANGED answer
    <3>0. /\ req[r] = "remove"
          /\ inbox' = [inbox EXCEPT ![Sender[r]] = @ \ got[r]]
          /\ \E failed \in SUBSET (got[r] \cap expired) :
               dlq' = [dlq EXCEPT ![Sender[r]] = @ \cup ((got[r] \cap expired) \ failed)]
          /\ UNCHANGED <<expired, publishing, sent>>
          /\ got' = [got EXCEPT ![r] = {}]
          /\ disturbed' = disturbed \cup {<<Sender[r], "reader">>}
          /\ UNCHANGED <<taskVars, events>>
          /\ req' = [req EXCEPT ![r] = "wait"]
          /\ answer' = answer
          /\ \A m \in got[r] \ expired : ~ Answers(m, r)
      BY <1>4, <2>1 DEF RequestRemove, TakeOutAndBury, Disturb
    <3> QED
      BY <3>0, <1>a, <1>b, Constants, TwoPaths, Destinations
  <2>2. CASE \E m \in got[r] \ expired : Answers(m, r) /\ req' = [req EXCEPT ![r] = "answered"] /\ answer' = [answer EXCEPT ![r] = m]
    <3>0. /\ req[r] = "remove"
          /\ inbox' = [inbox EXCEPT ![Sender[r]] = @ \ got[r]]
          /\ \E failed \in SUBSET (got[r] \cap expired) :
               dlq' = [dlq EXCEPT ![Sender[r]] = @ \cup ((got[r] \cap expired) \ failed)]
          /\ UNCHANGED <<expired, publishing, sent>>
          /\ got' = [got EXCEPT ![r] = {}]
          /\ disturbed' = disturbed \cup {<<Sender[r], "reader">>}
          /\ UNCHANGED <<taskVars, events>>
          /\ req' = [req EXCEPT ![r] = "answered"]
          /\ \E m \in got[r] \ expired : Answers(m, r) /\ answer' = [answer EXCEPT ![r] = m]
      BY <1>4, <2>2 DEF RequestRemove, TakeOutAndBury, Disturb
    <3> QED
      BY <3>0, <1>a, <1>b, Constants, TwoPaths, Destinations
  <2> QED
    BY <1>4, <2>1, <2>2 DEF RequestRemove
<1>5. ASSUME NEW r \in Requests, RequestTimeout(r) PROVE OnceInv'
  BY <1>5, <1>a, <1>b, Constants, TwoPaths, Destinations DEF RequestTimeout
<1>6. ASSUME NEW r \in Requests, RequestFails(r) PROVE OnceInv'
  BY <1>6, <1>a, <1>b, Constants, TwoPaths, Destinations
  DEF RequestFails, TakeOut, Disturb, Count
<1>7. ASSUME NEW m \in Messages, Publish(m) PROVE OnceInv'
  BY <1>7, <1>a, <1>b, Constants, TwoPaths, Destinations
  DEF Publish, SenderGoesTo, MessageInv, For
<1>8. ASSUME NEW m \in Messages, PublishFails(m) PROVE OnceInv'
  BY <1>8, <1>a, <1>b, Constants, TwoPaths, Destinations
  DEF PublishFails, SenderGoesTo, Count
<1>9. ASSUME NEW m \in Messages, Expire(m) PROVE OnceInv'
  BY <1>9, <1>a, <1>b, Constants, TwoPaths, Destinations DEF Expire, Count
<1>10. ASSUME NEW c \in Callbacks, OpenChannel(c) PROVE OnceInv'
  BY <1>10, <1>a, <1>b, Constants, TwoPaths, Destinations
  DEF OpenChannel, Subscribe, Count
<1>11. ASSUME NEW c \in Callbacks, ReceiveOnce(c) PROVE OnceInv'
  BY <1>11, <1>a, <1>b, Constants, TwoPaths, Destinations
  DEF ReceiveOnce, Subscribe, Count
<1>12. ASSUME NEW c \in Callbacks, Close(c) PROVE OnceInv'
  BY <1>12, <1>a, <1>b, Constants, TwoPaths, Destinations
  DEF Close, StopTask, EndTask, TakeOut, Disturb, Goto
<1>13. ASSUME NEW c \in Callbacks, StopPoller(c) PROVE OnceInv'
  BY <1>13, <1>a, <1>b, Constants, TwoPaths, Destinations
  DEF StopPoller, StopTask, EndTask, TakeOut, Disturb, Goto
<1>14. ASSUME NEW c \in Callbacks, DropSubscriptions(c) PROVE OnceInv'
  BY <1>14, <1>a, <1>b, Constants, TwoPaths, Destinations DEF DropSubscriptions
<1>15. ASSUME NEW a \in Agents, LapseInbox(a) PROVE OnceInv'
  BY <1>15, <1>a, <1>b, Constants, TwoPaths, Destinations
  DEF LapseInbox, Disturb, Count
<1>16. ASSUME NEW a \in Agents, Listening(a) PROVE OnceInv'
  BY <1>16, <1>a, <1>b, Constants, TwoPaths, Destinations DEF Listening, Goto
<1>17. ASSUME NEW a \in Agents, PollRead(a) PROVE OnceInv'
  BY <1>17, <1>a, <1>b, Constants, TwoPaths, Destinations
  DEF PollRead, Goto, Batches, MessageInv, For
<1>18. ASSUME NEW a \in Agents, PollRemove(a) PROVE OnceInv'
  BY <1>18, <1>a, <1>b, Constants, TwoPaths, Destinations
  DEF PollRemove, Goto, TakeOutAndBury
<1>19. ASSUME NEW a \in Agents, PollAgain(a) PROVE OnceInv'
  BY <1>19, <1>a, <1>b, Constants, TwoPaths, Destinations DEF PollAgain, Goto
<1>20. ASSUME NEW p \in Paths, NEW a \in Agents, TaskFails(p, a) PROVE OnceInv'
  BY <1>20, <1>a, <1>b, Constants, TwoPaths, Destinations
  DEF TaskFails, EndTask, TakeOut, Disturb, Goto, Count
<1>21. ASSUME NEW p \in Paths, NEW a \in Agents, HandOver(p, a) PROVE OnceInv'
  <2>0. PICK m \in Messages : Handing(p, a, m)
    BY <1>21, <1>a, HandingOver
  <2>1. CASE subs[a] = {}
    <3>0. /\ m \in held[p][a] /\ current[p][a] = None
          /\ task[p][a] = (IF p = "poll" THEN "hand_over" ELSE "idle")
          /\ held' = [held EXCEPT ![p][a] = @ \ {m}]
          /\ UNCHANGED <<task, current, running, given>>
          /\ UNCHANGED <<netVars, subs, chan, reqVars, disturbed, events>>
      BY <2>0, <2>1 DEF Handing
    <3> QED
      BY <3>0, <1>a, <1>b, Constants, TwoPaths, Destinations
      DEF MessageInv, For, Given
  <2>2. CASE subs[a] # {}
    <3>0. /\ m \in held[p][a] /\ current[p][a] = None
          /\ task[p][a] = (IF p = "poll" THEN "hand_over" ELSE "idle")
          /\ held' = [held EXCEPT ![p][a] = @ \ {m}]
          /\ task' = [task EXCEPT ![p][a] = "hand_over"]
          /\ current' = [current EXCEPT ![p][a] = m]
          /\ running' = [running EXCEPT ![p][a] = subs[a]]
          /\ given' = Given(p, a, m)
          /\ UNCHANGED <<netVars, subs, chan, reqVars, disturbed, events>>
      BY <2>0, <2>2 DEF Handing
    <3> QED
      BY <3>0, <1>a, <1>b, Constants, TwoPaths, Destinations
      DEF MessageInv, For, Given
  <2> QED
    BY <2>1, <2>2
<1>22. ASSUME NEW p \in Paths, NEW a \in Agents, Gathered(p, a) PROVE OnceInv'
  <2>1. UNCHANGED <<inbox, publishing, sent, held, given>>
    BY <1>22 DEF Gathered
  <2>2. task'["poll"] = task["poll"]
    <3>1. CASE p = "poll"
      BY <1>22, <3>1 DEF Gathered
    <3>2. CASE p = "pubsub"
      <4>1. task' = [task EXCEPT ![p][a] = "idle"]
        BY <1>22, <3>2 DEF Gathered, Goto
      <4>2. "poll" # p
        BY <3>2
      <4> QED
        BY <4>1, <4>2, <1>b, TwoPaths
    <3> QED
      BY <3>1, <3>2, TwoPaths
  <2> QED
    BY <2>1, <2>2, <1>a
<1>23. ASSUME NEW p \in Paths, NEW a \in Agents, NEW c \in Callbacks, EndCallback(p, a, c)
       PROVE OnceInv'
  <2>1. CASE UNCHANGED netVars
    <3>0. /\ c \in running[p][a] /\ running' = [running EXCEPT ![p][a] = @ \ {c}]
          /\ UNCHANGED <<subs, chan, task, held, current, given, reqVars, disturbed, events>>
          /\ UNCHANGED netVars
      BY <1>23, <2>1 DEF EndCallback, Add
    <3> QED
      BY <3>0, <1>a, <1>b, Constants, TwoPaths, Destinations
      DEF MessageInv, ReplyInv, For
  <2>2. CASE current[p][a] \in Requests /\ Add(<<current[p][a], c, p>>)
    <3>0. /\ c \in running[p][a] /\ running' = [running EXCEPT ![p][a] = @ \ {c}]
          /\ UNCHANGED <<subs, chan, task, held, current, given, reqVars, disturbed, events>>
          /\ current[p][a] \in Requests
          /\ inbox' = [inbox EXCEPT ![Sender[current[p][a]]] = @ \cup {<<current[p][a], c, p>>}]
          /\ publishing' = publishing \cup {<<current[p][a], c, p>>}
          /\ sent' = sent \cup {<<current[p][a], c, p>>}
          /\ UNCHANGED <<dlq, expired>>
          /\ <<current[p][a], c, p>> \in Messages /\ <<current[p][a], c, p>> \notin Requests
          /\ Dest(<<current[p][a], c, p>>) = Sender[current[p][a]]
      BY <1>23, <2>2, Replying DEF EndCallback, Add
    <3> QED
      BY <3>0, <1>a, <1>b, Constants, TwoPaths, Destinations
      DEF MessageInv, ReplyInv, For
  <2> QED
    BY <1>23, <2>1, <2>2 DEF EndCallback
<1>24. CASE UNCHANGED vars
  BY <1>24, <1>a, <1>b, Constants, TwoPaths, Destinations DEF vars
<1> QED
  BY <1>1, <1>2, <1>3, <1>4, <1>5, <1>6, <1>7, <1>8, <1>9, <1>10, <1>11,
     <1>12, <1>13, <1>14, <1>15, <1>16, <1>17, <1>18, <1>19, <1>20, <1>21,
     <1>22, <1>23, <1>24
  DEF Next, RequestStep, PollStep, TaskStep
-----------------------------------------------------------------------------
(* What a channel does may end its part in keeping something alive. *)
LEMMA ChannelsKept ==
  ASSUME NEW c \in Callbacks, \A d \in Callbacks : d # c => chan'[d] = chan[d],
         NEW b \in Agents, NEW S,
         Owner[c] = b /\ chan[c] \in S => chan'[c] \in S,
         SomeChannel(b, S)
  PROVE  SomeChannel(b, S)'
<1>1. PICK d \in Callbacks : Owner[d] = b /\ chan[d] \in S
  BY DEF SomeChannel
<1>2. chan'[d] \in S
  BY <1>1
<1> QED
  BY <1>1, <1>2 DEF SomeChannel

LEMMA ChannelInvKept ==
  ASSUME ChannelInv, subs' = subs, chan' = chan,
         \A p \in Paths, a \in Agents : task'[p][a] # "none" => task[p][a] # "none",
         disturbed \subseteq disturbed'
  PROVE  ChannelInv'
<1> SUFFICES ASSUME NEW a \in Agents
             PROVE  (KeptSubscriptions(a) /\ KeptListener(a) /\ KeptPoller(a) /\ Undisturbed(a))'
  BY DEF ChannelInv
<1>1. KeptSubscriptions(a) /\ KeptListener(a) /\ KeptPoller(a) /\ Undisturbed(a)
  BY DEF ChannelInv
<1>2. KeptSubscriptions(a)'
  BY <1>1 DEF KeptSubscriptions, SomeChannel
<1>3. KeptListener(a)'
  BY <1>1, TwoPaths DEF KeptListener, SomeChannel
<1>4. KeptPoller(a)'
  BY <1>1, TwoPaths DEF KeptPoller, SomeChannel
<1>5. Undisturbed(a)'
  BY <1>1 DEF Undisturbed
<1> QED
  BY <1>2, <1>3, <1>4, <1>5

-----------------------------------------------------------------------------
(* Who keeps a subscription, a listener or a poller alive. *)
LEMMA ChannelStep == IInv /\ [Next]_vars => ChannelInv'
<1> SUFFICES ASSUME IInv, [Next]_vars PROVE ChannelInv'
  OBVIOUS
<1> USE DEF netVars, taskVars, reqVars
<1>a. ChannelInv /\ CallbackInv /\ TypeOK
  BY DEF IInv
<1>b. /\ inbox \in [Agents -> SUBSET Messages]
      /\ publishing \subseteq Messages /\ sent \subseteq Messages
      /\ subs \in [Agents -> SUBSET Callbacks]
      /\ chan \in [Callbacks -> ChanStates]
      /\ task \in [Paths -> [Agents -> TaskStates]]
      /\ held \in [Paths -> [Agents -> SUBSET Messages]]
      /\ current \in [Paths -> [Agents -> Messages \cup {None}]]
      /\ running \in [Paths -> [Agents -> SUBSET Callbacks]]
      /\ \A p \in Paths, a \in Agents : current[p][a] = None => running[p][a] = {}
      /\ given \in [Paths -> [Callbacks -> [Messages -> Nat]]]
      /\ req \in [Requests -> ReqStates]
      /\ got \in [Requests -> SUBSET Messages]
      /\ answer \in [Requests -> Messages \cup {None}]
  BY DEF IInv, TypeOK
<1>1. ASSUME NEW r \in Requests, SendRequest(r) PROVE ChannelInv'
  <2>1. /\ subs' = subs /\ chan' = chan /\ disturbed \subseteq disturbed'
        /\ \A q \in Paths, b \in Agents : task'[q][b] # "none" => task[q][b] # "none"
    BY <1>1, <1>b DEF SendRequest, Add, Count, TaskStates
  <2> QED
    BY <2>1, <1>a, ChannelInvKept
<1>2. ASSUME NEW r \in Requests, Refuse(r) PROVE ChannelInv'
  <2>1. /\ subs' = subs /\ chan' = chan /\ disturbed \subseteq disturbed'
        /\ \A q \in Paths, b \in Agents : task'[q][b] # "none" => task[q][b] # "none"
    BY <1>2, <1>b DEF Refuse, TaskStates
  <2> QED
    BY <2>1, <1>a, ChannelInvKept
<1>3. ASSUME NEW r \in Requests, RequestRead(r) PROVE ChannelInv'
  <2>1. /\ subs' = subs /\ chan' = chan /\ disturbed \subseteq disturbed'
        /\ \A q \in Paths, b \in Agents : task'[q][b] # "none" => task[q][b] # "none"
    BY <1>3, <1>b DEF RequestRead, TaskStates
  <2> QED
    BY <2>1, <1>a, ChannelInvKept
<1>4. ASSUME NEW r \in Requests, RequestRemove(r) PROVE ChannelInv'
  <2>1. /\ subs' = subs /\ chan' = chan /\ disturbed \subseteq disturbed'
        /\ \A q \in Paths, b \in Agents : task'[q][b] # "none" => task[q][b] # "none"
    BY <1>4, <1>b DEF RequestRemove, TakeOutAndBury, Disturb, TaskStates
  <2> QED
    BY <2>1, <1>a, ChannelInvKept
<1>5. ASSUME NEW r \in Requests, RequestTimeout(r) PROVE ChannelInv'
  <2>1. /\ subs' = subs /\ chan' = chan /\ disturbed \subseteq disturbed'
        /\ \A q \in Paths, b \in Agents : task'[q][b] # "none" => task[q][b] # "none"
    BY <1>5, <1>b DEF RequestTimeout, TaskStates
  <2> QED
    BY <2>1, <1>a, ChannelInvKept
<1>6. ASSUME NEW r \in Requests, RequestFails(r) PROVE ChannelInv'
  <2>1. /\ subs' = subs /\ chan' = chan /\ disturbed \subseteq disturbed'
        /\ \A q \in Paths, b \in Agents : task'[q][b] # "none" => task[q][b] # "none"
    BY <1>6, <1>b DEF RequestFails, TakeOut, Disturb, Count, TaskStates
  <2> QED
    BY <2>1, <1>a, ChannelInvKept
<1>7. ASSUME NEW m \in Messages, Publish(m) PROVE ChannelInv'
  <2>1. /\ subs' = subs /\ chan' = chan /\ disturbed \subseteq disturbed'
        /\ \A q \in Paths, b \in Agents : task'[q][b] # "none" => task[q][b] # "none"
    BY <1>7, <1>b DEF Publish, SenderGoesTo, TaskStates
  <2> QED
    BY <2>1, <1>a, ChannelInvKept
<1>8. ASSUME NEW m \in Messages, PublishFails(m) PROVE ChannelInv'
  <2>1. /\ subs' = subs /\ chan' = chan /\ disturbed \subseteq disturbed'
        /\ \A q \in Paths, b \in Agents : task'[q][b] # "none" => task[q][b] # "none"
    BY <1>8, <1>b DEF PublishFails, SenderGoesTo, Count, TaskStates
  <2> QED
    BY <2>1, <1>a, ChannelInvKept
<1>9. ASSUME NEW m \in Messages, Expire(m) PROVE ChannelInv'
  <2>1. /\ subs' = subs /\ chan' = chan /\ disturbed \subseteq disturbed'
        /\ \A q \in Paths, b \in Agents : task'[q][b] # "none" => task[q][b] # "none"
    BY <1>9, <1>b DEF Expire, Count, TaskStates
  <2> QED
    BY <2>1, <1>a, ChannelInvKept
<1>10. ASSUME NEW c \in Callbacks, OpenChannel(c) PROVE ChannelInv'
  <2> DEFINE a == Owner[c]
  <2>1. a \in Agents
    BY Constants
  <2>2. chan[c] = "new" /\ chan' = [chan EXCEPT ![c] = "open"]
    BY <1>10 DEF OpenChannel
  <2>3. /\ subs' = [subs EXCEPT ![a] = @ \cup {c}] /\ disturbed' = disturbed
        /\ \A q \in Paths, b \in Agents : b # a => task'[q][b] = task[q][b]
    BY <1>10, <1>b, Constants, TwoPaths DEF OpenChannel, Subscribe
  <2> SUFFICES ASSUME NEW b \in Agents
               PROVE  (KeptSubscriptions(b) /\ KeptListener(b) /\ KeptPoller(b) /\ Undisturbed(b))'
    BY DEF ChannelInv
  <2>4. KeptSubscriptions(b) /\ KeptListener(b) /\ KeptPoller(b) /\ Undisturbed(b)
    BY <1>a DEF ChannelInv
  <2>5. \A d \in Callbacks : d # c => chan'[d] = chan[d]
    BY <2>2, <1>b
  <2>6. KeptSubscriptions(b)'
    <3>1. CASE b = a
      <4>1. chan'[c] \in (ChanStates \ {"new", "closed"})
        BY <2>2, <1>b DEF ChanStates
      <4> QED
        BY <3>1, <4>1 DEF KeptSubscriptions, SomeChannel
    <3>2. CASE b # a
      <4> SUFFICES ASSUME subs'[b] # {} PROVE SomeChannel(b, (ChanStates \ {"new", "closed"}))'
        BY DEF KeptSubscriptions
      <4>1. SomeChannel(b, (ChanStates \ {"new", "closed"}))
        BY <3>2, <2>3, <2>4, <2>1, <1>b, TwoPaths DEF KeptSubscriptions
      <4>2. Owner[c] = b /\ chan[c] \in (ChanStates \ {"new", "closed"}) => chan'[c] \in (ChanStates \ {"new", "closed"})
        BY <3>2
      <4> QED
        BY <2>5, <4>1, <4>2, ChannelsKept
    <3> QED
      BY <3>1, <3>2
  <2>7. KeptListener(b)'
    <3>1. CASE b = a
      <4>1. chan'[c] \in {"open", "once"}
        BY <2>2, <1>b DEF ChanStates
      <4> QED
        BY <3>1, <4>1 DEF KeptListener, SomeChannel
    <3>2. CASE b # a
      <4> SUFFICES ASSUME task'["pubsub"][b] # "none" PROVE SomeChannel(b, {"open", "once"})'
        BY DEF KeptListener
      <4>1. SomeChannel(b, {"open", "once"})
        BY <3>2, <2>3, <2>4, <2>1, <1>b, TwoPaths DEF KeptListener
      <4>2. Owner[c] = b /\ chan[c] \in {"open", "once"} => chan'[c] \in {"open", "once"}
        BY <3>2
      <4> QED
        BY <2>5, <4>1, <4>2, ChannelsKept
    <3> QED
      BY <3>1, <3>2
  <2>8. KeptPoller(b)'
    <3>1. CASE b = a
      <4>1. chan'[c] \in {"open", "stop_poller", "raised"}
        BY <2>2, <1>b DEF ChanStates
      <4> QED
        BY <3>1, <4>1 DEF KeptPoller, SomeChannel
    <3>2. CASE b # a
      <4> SUFFICES ASSUME task'["poll"][b] # "none" PROVE SomeChannel(b, {"open", "stop_poller", "raised"})'
        BY DEF KeptPoller
      <4>1. SomeChannel(b, {"open", "stop_poller", "raised"})
        BY <3>2, <2>3, <2>4, <2>1, <1>b, TwoPaths DEF KeptPoller
      <4>2. Owner[c] = b /\ chan[c] \in {"open", "stop_poller", "raised"} => chan'[c] \in {"open", "stop_poller", "raised"}
        BY <3>2
      <4> QED
        BY <2>5, <4>1, <4>2, ChannelsKept
    <3> QED
      BY <3>1, <3>2
  <2>9. Undisturbed(b)'
    BY <2>2, <2>3, <2>4, <2>5, <2>1, <1>b DEF Undisturbed
  <2> QED
    BY <2>6, <2>7, <2>8, <2>9
<1>11. ASSUME NEW c \in Callbacks, ReceiveOnce(c) PROVE ChannelInv'
  <2> DEFINE a == Owner[c]
  <2>1. a \in Agents
    BY Constants
  <2>2. chan[c] = "new" /\ chan' = [chan EXCEPT ![c] = "once"]
    BY <1>11 DEF ReceiveOnce
  <2>3. /\ subs' = [subs EXCEPT ![a] = @ \cup {c}] /\ disturbed' = disturbed
        /\ \A q \in Paths, b \in Agents : b # a \/ q = "poll" => task'[q][b] = task[q][b]
    BY <1>11, <1>b, Constants, TwoPaths DEF ReceiveOnce, Subscribe
  <2> SUFFICES ASSUME NEW b \in Agents
               PROVE  (KeptSubscriptions(b) /\ KeptListener(b) /\ KeptPoller(b) /\ Undisturbed(b))'
    BY DEF ChannelInv
  <2>4. KeptSubscriptions(b) /\ KeptListener(b) /\ KeptPoller(b) /\ Undisturbed(b)
    BY <1>a DEF ChannelInv
  <2>5. \A d \in Callbacks : d # c => chan'[d] = chan[d]
    BY <2>2, <1>b
  <2>6. KeptSubscriptions(b)'
    <3>1. CASE b = a
      <4>1. chan'[c] \in (ChanStates \ {"new", "closed"})
        BY <2>2, <1>b DEF ChanStates
      <4> QED
        BY <3>1, <4>1 DEF KeptSubscriptions, SomeChannel
    <3>2. CASE b # a
      <4> SUFFICES ASSUME subs'[b] # {} PROVE SomeChannel(b, (ChanStates \ {"new", "closed"}))'
        BY DEF KeptSubscriptions
      <4>1. SomeChannel(b, (ChanStates \ {"new", "closed"}))
        BY <3>2, <2>3, <2>4, <2>1, <1>b, TwoPaths DEF KeptSubscriptions
      <4>2. Owner[c] = b /\ chan[c] \in (ChanStates \ {"new", "closed"}) => chan'[c] \in (ChanStates \ {"new", "closed"})
        BY <3>2
      <4> QED
        BY <2>5, <4>1, <4>2, ChannelsKept
    <3> QED
      BY <3>1, <3>2
  <2>7. KeptListener(b)'
    <3>1. CASE b = a
      <4>1. chan'[c] \in {"open", "once"}
        BY <2>2, <1>b DEF ChanStates
      <4> QED
        BY <3>1, <4>1 DEF KeptListener, SomeChannel
    <3>2. CASE b # a
      <4> SUFFICES ASSUME task'["pubsub"][b] # "none" PROVE SomeChannel(b, {"open", "once"})'
        BY DEF KeptListener
      <4>1. SomeChannel(b, {"open", "once"})
        BY <3>2, <2>3, <2>4, <2>1, <1>b, TwoPaths DEF KeptListener
      <4>2. Owner[c] = b /\ chan[c] \in {"open", "once"} => chan'[c] \in {"open", "once"}
        BY <3>2
      <4> QED
        BY <2>5, <4>1, <4>2, ChannelsKept
    <3> QED
      BY <3>1, <3>2
  <2>8. KeptPoller(b)'
    <3> SUFFICES ASSUME task'["poll"][b] # "none" PROVE SomeChannel(b, {"open", "stop_poller", "raised"})'
      BY DEF KeptPoller
    <3>1. SomeChannel(b, {"open", "stop_poller", "raised"})
      BY <2>2, <2>3, <1>b, <2>1, TwoPaths, <2>4 DEF KeptPoller
    <3>2. Owner[c] = b /\ chan[c] \in {"open", "stop_poller", "raised"} => chan'[c] \in {"open", "stop_poller", "raised"}
      BY <2>2, <2>3, <1>b DEF ChanStates
    <3> QED
      BY <2>5, <3>1, <3>2, ChannelsKept
  <2>9. Undisturbed(b)'
    BY <2>2, <2>3, <2>4, <2>5, <2>1, <1>b DEF Undisturbed
  <2> QED
    BY <2>6, <2>7, <2>8, <2>9
<1>12. ASSUME NEW c \in Callbacks, Close(c) PROVE ChannelInv'
  <2> DEFINE a == Owner[c]
  <2>1. a \in Agents
    BY Constants
  <2>2. /\ chan[c] \in {"open", "raised"}
        /\ chan' = [chan EXCEPT ![c] = IF task["pubsub"][a] = "dead" THEN "raised" ELSE "stop_poller"]
    BY <1>12 DEF Close, StopTask
  <2>3. /\ task' = [task EXCEPT !["pubsub"][a] = "none"]
        /\ disturbed' = disturbed \cup {<<a, "task">>}
        /\ subs' = subs
    BY <1>12 DEF Close, StopTask, EndTask, Goto, Disturb
  <2> SUFFICES ASSUME NEW b \in Agents
               PROVE  (KeptSubscriptions(b) /\ KeptListener(b) /\ KeptPoller(b) /\ Undisturbed(b))'
    BY DEF ChannelInv
  <2>4. KeptSubscriptions(b) /\ KeptListener(b) /\ KeptPoller(b) /\ Undisturbed(b)
    BY <1>a DEF ChannelInv
  <2>5. \A d \in Callbacks : d # c => chan'[d] = chan[d]
    BY <2>2, <1>b
  <2>6. KeptSubscriptions(b)'
    <3> SUFFICES ASSUME subs'[b] # {} PROVE SomeChannel(b, (ChanStates \ {"new", "closed"}))'
      BY DEF KeptSubscriptions
    <3>1. SomeChannel(b, (ChanStates \ {"new", "closed"}))
      BY <2>2, <2>3, <1>b, <2>1, TwoPaths, <2>4 DEF KeptSubscriptions
    <3>2. Owner[c] = b /\ chan[c] \in (ChanStates \ {"new", "closed"}) => chan'[c] \in (ChanStates \ {"new", "closed"})
      BY <2>2, <2>3, <1>b DEF ChanStates
    <3> QED
      BY <2>5, <3>1, <3>2, ChannelsKept
  <2>7. KeptListener(b)'
    <3> SUFFICES ASSUME task'["pubsub"][b] # "none" PROVE SomeChannel(b, {"open", "once"})'
      BY DEF KeptListener
    <3>1. SomeChannel(b, {"open", "once"})
      BY <2>2, <2>3, <1>b, <2>1, TwoPaths, <2>4 DEF KeptListener
    <3>2. Owner[c] = b /\ chan[c] \in {"open", "once"} => chan'[c] \in {"open", "once"}
      BY <2>1, TwoPaths, <2>2, <2>3, <1>b DEF ChanStates
    <3> QED
      BY <2>5, <3>1, <3>2, ChannelsKept
  <2>8. KeptPoller(b)'
    <3> SUFFICES ASSUME task'["poll"][b] # "none" PROVE SomeChannel(b, {"open", "stop_poller", "raised"})'
      BY DEF KeptPoller
    <3>1. SomeChannel(b, {"open", "stop_poller", "raised"})
      BY <2>2, <2>3, <1>b, <2>1, TwoPaths, <2>4 DEF KeptPoller
    <3>2. Owner[c] = b /\ chan[c] \in {"open", "stop_poller", "raised"} => chan'[c] \in {"open", "stop_poller", "raised"}
      BY <2>2, <2>3, <1>b DEF ChanStates
    <3> QED
      BY <2>5, <3>1, <3>2, ChannelsKept
  <2>9. Undisturbed(b)'
    BY <2>2, <2>3, <2>4, <2>5, <2>1, <1>b DEF Undisturbed
  <2> QED
    BY <2>6, <2>7, <2>8, <2>9
<1>13. ASSUME NEW c \in Callbacks, StopPoller(c) PROVE ChannelInv'
  <2> DEFINE a == Owner[c]
  <2>1. a \in Agents
    BY Constants
  <2>2. /\ chan[c] \in {"stop_poller"}
        /\ chan' = [chan EXCEPT ![c] = IF task["poll"][a] = "dead" THEN "raised" ELSE "drop_subs"]
    BY <1>13 DEF StopPoller, StopTask
  <2>3. /\ task' = [task EXCEPT !["poll"][a] = "none"]
        /\ disturbed' = disturbed \cup {<<a, "task">>}
        /\ subs' = subs
    BY <1>13 DEF StopPoller, StopTask, EndTask, Goto, Disturb
  <2> SUFFICES ASSUME NEW b \in Agents
               PROVE  (KeptSubscriptions(b) /\ KeptListener(b) /\ KeptPoller(b) /\ Undisturbed(b))'
    BY DEF ChannelInv
  <2>4. KeptSubscriptions(b) /\ KeptListener(b) /\ KeptPoller(b) /\ Undisturbed(b)
    BY <1>a DEF ChannelInv
  <2>5. \A d \in Callbacks : d # c => chan'[d] = chan[d]
    BY <2>2, <1>b
  <2>6. KeptSubscriptions(b)'
    <3> SUFFICES ASSUME subs'[b] # {} PROVE SomeChannel(b, (ChanStates \ {"new", "closed"}))'
      BY DEF KeptSubscriptions
    <3>1. SomeChannel(b, (ChanStates \ {"new", "closed"}))
      BY <2>2, <2>3, <1>b, <2>1, TwoPaths, <2>4 DEF KeptSubscriptions
    <3>2. Owner[c] = b /\ chan[c] \in (ChanStates \ {"new", "closed"}) => chan'[c] \in (ChanStates \ {"new", "closed"})
      BY <2>2, <2>3, <1>b DEF ChanStates
    <3> QED
      BY <2>5, <3>1, <3>2, ChannelsKept
  <2>7. KeptListener(b)'
    <3> SUFFICES ASSUME task'["pubsub"][b] # "none" PROVE SomeChannel(b, {"open", "once"})'
      BY DEF KeptListener
    <3>1. SomeChannel(b, {"open", "once"})
      BY <2>2, <2>3, <1>b, <2>1, TwoPaths, <2>4 DEF KeptListener
    <3>2. Owner[c] = b /\ chan[c] \in {"open", "once"} => chan'[c] \in {"open", "once"}
      BY <2>2, <2>3, <1>b DEF ChanStates
    <3> QED
      BY <2>5, <3>1, <3>2, ChannelsKept
  <2>8. KeptPoller(b)'
    <3> SUFFICES ASSUME task'["poll"][b] # "none" PROVE SomeChannel(b, {"open", "stop_poller", "raised"})'
      BY DEF KeptPoller
    <3>1. SomeChannel(b, {"open", "stop_poller", "raised"})
      BY <2>2, <2>3, <1>b, <2>1, TwoPaths, <2>4 DEF KeptPoller
    <3>2. Owner[c] = b /\ chan[c] \in {"open", "stop_poller", "raised"} => chan'[c] \in {"open", "stop_poller", "raised"}
      BY <2>1, TwoPaths, <2>2, <2>3, <1>b DEF ChanStates
    <3> QED
      BY <2>5, <3>1, <3>2, ChannelsKept
  <2>9. Undisturbed(b)'
    BY <2>2, <2>3, <2>4, <2>5, <2>1, <1>b DEF Undisturbed
  <2> QED
    BY <2>6, <2>7, <2>8, <2>9
<1>14. ASSUME NEW c \in Callbacks, DropSubscriptions(c) PROVE ChannelInv'
  <2> DEFINE a == Owner[c]
  <2>1. a \in Agents
    BY Constants
  <2>2. chan[c] = "drop_subs" /\ chan' = [chan EXCEPT ![c] = "closed"]
    BY <1>14 DEF DropSubscriptions
  <2>3. subs' = [subs EXCEPT ![a] = {}] /\ UNCHANGED <<task, disturbed>>
    BY <1>14 DEF DropSubscriptions
  <2> SUFFICES ASSUME NEW b \in Agents
               PROVE  (KeptSubscriptions(b) /\ KeptListener(b) /\ KeptPoller(b) /\ Undisturbed(b))'
    BY DEF ChannelInv
  <2>4. KeptSubscriptions(b) /\ KeptListener(b) /\ KeptPoller(b) /\ Undisturbed(b)
    BY <1>a DEF ChannelInv
  <2>5. \A d \in Callbacks : d # c => chan'[d] = chan[d]
    BY <2>2, <1>b
  <2>6. KeptSubscriptions(b)'
    <3> SUFFICES ASSUME subs'[b] # {} PROVE SomeChannel(b, (ChanStates \ {"new", "closed"}))'
      BY DEF KeptSubscriptions
    <3>1. SomeChannel(b, (ChanStates \ {"new", "closed"}))
      BY <2>2, <2>3, <1>b, <2>1, TwoPaths, <2>4 DEF KeptSubscriptions
    <3>2. Owner[c] = b /\ chan[c] \in (ChanStates \ {"new", "closed"}) => chan'[c] \in (ChanStates \ {"new", "closed"})
      BY <2>2, <2>3, <1>b DEF ChanStates
    <3> QED
      BY <2>5, <3>1, <3>2, ChannelsKept
  <2>7. KeptListener(b)'
    <3> SUFFICES ASSUME task'["pubsub"][b] # "none" PROVE SomeChannel(b, {"open", "once"})'
      BY DEF KeptListener
    <3>1. SomeChannel(b, {"open", "once"})
      BY <2>2, <2>3, <1>b, <2>1, TwoPaths, <2>4 DEF KeptListener
    <3>2. Owner[c] = b /\ chan[c] \in {"open", "once"} => chan'[c] \in {"open", "once"}
      BY <2>2, <2>3, <1>b DEF ChanStates
    <3> QED
      BY <2>5, <3>1, <3>2, ChannelsKept
  <2>8. KeptPoller(b)'
    <3> SUFFICES ASSUME task'["poll"][b] # "none" PROVE SomeChannel(b, {"open", "stop_poller", "raised"})'
      BY DEF KeptPoller
    <3>1. SomeChannel(b, {"open", "stop_poller", "raised"})
      BY <2>2, <2>3, <1>b, <2>1, TwoPaths, <2>4 DEF KeptPoller
    <3>2. Owner[c] = b /\ chan[c] \in {"open", "stop_poller", "raised"} => chan'[c] \in {"open", "stop_poller", "raised"}
      BY <2>2, <2>3, <1>b DEF ChanStates
    <3> QED
      BY <2>5, <3>1, <3>2, ChannelsKept
  <2>9. Undisturbed(b)'
    BY <2>2, <2>3, <2>4, <2>5, <2>1, <1>b DEF Undisturbed
  <2> QED
    BY <2>6, <2>7, <2>8, <2>9
<1>15. ASSUME NEW a \in Agents, LapseInbox(a) PROVE ChannelInv'
  <2>1. /\ subs' = subs /\ chan' = chan /\ disturbed \subseteq disturbed'
        /\ \A q \in Paths, b \in Agents : task'[q][b] # "none" => task[q][b] # "none"
    BY <1>15, <1>b DEF LapseInbox, Disturb, Count, TaskStates
  <2> QED
    BY <2>1, <1>a, ChannelInvKept
<1>16. ASSUME NEW a \in Agents, Listening(a) PROVE ChannelInv'
  <2>1. /\ subs' = subs /\ chan' = chan /\ disturbed \subseteq disturbed'
        /\ \A q \in Paths, b \in Agents : task'[q][b] # "none" => task[q][b] # "none"
    BY <1>16, <1>b DEF Listening, Goto, TaskStates
  <2> QED
    BY <2>1, <1>a, ChannelInvKept
<1>17. ASSUME NEW a \in Agents, PollRead(a) PROVE ChannelInv'
  <2>1. /\ subs' = subs /\ chan' = chan /\ disturbed \subseteq disturbed'
        /\ \A q \in Paths, b \in Agents : task'[q][b] # "none" => task[q][b] # "none"
    BY <1>17, <1>b DEF PollRead, Goto, TaskStates
  <2> QED
    BY <2>1, <1>a, ChannelInvKept
<1>18. ASSUME NEW a \in Agents, PollRemove(a) PROVE ChannelInv'
  <2>1. /\ subs' = subs /\ chan' = chan /\ disturbed \subseteq disturbed'
        /\ \A q \in Paths, b \in Agents : task'[q][b] # "none" => task[q][b] # "none"
    BY <1>18, <1>b DEF PollRemove, Goto, TakeOutAndBury, TaskStates
  <2> QED
    BY <2>1, <1>a, ChannelInvKept
<1>19. ASSUME NEW a \in Agents, PollAgain(a) PROVE ChannelInv'
  <2>1. /\ subs' = subs /\ chan' = chan /\ disturbed \subseteq disturbed'
        /\ \A q \in Paths, b \in Agents : task'[q][b] # "none" => task[q][b] # "none"
    BY <1>19, <1>b DEF PollAgain, Goto, TaskStates
  <2> QED
    BY <2>1, <1>a, ChannelInvKept
<1>20. ASSUME NEW p \in Paths, NEW a \in Agents, TaskFails(p, a)
       PROVE ChannelInv'
  <2>1. /\ subs' = subs /\ chan' = chan /\ disturbed \subseteq disturbed'
        /\ \A q \in Paths, b \in Agents : task'[q][b] # "none" => task[q][b] # "none"
    BY <1>20, <1>b
    DEF TaskFails, EndTask, TakeOut, Disturb, Goto, Count, TaskStates
  <2> QED
    BY <2>1, <1>a, ChannelInvKept
<1>21. ASSUME NEW p \in Paths, NEW a \in Agents, HandOver(p, a)
       PROVE ChannelInv'
  <2>1. PICK m \in Messages : Handing(p, a, m)
    BY <1>21, <1>a, HandingOver
  <2>2. CASE subs[a] = {}
    <3>1. UNCHANGED <<subs, chan, task, disturbed>>
      BY <2>1, <2>2 DEF Handing
    <3> QED
      BY <3>1, <1>a, ChannelInvKept
  <2>3. CASE subs[a] # {}
    <3>1. /\ UNCHANGED <<subs, chan, disturbed>>
          /\ task' = [task EXCEPT ![p][a] = "hand_over"]
          /\ task[p][a] # "none"
      BY <2>1, <2>3 DEF Handing
    <3>2. \A q \in Paths, b \in Agents : task'[q][b] # "none" => task[q][b] # "none"
      BY <3>1, <1>b
    <3> QED
      BY <3>1, <3>2, <1>a, ChannelInvKept
  <2> QED
    BY <2>2, <2>3
<1>22. ASSUME NEW p \in Paths, NEW a \in Agents, Gathered(p, a)
       PROVE ChannelInv'
  <2>1. UNCHANGED <<subs, chan, disturbed>>
    BY <1>22 DEF Gathered
  <2>2. /\ task' = task \/ task' = [task EXCEPT ![p][a] = "idle"]
        /\ task[p][a] # "none"
    BY <1>22, <1>a DEF Gathered, Goto, CallbackInv
  <2>3. ASSUME NEW q \in Paths, NEW b \in Agents, task'[q][b] # "none"
        PROVE  task[q][b] # "none"
    <3>1. CASE task' = task
      BY <2>3, <3>1
    <3>2. CASE task' = [task EXCEPT ![p][a] = "idle"]
      BY <2>2, <2>3, <3>2, <1>b
    <3> QED
      BY <2>2, <3>1, <3>2
  <2> QED
    BY <2>1, <2>3, <1>a, ChannelInvKept
<1>23. ASSUME NEW p \in Paths, NEW a \in Agents, NEW c \in Callbacks, EndCallback(p, a, c)
       PROVE ChannelInv'
  <2>1. /\ subs' = subs /\ chan' = chan /\ disturbed \subseteq disturbed'
        /\ \A q \in Paths, b \in Agents : task'[q][b] # "none" => task[q][b] # "none"
    BY <1>23, <1>b DEF EndCallback, Add, TaskStates
  <2> QED
    BY <2>1, <1>a, ChannelInvKept
<1>24. CASE UNCHANGED vars
  BY <1>24, <1>a, ChannelInvKept DEF vars
<1> QED
  BY <1>1, <1>2, <1>3, <1>4, <1>5, <1>6, <1>7, <1>8, <1>9, <1>10, <1>11,
     <1>12, <1>13, <1>14, <1>15, <1>16, <1>17, <1>18, <1>19, <1>20, <1>21,
     <1>22, <1>23, <1>24
  DEF Next, RequestStep, PollStep, TaskStep
-----------------------------------------------------------------------------
(* Undisturbed, nothing is lost. *)
LEMMA LostStep == IInv /\ [Next]_vars => NothingLost'
<1> SUFFICES ASSUME IInv, [Next]_vars PROVE NothingLost'
  OBVIOUS
<1> USE DEF netVars, taskVars, reqVars
<1> USE DEF NothingLost
<1>a. NothingLost /\ OnceInv /\ MessageInv /\ ChannelInv /\ TypeOK
  BY DEF IInv
<1>b. /\ inbox \in [Agents -> SUBSET Messages]
      /\ publishing \subseteq Messages /\ sent \subseteq Messages
      /\ subs \in [Agents -> SUBSET Callbacks]
      /\ chan \in [Callbacks -> ChanStates]
      /\ task \in [Paths -> [Agents -> TaskStates]]
      /\ held \in [Paths -> [Agents -> SUBSET Messages]]
      /\ current \in [Paths -> [Agents -> Messages \cup {None}]]
      /\ running \in [Paths -> [Agents -> SUBSET Callbacks]]
      /\ \A p \in Paths, a \in Agents : current[p][a] = None => running[p][a] = {}
      /\ given \in [Paths -> [Callbacks -> [Messages -> Nat]]]
      /\ req \in [Requests -> ReqStates]
      /\ got \in [Requests -> SUBSET Messages]
      /\ answer \in [Requests -> Messages \cup {None}]
  BY DEF IInv, TypeOK
<1>1. ASSUME NEW r \in Requests, SendRequest(r) PROVE NothingLost'
  BY <1>1, <1>a, <1>b, Constants, TwoPaths, Destinations
  DEF SendRequest, Add, Count
<1>2. ASSUME NEW r \in Requests, Refuse(r) PROVE NothingLost'
  BY <1>2, <1>a, <1>b, Constants, TwoPaths, Destinations DEF Refuse
<1>3. ASSUME NEW r \in Requests, RequestRead(r) PROVE NothingLost'
  BY <1>3, <1>a, <1>b, Constants, TwoPaths, Destinations
  DEF RequestRead, Batches
<1>4. ASSUME NEW r \in Requests, RequestRemove(r) PROVE NothingLost'
  <2>1. CASE {m \in got[r] \ expired : Answers(m, r)} = {} /\ req' = [req EXCEPT ![r] = "wait"] /\ UNCHANGED answer
    <3>0. /\ req[r] = "remove"
          /\ inbox' = [inbox EXCEPT ![Sender[r]] = @ \ got[r]]
          /\ \E failed \in SUBSET (got[r] \cap expired) :
               dlq' = [dlq EXCEPT ![Sender[r]] = @ \cup ((got[r] \cap expired) \ failed)]
          /\ UNCHANGED <<expired, publishing, sent>>
          /\ got' = [got EXCEPT ![r] = {}]
          /\ disturbed' = disturbed \cup {<<Sender[r], "reader">>}
          /\ UNCHANGED <<taskVars, events>>
          /\ req' = [req EXCEPT ![r] = "wait"]
          /\ answer' = answer
          /\ \A m \in got[r] \ expired : ~ Answers(m, r)
      BY <1>4, <2>1 DEF RequestRemove, TakeOutAndBury, Disturb
    <3> QED
      BY <3>0, <1>a, <1>b, Constants, TwoPaths, Destinations
  <2>2. CASE \E m \in got[r] \ expired : Answers(m, r) /\ req' = [req EXCEPT ![r] = "answered"] /\ answer' = [answer EXCEPT ![r] = m]
    <3>0. /\ req[r] = "remove"
          /\ inbox' = [inbox EXCEPT ![Sender[r]] = @ \ got[r]]
          /\ \E failed \in SUBSET (got[r] \cap expired) :
               dlq' = [dlq EXCEPT ![Sender[r]] = @ \cup ((got[r] \cap expired) \ failed)]
          /\ UNCHANGED <<expired, publishing, sent>>
          /\ got' = [got EXCEPT ![r] = {}]
          /\ disturbed' = disturbed \cup {<<Sender[r], "reader">>}
          /\ UNCHANGED <<taskVars, events>>
          /\ req' = [req EXCEPT ![r] = "answered"]
          /\ \E m \in got[r] \ expired : Answers(m, r) /\ answer' = [answer EXCEPT ![r] = m]
      BY <1>4, <2>2 DEF RequestRemove, TakeOutAndBury, Disturb
    <3> QED
      BY SMTT(30), <3>0, <1>a, <1>b, Constants, TwoPaths, Destinations
  <2> QED
    BY <1>4, <2>1, <2>2 DEF RequestRemove
<1>5. ASSUME NEW r \in Requests, RequestTimeout(r) PROVE NothingLost'
  BY <1>5, <1>a, <1>b, Constants, TwoPaths, Destinations DEF RequestTimeout
<1>6. ASSUME NEW r \in Requests, RequestFails(r) PROVE NothingLost'
  BY <1>6, <1>a, <1>b, Constants, TwoPaths, Destinations
  DEF RequestFails, TakeOut, Disturb, Count
<1>7. ASSUME NEW m \in Messages, Publish(m) PROVE NothingLost'
  BY <1>7, <1>a, <1>b, Constants, TwoPaths, Destinations
  DEF Publish, SenderGoesTo
<1>8. ASSUME NEW m \in Messages, PublishFails(m) PROVE NothingLost'
  BY <1>8, <1>a, <1>b, Constants, TwoPaths, Destinations
  DEF PublishFails, SenderGoesTo, Count
<1>9. ASSUME NEW m \in Messages, Expire(m) PROVE NothingLost'
  BY <1>9, <1>a, <1>b, Constants, TwoPaths, Destinations DEF Expire, Count
<1>10. ASSUME NEW c \in Callbacks, OpenChannel(c) PROVE NothingLost'
  BY <1>10, <1>a, <1>b, Constants, TwoPaths, Destinations
  DEF OpenChannel, Subscribe, Count
<1>11. ASSUME NEW c \in Callbacks, ReceiveOnce(c) PROVE NothingLost'
  BY <1>11, <1>a, <1>b, Constants, TwoPaths, Destinations
  DEF ReceiveOnce, Subscribe, Count
<1>12. ASSUME NEW c \in Callbacks, Close(c) PROVE NothingLost'
  BY <1>12, <1>a, <1>b, Constants, TwoPaths, Destinations
  DEF Close, StopTask, EndTask, TakeOut, Disturb, Goto
<1>13. ASSUME NEW c \in Callbacks, StopPoller(c) PROVE NothingLost'
  BY <1>13, <1>a, <1>b, Constants, TwoPaths, Destinations
  DEF StopPoller, StopTask, EndTask, TakeOut, Disturb, Goto
<1>14. ASSUME NEW c \in Callbacks, DropSubscriptions(c) PROVE NothingLost'
  BY <1>14, <1>a, <1>b, Constants, TwoPaths, Destinations DEF DropSubscriptions
<1>15. ASSUME NEW a \in Agents, LapseInbox(a) PROVE NothingLost'
  BY <1>15, <1>a, <1>b, Constants, TwoPaths, Destinations
  DEF LapseInbox, Disturb, Count
<1>16. ASSUME NEW a \in Agents, Listening(a) PROVE NothingLost'
  BY <1>16, <1>a, <1>b, Constants, TwoPaths, Destinations DEF Listening, Goto
<1>17. ASSUME NEW a \in Agents, PollRead(a) PROVE NothingLost'
  <2>1. PICK B \in SUBSET inbox[a] : held' = [held EXCEPT !["poll"][a] = B]
    BY <1>17 DEF PollRead, Batches
  <2>2. held["poll"][a] = {} /\ UNCHANGED <<inbox, sent, expired, given, disturbed>>
    BY <1>17, <1>a DEF PollRead, OnceInv
  <2>3. \A b \in Agents : b # a => held'["poll"][b] = held["poll"][b]
    BY <2>1, <1>b, TwoPaths
  <2> QED
    BY <2>2, <2>3, <1>a, <1>b, Destinations
<1>18. ASSUME NEW a \in Agents, PollRemove(a) PROVE NothingLost'
  BY <1>18, <1>a, <1>b, Constants, TwoPaths, Destinations
  DEF PollRemove, Goto, TakeOutAndBury
<1>19. ASSUME NEW a \in Agents, PollAgain(a) PROVE NothingLost'
  BY <1>19, <1>a, <1>b, Constants, TwoPaths, Destinations DEF PollAgain, Goto
<1>20. ASSUME NEW p \in Paths, NEW a \in Agents, TaskFails(p, a)
       PROVE NothingLost'
  BY <1>20, <1>a, <1>b, Constants, TwoPaths, Destinations
  DEF TaskFails, EndTask, TakeOut, Disturb, Goto, Count
<1>21. ASSUME NEW p \in Paths, NEW a \in Agents, HandOver(p, a)
       PROVE NothingLost'
  <2>1. PICK m \in Messages : Handing(p, a, m)
    BY <1>21, <1>a, HandingOver
  <2>2. /\ held' = [held EXCEPT ![p][a] = @ \ {m}]
        /\ UNCHANGED <<inbox, sent, expired, disturbed>>
        /\ task[p][a] = (IF p = "poll" THEN "hand_over" ELSE "idle")
    BY <2>1 DEF Handing
  <2>a. subs[a] = {} => given' = given
    BY <2>1 DEF Handing
  <2>b. subs[a] # {} => given' = Given(p, a, m)
    BY <2>1 DEF Handing
  <2>3. \A c \in Callbacks, n \in Messages : given["poll"][c][n] > 0 => given'["poll"][c][n] > 0
    <3>1. CASE given' = given
      BY <3>1
    <3>2. CASE given' = Given(p, a, m)
      BY <3>2, <1>b, TwoPaths DEF Given
    <3> QED
      BY <2>a, <2>b, <3>1, <3>2
  <2> SUFFICES ASSUME NEW n \in sent \ expired, NEW b \in Agents, b = Dest(n),
                      \A why \in {"lapse", "reader", "task"} : <<b, why>> \notin disturbed
               PROVE  \/ n \in inbox[b] \cup held'["poll"][b]
                      \/ \E c \in Callbacks : given'["poll"][c][n] > 0
    BY <2>2, <1>b, Destinations
  <2>4. CASE n \in inbox[b]
    BY <2>4
  <2>5. CASE \E c \in Callbacks : given["poll"][c][n] > 0
    BY <2>3, <2>5, <1>b
  <2>6. CASE n \in held["poll"][b]
    <3>1. CASE p = "poll" /\ a = b /\ m = n
      <4>1. task["poll"][a] # "none"
        BY <2>2, <3>1
      <4>2. PICK c \in Callbacks : Owner[c] = a /\ chan[c] \in {"open", "stop_poller", "raised"}
        BY <4>1, <1>a DEF ChannelInv, KeptPoller, SomeChannel
      <4>3. c \in subs[a]
        BY <3>1, <4>2, <1>a DEF ChannelInv, Undisturbed
      <4>4. given'["poll"][c][n] = given["poll"][c][n] + 1
        BY <2>b, <3>1, <4>3, <1>b, TwoPaths DEF Given
      <4>5. given["poll"][c][n] \in Nat
        BY <1>b, TwoPaths
      <4> QED
        BY <4>4, <4>5
    <3>2. CASE ~ (p = "poll" /\ a = b /\ m = n)
      BY <2>2, <2>6, <3>2, <1>b, TwoPaths
    <3> QED
      BY <3>1, <3>2
  <2> QED
    BY <2>4, <2>5, <2>6, <1>a, <1>b
<1>22. ASSUME NEW p \in Paths, NEW a \in Agents, Gathered(p, a)
       PROVE NothingLost'
  <2>1. CASE p = "poll"
    <3>0. /\ current[p][a] # None /\ running[p][a] = {}
          /\ current' = [current EXCEPT ![p][a] = None]
          /\ task' = task
          /\ UNCHANGED <<netVars, subs, chan, held, running, given, reqVars, disturbed, events>>
      BY <1>22, <2>1 DEF Gathered, Goto
    <3> QED
      BY <3>0, <1>a, <1>b, Constants, TwoPaths, Destinations
  <2>2. CASE p = "pubsub"
    <3>0. /\ current[p][a] # None /\ running[p][a] = {}
          /\ current' = [current EXCEPT ![p][a] = None]
          /\ task' = [task EXCEPT ![p][a] = "idle"]
          /\ UNCHANGED <<netVars, subs, chan, held, running, given, reqVars, disturbed, events>>
      BY <1>22, <2>2 DEF Gathered, Goto
    <3> QED
      BY <3>0, <1>a, <1>b, Constants, TwoPaths, Destinations
  <2> QED
    BY <2>1, <2>2, TwoPaths
<1>23. ASSUME NEW p \in Paths, NEW a \in Agents, NEW c \in Callbacks, EndCallback(p, a, c)
       PROVE NothingLost'
  <2>1. CASE UNCHANGED netVars
    <3>0. /\ c \in running[p][a] /\ running' = [running EXCEPT ![p][a] = @ \ {c}]
          /\ UNCHANGED <<subs, chan, task, held, current, given, reqVars, disturbed, events>>
          /\ UNCHANGED netVars
      BY <1>23, <2>1 DEF EndCallback, Add
    <3> QED
      BY <3>0, <1>a, <1>b, Constants, TwoPaths, Destinations
  <2>2. CASE current[p][a] \in Requests /\ Add(<<current[p][a], c, p>>)
    <3>0. /\ c \in running[p][a] /\ running' = [running EXCEPT ![p][a] = @ \ {c}]
          /\ UNCHANGED <<subs, chan, task, held, current, given, reqVars, disturbed, events>>
          /\ current[p][a] \in Requests
          /\ inbox' = [inbox EXCEPT ![Sender[current[p][a]]] = @ \cup {<<current[p][a], c, p>>}]
          /\ publishing' = publishing \cup {<<current[p][a], c, p>>}
          /\ sent' = sent \cup {<<current[p][a], c, p>>}
          /\ UNCHANGED <<dlq, expired>>
          /\ <<current[p][a], c, p>> \in Messages /\ <<current[p][a], c, p>> \notin Requests
          /\ Dest(<<current[p][a], c, p>>) = Sender[current[p][a]]
      BY <1>23, <2>2, Replying DEF EndCallback, Add
    <3> DEFINE reply == <<current[p][a], c, p>>
    <3>1. /\ sent' = sent \cup {reply} /\ reply \in Messages
          /\ reply \in inbox'[Dest(reply)]
      BY <3>0, <1>b, Constants
    <3>2. \A b \in Agents : inbox[b] \subseteq inbox'[b]
      BY <3>0, <1>b, Constants
    <3>3. UNCHANGED <<expired, held, given, disturbed>>
      BY <3>0
    <3> HIDE DEF reply
    <3> QED
      BY <3>1, <3>2, <3>3, <1>a, <1>b, Destinations
  <2> QED
    BY <1>23, <2>1, <2>2 DEF EndCallback
<1>24. CASE UNCHANGED vars
  BY <1>24, <1>a, <1>b, Constants, TwoPaths, Destinations DEF vars
<1> QED
  BY <1>1, <1>2, <1>3, <1>4, <1>5, <1>6, <1>7, <1>8, <1>9, <1>10, <1>11,
     <1>12, <1>13, <1>14, <1>15, <1>16, <1>17, <1>18, <1>19, <1>20, <1>21,
     <1>22, <1>23, <1>24
  DEF Next, RequestStep, PollStep, TaskStep
-----------------------------------------------------------------------------
(* Nothing is taken back, and no answer of a lonely request is dropped. *)
NothingTakenBack ==
  /\ \A q \in Requests : req'[q] \in {"new", "refused"} => req[q] \in {"new", "refused"}
  /\ \A q \in Requests : req[q] \in {"answered", "failed"} => req'[q] \in {"answered", "failed"}
  /\ \A d \in Callbacks : chan'[d] = "new" => chan[d] = "new"
  /\ disturbed \subseteq disturbed' /\ expired \subseteq expired'

NoAnswerDropped ==
  \A s \in Requests : \A n \in sent' \ expired' :
    /\ Answers(n, s) /\ Alone(s)
    /\ req'[s] \notin {"answered", "failed"}
    /\ <<Sender[s], "lapse">> \notin disturbed'
    /\ n \in sent => n \in inbox[Sender[s]]
    => n \in inbox'[Sender[s]]

LEMMA WaitInvKept ==
  ASSUME WaitInv, NothingTakenBack, NoAnswerDropped
  PROVE  WaitInv'
<1> USE DEF NothingTakenBack, NoAnswerDropped
<1>1. \A r \in Requests : Alone(r)' => Alone(r)
  BY DEF Alone
<1> SUFFICES ASSUME NEW r \in Requests,
                    req'[r] \notin {"answered", "failed"}, Alone(r)',
                    <<Sender[r], "lapse">> \notin disturbed',
                    NEW m \in sent' \ expired', Answers(m, r)
             PROVE  m \in inbox'[Sender[r]]
  BY DEF WaitInv
<1>3. m \in sent => m \in inbox[Sender[r]]
  BY <1>1 DEF WaitInv
<1> QED
  BY <1>1, <1>3

-----------------------------------------------------------------------------
(* No answer is dropped before the request has one. *)
LEMMA WaitStep == IInv /\ [Next]_vars => WaitInv'
<1> SUFFICES ASSUME IInv, [Next]_vars PROVE WaitInv'
  OBVIOUS
<1> USE DEF netVars, taskVars, reqVars
<1>a. WaitInv /\ MessageInv /\ ChannelInv /\ TypeOK
  BY DEF IInv
<1>b. /\ inbox \in [Agents -> SUBSET Messages]
      /\ publishing \subseteq Messages /\ sent \subseteq Messages
      /\ subs \in [Agents -> SUBSET Callbacks]
      /\ chan \in [Callbacks -> ChanStates]
      /\ task \in [Paths -> [Agents -> TaskStates]]
      /\ held \in [Paths -> [Agents -> SUBSET Messages]]
      /\ current \in [Paths -> [Agents -> Messages \cup {None}]]
      /\ running \in [Paths -> [Agents -> SUBSET Callbacks]]
      /\ \A p \in Paths, a \in Agents : current[p][a] = None => running[p][a] = {}
      /\ given \in [Paths -> [Callbacks -> [Messages -> Nat]]]
      /\ req \in [Requests -> ReqStates]
      /\ got \in [Requests -> SUBSET Messages]
      /\ answer \in [Requests -> Messages \cup {None}]
  BY DEF IInv, TypeOK
<1>c. \A r \in Requests : Alone(r) => task["poll"][Sender[r]] = "none"
  BY <1>a, Constants DEF Alone, ChannelInv, KeptPoller, SomeChannel
<1>1. ASSUME NEW r \in Requests, SendRequest(r) PROVE WaitInv'
  <2>1. NothingTakenBack
    BY <1>1, <1>a, <1>b, Constants
    DEF NothingTakenBack, SendRequest, Add, Count
  <2>2. ASSUME NEW s \in Requests, NEW n \in sent' \ expired',
              Answers(n, s), Alone(s), req'[s] \notin {"answered", "failed"},
              <<Sender[s], "lapse">> \notin disturbed', n \in sent => n \in inbox[Sender[s]]
       PROVE  n \in inbox'[Sender[s]]
    <3>1. sent' = sent \cup {r} /\ \A b \in Agents : inbox[b] \subseteq inbox'[b]
      BY <1>1, <1>b, Destinations, Constants DEF SendRequest, Add
    <3>2. n # r
      BY <2>2, TransportAssumption DEF Answers
    <3> QED
      BY <3>1, <3>2, <2>2, Constants
  <2>3. NoAnswerDropped
    BY <2>2 DEF NoAnswerDropped
  <2> QED
    BY <2>1, <2>3, <1>a, WaitInvKept
<1>2. ASSUME NEW r \in Requests, Refuse(r) PROVE WaitInv'
  <2>1. NothingTakenBack
    BY <1>2, <1>a, <1>b, Constants DEF NothingTakenBack, Refuse
  <2>2. ASSUME NEW s \in Requests, NEW n \in sent' \ expired',
              Answers(n, s), Alone(s), req'[s] \notin {"answered", "failed"},
              <<Sender[s], "lapse">> \notin disturbed', n \in sent => n \in inbox[Sender[s]]
       PROVE  n \in inbox'[Sender[s]]
    BY <1>2, <2>2, <1>b, <1>c, Constants, TwoPaths, Destinations DEF Refuse
  <2>3. NoAnswerDropped
    BY <2>2 DEF NoAnswerDropped
  <2> QED
    BY <2>1, <2>3, <1>a, WaitInvKept
<1>3. ASSUME NEW r \in Requests, RequestRead(r) PROVE WaitInv'
  <2>1. NothingTakenBack
    BY <1>3, <1>a, <1>b, Constants DEF NothingTakenBack, RequestRead, Batches
  <2>2. ASSUME NEW s \in Requests, NEW n \in sent' \ expired',
              Answers(n, s), Alone(s), req'[s] \notin {"answered", "failed"},
              <<Sender[s], "lapse">> \notin disturbed', n \in sent => n \in inbox[Sender[s]]
       PROVE  n \in inbox'[Sender[s]]
    BY <1>3, <2>2, <1>b, <1>c, Constants, TwoPaths, Destinations
    DEF RequestRead, Batches
  <2>3. NoAnswerDropped
    BY <2>2 DEF NoAnswerDropped
  <2> QED
    BY <2>1, <2>3, <1>a, WaitInvKept
<1>4. ASSUME NEW r \in Requests, RequestRemove(r) PROVE WaitInv'
  <2>1. CASE {m \in got[r] \ expired : Answers(m, r)} = {} /\ req' = [req EXCEPT ![r] = "wait"] /\ UNCHANGED answer
    <3>0. /\ req[r] = "remove"
          /\ inbox' = [inbox EXCEPT ![Sender[r]] = @ \ got[r]]
          /\ \E failed \in SUBSET (got[r] \cap expired) :
               dlq' = [dlq EXCEPT ![Sender[r]] = @ \cup ((got[r] \cap expired) \ failed)]
          /\ UNCHANGED <<expired, publishing, sent>>
          /\ got' = [got EXCEPT ![r] = {}]
          /\ disturbed' = disturbed \cup {<<Sender[r], "reader">>}
          /\ UNCHANGED <<taskVars, events>>
          /\ req' = [req EXCEPT ![r] = "wait"]
          /\ answer' = answer
          /\ \A m \in got[r] \ expired : ~ Answers(m, r)
      BY <1>4, <2>1 DEF RequestRemove, TakeOutAndBury, Disturb
    <3>1. NothingTakenBack
      BY <3>0, <1>a, <1>b, Constants DEF NothingTakenBack
    <3>2. ASSUME NEW s \in Requests, NEW n \in sent' \ expired',
                Answers(n, s), Alone(s), req'[s] \notin {"answered", "failed"},
                <<Sender[s], "lapse">> \notin disturbed', n \in sent => n \in inbox[Sender[s]]
         PROVE  n \in inbox'[Sender[s]]
      <4>1. CASE s = r
        BY <3>0, <3>2, <4>1, <1>b, Constants
      <4>2. CASE s # r
        <5>1. Sender[s] # Sender[r]
          BY <3>0, <3>2, <4>2 DEF Alone
        <5> QED
          BY <3>0, <3>2, <5>1, <1>b, Constants
      <4> QED
        BY <4>1, <4>2
    <3>3. NoAnswerDropped
      BY <3>2 DEF NoAnswerDropped
    <3> QED
      BY <3>1, <3>3, <1>a, WaitInvKept
  <2>2. CASE \E m \in got[r] \ expired : Answers(m, r) /\ req' = [req EXCEPT ![r] = "answered"] /\ answer' = [answer EXCEPT ![r] = m]
    <3>0. /\ req[r] = "remove"
          /\ inbox' = [inbox EXCEPT ![Sender[r]] = @ \ got[r]]
          /\ \E failed \in SUBSET (got[r] \cap expired) :
               dlq' = [dlq EXCEPT ![Sender[r]] = @ \cup ((got[r] \cap expired) \ failed)]
          /\ UNCHANGED <<expired, publishing, sent>>
          /\ got' = [got EXCEPT ![r] = {}]
          /\ disturbed' = disturbed \cup {<<Sender[r], "reader">>}
          /\ UNCHANGED <<taskVars, events>>
          /\ req' = [req EXCEPT ![r] = "answered"]
          /\ \E m \in got[r] \ expired : Answers(m, r) /\ answer' = [answer EXCEPT ![r] = m]
      BY <1>4, <2>2 DEF RequestRemove, TakeOutAndBury, Disturb
    <3>1. NothingTakenBack
      BY <3>0, <1>a, <1>b, Constants DEF NothingTakenBack
    <3>2. ASSUME NEW s \in Requests, NEW n \in sent' \ expired',
                Answers(n, s), Alone(s), req'[s] \notin {"answered", "failed"},
                <<Sender[s], "lapse">> \notin disturbed', n \in sent => n \in inbox[Sender[s]]
         PROVE  n \in inbox'[Sender[s]]
      BY ZenonT(60), <3>0, <3>2, <1>b, <1>c, Constants, TwoPaths,
         Destinations
      DEF Alone
    <3>3. NoAnswerDropped
      BY <3>2 DEF NoAnswerDropped
    <3> QED
      BY <3>1, <3>3, <1>a, WaitInvKept
  <2> QED
    BY <1>4, <2>1, <2>2 DEF RequestRemove
<1>5. ASSUME NEW r \in Requests, RequestTimeout(r) PROVE WaitInv'
  <2>1. NothingTakenBack
    BY <1>5, <1>a, <1>b, Constants DEF NothingTakenBack, RequestTimeout
  <2>2. ASSUME NEW s \in Requests, NEW n \in sent' \ expired',
              Answers(n, s), Alone(s), req'[s] \notin {"answered", "failed"},
              <<Sender[s], "lapse">> \notin disturbed', n \in sent => n \in inbox[Sender[s]]
       PROVE  n \in inbox'[Sender[s]]
    BY <1>5, <2>2, <1>b, <1>c, Constants, TwoPaths, Destinations
    DEF RequestTimeout
  <2>3. NoAnswerDropped
    BY <2>2 DEF NoAnswerDropped
  <2> QED
    BY <2>1, <2>3, <1>a, WaitInvKept
<1>6. ASSUME NEW r \in Requests, RequestFails(r) PROVE WaitInv'
  <2>1. NothingTakenBack
    BY <1>6, <1>a, <1>b, Constants
    DEF NothingTakenBack, RequestFails, TakeOut, Disturb, Count
  <2>2. ASSUME NEW s \in Requests, NEW n \in sent' \ expired',
              Answers(n, s), Alone(s), req'[s] \notin {"answered", "failed"},
              <<Sender[s], "lapse">> \notin disturbed', n \in sent => n \in inbox[Sender[s]]
       PROVE  n \in inbox'[Sender[s]]
    <3>1. PICK B : inbox' = [inbox EXCEPT ![Sender[r]] = @ \ B]
      BY <1>6 DEF RequestFails, TakeOut
    <3>2. sent' = sent /\ req[r] \in {"wait", "remove"} /\ req'[r] = "failed"
      BY <1>6, <1>b DEF RequestFails, TakeOut
    <3>3. Sender[s] # Sender[r]
      BY <2>2, <3>2 DEF Alone
    <3> QED
      BY <2>2, <3>1, <3>2, <3>3, <1>b, Constants
  <2>3. NoAnswerDropped
    BY <2>2 DEF NoAnswerDropped
  <2> QED
    BY <2>1, <2>3, <1>a, WaitInvKept
<1>7. ASSUME NEW m \in Messages, Publish(m) PROVE WaitInv'
  <2>1. NothingTakenBack
    BY <1>7, <1>a, <1>b, Constants
    DEF NothingTakenBack, Publish, SenderGoesTo, MessageInv
  <2>2. ASSUME NEW s \in Requests, NEW n \in sent' \ expired',
              Answers(n, s), Alone(s), req'[s] \notin {"answered", "failed"},
              <<Sender[s], "lapse">> \notin disturbed', n \in sent => n \in inbox[Sender[s]]
       PROVE  n \in inbox'[Sender[s]]
    BY <1>7, <2>2, <1>b, <1>c, Constants, TwoPaths, Destinations
    DEF Publish, SenderGoesTo
  <2>3. NoAnswerDropped
    BY <2>2 DEF NoAnswerDropped
  <2> QED
    BY <2>1, <2>3, <1>a, WaitInvKept
<1>8. ASSUME NEW m \in Messages, PublishFails(m) PROVE WaitInv'
  <2>1. NothingTakenBack
    BY <1>8, <1>a, <1>b, Constants
    DEF NothingTakenBack, PublishFails, SenderGoesTo, Count, MessageInv
  <2>2. ASSUME NEW s \in Requests, NEW n \in sent' \ expired',
              Answers(n, s), Alone(s), req'[s] \notin {"answered", "failed"},
              <<Sender[s], "lapse">> \notin disturbed', n \in sent => n \in inbox[Sender[s]]
       PROVE  n \in inbox'[Sender[s]]
    BY <1>8, <2>2, <1>b, <1>c, Constants, TwoPaths, Destinations
    DEF PublishFails, SenderGoesTo, Count
  <2>3. NoAnswerDropped
    BY <2>2 DEF NoAnswerDropped
  <2> QED
    BY <2>1, <2>3, <1>a, WaitInvKept
<1>9. ASSUME NEW m \in Messages, Expire(m) PROVE WaitInv'
  <2>1. NothingTakenBack
    BY <1>9, <1>a, <1>b, Constants DEF NothingTakenBack, Expire, Count
  <2>2. ASSUME NEW s \in Requests, NEW n \in sent' \ expired',
              Answers(n, s), Alone(s), req'[s] \notin {"answered", "failed"},
              <<Sender[s], "lapse">> \notin disturbed', n \in sent => n \in inbox[Sender[s]]
       PROVE  n \in inbox'[Sender[s]]
    BY <1>9, <2>2, <1>b, <1>c, Constants, TwoPaths, Destinations
    DEF Expire, Count
  <2>3. NoAnswerDropped
    BY <2>2 DEF NoAnswerDropped
  <2> QED
    BY <2>1, <2>3, <1>a, WaitInvKept
<1>10. ASSUME NEW c \in Callbacks, OpenChannel(c) PROVE WaitInv'
  <2>1. NothingTakenBack
    BY <1>10, <1>a, <1>b, Constants
    DEF NothingTakenBack, OpenChannel, Subscribe, Count
  <2>2. ASSUME NEW s \in Requests, NEW n \in sent' \ expired',
              Answers(n, s), Alone(s), req'[s] \notin {"answered", "failed"},
              <<Sender[s], "lapse">> \notin disturbed', n \in sent => n \in inbox[Sender[s]]
       PROVE  n \in inbox'[Sender[s]]
    BY <1>10, <2>2, <1>b, <1>c, Constants, TwoPaths, Destinations
    DEF OpenChannel, Subscribe, Count
  <2>3. NoAnswerDropped
    BY <2>2 DEF NoAnswerDropped
  <2> QED
    BY <2>1, <2>3, <1>a, WaitInvKept
<1>11. ASSUME NEW c \in Callbacks, ReceiveOnce(c) PROVE WaitInv'
  <2>1. NothingTakenBack
    BY <1>11, <1>a, <1>b, Constants
    DEF NothingTakenBack, ReceiveOnce, Subscribe, Count
  <2>2. ASSUME NEW s \in Requests, NEW n \in sent' \ expired',
              Answers(n, s), Alone(s), req'[s] \notin {"answered", "failed"},
              <<Sender[s], "lapse">> \notin disturbed', n \in sent => n \in inbox[Sender[s]]
       PROVE  n \in inbox'[Sender[s]]
    BY <1>11, <2>2, <1>b, <1>c, Constants, TwoPaths, Destinations
    DEF ReceiveOnce, Subscribe, Count
  <2>3. NoAnswerDropped
    BY <2>2 DEF NoAnswerDropped
  <2> QED
    BY <2>1, <2>3, <1>a, WaitInvKept
<1>12. ASSUME NEW c \in Callbacks, Close(c) PROVE WaitInv'
  <2>1. NothingTakenBack
    BY <1>12, <1>a, <1>b, Constants
    DEF NothingTakenBack, Close, StopTask, EndTask, TakeOut, Disturb, Goto
  <2>2. ASSUME NEW s \in Requests, NEW n \in sent' \ expired',
              Answers(n, s), Alone(s), req'[s] \notin {"answered", "failed"},
              <<Sender[s], "lapse">> \notin disturbed', n \in sent => n \in inbox[Sender[s]]
       PROVE  n \in inbox'[Sender[s]]
    BY <1>12, <2>2, <1>b, <1>c, Constants, TwoPaths, Destinations
    DEF Close, StopTask, EndTask, TakeOut, Disturb, Goto, Alone
  <2>3. NoAnswerDropped
    BY <2>2 DEF NoAnswerDropped
  <2> QED
    BY <2>1, <2>3, <1>a, WaitInvKept
<1>13. ASSUME NEW c \in Callbacks, StopPoller(c) PROVE WaitInv'
  <2>1. NothingTakenBack
    BY <1>13, <1>a, <1>b, Constants
    DEF NothingTakenBack, StopPoller, StopTask, EndTask, TakeOut, Disturb,
        Goto
  <2>2. ASSUME NEW s \in Requests, NEW n \in sent' \ expired',
              Answers(n, s), Alone(s), req'[s] \notin {"answered", "failed"},
              <<Sender[s], "lapse">> \notin disturbed', n \in sent => n \in inbox[Sender[s]]
       PROVE  n \in inbox'[Sender[s]]
    BY <1>13, <2>2, <1>b, <1>c, Constants, TwoPaths, Destinations
    DEF StopPoller, StopTask, EndTask, TakeOut, Disturb, Goto, Alone
  <2>3. NoAnswerDropped
    BY <2>2 DEF NoAnswerDropped
  <2> QED
    BY <2>1, <2>3, <1>a, WaitInvKept
<1>14. ASSUME NEW c \in Callbacks, DropSubscriptions(c) PROVE WaitInv'
  <2>1. NothingTakenBack
    BY <1>14, <1>a, <1>b, Constants DEF NothingTakenBack, DropSubscriptions
  <2>2. ASSUME NEW s \in Requests, NEW n \in sent' \ expired',
              Answers(n, s), Alone(s), req'[s] \notin {"answered", "failed"},
              <<Sender[s], "lapse">> \notin disturbed', n \in sent => n \in inbox[Sender[s]]
       PROVE  n \in inbox'[Sender[s]]
    BY <1>14, <2>2, <1>b, <1>c, Constants, TwoPaths, Destinations
    DEF DropSubscriptions
  <2>3. NoAnswerDropped
    BY <2>2 DEF NoAnswerDropped
  <2> QED
    BY <2>1, <2>3, <1>a, WaitInvKept
<1>15. ASSUME NEW a \in Agents, LapseInbox(a) PROVE WaitInv'
  <2>1. NothingTakenBack
    BY <1>15, <1>a, <1>b, Constants
    DEF NothingTakenBack, LapseInbox, Disturb, Count
  <2>2. ASSUME NEW s \in Requests, NEW n \in sent' \ expired',
              Answers(n, s), Alone(s), req'[s] \notin {"answered", "failed"},
              <<Sender[s], "lapse">> \notin disturbed', n \in sent => n \in inbox[Sender[s]]
       PROVE  n \in inbox'[Sender[s]]
    BY <1>15, <2>2, <1>b, <1>c, Constants, TwoPaths, Destinations
    DEF LapseInbox, Disturb, Count
  <2>3. NoAnswerDropped
    BY <2>2 DEF NoAnswerDropped
  <2> QED
    BY <2>1, <2>3, <1>a, WaitInvKept
<1>16. ASSUME NEW a \in Agents, Listening(a) PROVE WaitInv'
  <2>1. NothingTakenBack
    BY <1>16, <1>a, <1>b, Constants DEF NothingTakenBack, Listening, Goto
  <2>2. ASSUME NEW s \in Requests, NEW n \in sent' \ expired',
              Answers(n, s), Alone(s), req'[s] \notin {"answered", "failed"},
              <<Sender[s], "lapse">> \notin disturbed', n \in sent => n \in inbox[Sender[s]]
       PROVE  n \in inbox'[Sender[s]]
    BY <1>16, <2>2, <1>b, <1>c, Constants, TwoPaths, Destinations
    DEF Listening, Goto
  <2>3. NoAnswerDropped
    BY <2>2 DEF NoAnswerDropped
  <2> QED
    BY <2>1, <2>3, <1>a, WaitInvKept
<1>17. ASSUME NEW a \in Agents, PollRead(a) PROVE WaitInv'
  <2>1. NothingTakenBack
    BY <1>17, <1>a, <1>b, Constants
    DEF NothingTakenBack, PollRead, Goto, Batches
  <2>2. ASSUME NEW s \in Requests, NEW n \in sent' \ expired',
              Answers(n, s), Alone(s), req'[s] \notin {"answered", "failed"},
              <<Sender[s], "lapse">> \notin disturbed', n \in sent => n \in inbox[Sender[s]]
       PROVE  n \in inbox'[Sender[s]]
    BY <1>17, <2>2, <1>b, <1>c, Constants, TwoPaths, Destinations
    DEF PollRead, Goto, Batches
  <2>3. NoAnswerDropped
    BY <2>2 DEF NoAnswerDropped
  <2> QED
    BY <2>1, <2>3, <1>a, WaitInvKept
<1>18. ASSUME NEW a \in Agents, PollRemove(a) PROVE WaitInv'
  <2>1. NothingTakenBack
    BY <1>18, <1>a, <1>b, Constants
    DEF NothingTakenBack, PollRemove, Goto, TakeOutAndBury
  <2>2. ASSUME NEW s \in Requests, NEW n \in sent' \ expired',
              Answers(n, s), Alone(s), req'[s] \notin {"answered", "failed"},
              <<Sender[s], "lapse">> \notin disturbed', n \in sent => n \in inbox[Sender[s]]
       PROVE  n \in inbox'[Sender[s]]
    BY <1>18, <2>2, <1>b, <1>c, Constants, TwoPaths, Destinations
    DEF PollRemove, Goto, TakeOutAndBury, Alone
  <2>3. NoAnswerDropped
    BY <2>2 DEF NoAnswerDropped
  <2> QED
    BY <2>1, <2>3, <1>a, WaitInvKept
<1>19. ASSUME NEW a \in Agents, PollAgain(a) PROVE WaitInv'
  <2>1. NothingTakenBack
    BY <1>19, <1>a, <1>b, Constants DEF NothingTakenBack, PollAgain, Goto
  <2>2. ASSUME NEW s \in Requests, NEW n \in sent' \ expired',
              Answers(n, s), Alone(s), req'[s] \notin {"answered", "failed"},
              <<Sender[s], "lapse">> \notin disturbed', n \in sent => n \in inbox[Sender[s]]
       PROVE  n \in inbox'[Sender[s]]
    BY <1>19, <2>2, <1>b, <1>c, Constants, TwoPaths, Destinations
    DEF PollAgain, Goto
  <2>3. NoAnswerDropped
    BY <2>2 DEF NoAnswerDropped
  <2> QED
    BY <2>1, <2>3, <1>a, WaitInvKept
<1>20. ASSUME NEW p \in Paths, NEW a \in Agents, TaskFails(p, a) PROVE WaitInv'
  <2>1. NothingTakenBack
    BY <1>20, <1>a, <1>b, Constants
    DEF NothingTakenBack, TaskFails, EndTask, TakeOut, Disturb, Goto, Count
  <2>2. ASSUME NEW s \in Requests, NEW n \in sent' \ expired',
              Answers(n, s), Alone(s), req'[s] \notin {"answered", "failed"},
              <<Sender[s], "lapse">> \notin disturbed', n \in sent => n \in inbox[Sender[s]]
       PROVE  n \in inbox'[Sender[s]]
    <3>1. PICK B : /\ inbox' = [inbox EXCEPT ![a] = @ \ B] /\ sent' = sent
                   /\ B # {} => task["poll"][a] = "remove"
      BY <1>20 DEF TaskFails, EndTask, TakeOut
    <3>2. Sender[s] = a => B = {}
      BY <2>2, <3>1, <1>c
    <3> QED
      BY <2>2, <3>1, <3>2, <1>b, Constants
  <2>3. NoAnswerDropped
    BY <2>2 DEF NoAnswerDropped
  <2> QED
    BY <2>1, <2>3, <1>a, WaitInvKept
<1>21. ASSUME NEW p \in Paths, NEW a \in Agents, HandOver(p, a) PROVE WaitInv'
  <2>0. PICK m \in Messages : Handing(p, a, m)
    BY <1>21, <1>a, HandingOver
  <2>1. CASE subs[a] = {}
    <3>0. /\ m \in held[p][a] /\ current[p][a] = None
          /\ task[p][a] = (IF p = "poll" THEN "hand_over" ELSE "idle")
          /\ held' = [held EXCEPT ![p][a] = @ \ {m}]
          /\ UNCHANGED <<task, current, running, given>>
          /\ UNCHANGED <<netVars, subs, chan, reqVars, disturbed, events>>
      BY <2>0, <2>1 DEF Handing
    <3>1. NothingTakenBack
      BY <3>0, <1>a, <1>b, Constants DEF NothingTakenBack
    <3>2. ASSUME NEW s \in Requests, NEW n \in sent' \ expired',
                Answers(n, s), Alone(s), req'[s] \notin {"answered", "failed"},
                <<Sender[s], "lapse">> \notin disturbed', n \in sent => n \in inbox[Sender[s]]
         PROVE  n \in inbox'[Sender[s]]
      BY <3>0, <3>2, <1>b, <1>c, Constants, TwoPaths, Destinations
    <3>3. NoAnswerDropped
      BY <3>2 DEF NoAnswerDropped
    <3> QED
      BY <3>1, <3>3, <1>a, WaitInvKept
  <2>2. CASE subs[a] # {}
    <3>0. /\ m \in held[p][a] /\ current[p][a] = None
          /\ task[p][a] = (IF p = "poll" THEN "hand_over" ELSE "idle")
          /\ held' = [held EXCEPT ![p][a] = @ \ {m}]
          /\ task' = [task EXCEPT ![p][a] = "hand_over"]
          /\ current' = [current EXCEPT ![p][a] = m]
          /\ running' = [running EXCEPT ![p][a] = subs[a]]
          /\ given' = Given(p, a, m)
          /\ UNCHANGED <<netVars, subs, chan, reqVars, disturbed, events>>
      BY <2>0, <2>2 DEF Handing
    <3>1. NothingTakenBack
      BY <3>0, <1>a, <1>b, Constants DEF NothingTakenBack
    <3>2. ASSUME NEW s \in Requests, NEW n \in sent' \ expired',
                Answers(n, s), Alone(s), req'[s] \notin {"answered", "failed"},
                <<Sender[s], "lapse">> \notin disturbed', n \in sent => n \in inbox[Sender[s]]
         PROVE  n \in inbox'[Sender[s]]
      BY <3>0, <3>2, <1>b, <1>c, Constants, TwoPaths, Destinations
    <3>3. NoAnswerDropped
      BY <3>2 DEF NoAnswerDropped
    <3> QED
      BY <3>1, <3>3, <1>a, WaitInvKept
  <2> QED
    BY <2>1, <2>2
<1>22. ASSUME NEW p \in Paths, NEW a \in Agents, Gathered(p, a) PROVE WaitInv'
  <2>1. CASE p = "poll"
    <3>0. /\ current[p][a] # None /\ running[p][a] = {}
          /\ current' = [current EXCEPT ![p][a] = None]
          /\ task' = task
          /\ UNCHANGED <<netVars, subs, chan, held, running, given, reqVars, disturbed, events>>
      BY <1>22, <2>1 DEF Gathered, Goto
    <3>1. NothingTakenBack
      BY <3>0, <1>a, <1>b, Constants DEF NothingTakenBack
    <3>2. ASSUME NEW s \in Requests, NEW n \in sent' \ expired',
                Answers(n, s), Alone(s), req'[s] \notin {"answered", "failed"},
                <<Sender[s], "lapse">> \notin disturbed', n \in sent => n \in inbox[Sender[s]]
         PROVE  n \in inbox'[Sender[s]]
      BY <3>0, <3>2, <1>b, <1>c, Constants, TwoPaths, Destinations
    <3>3. NoAnswerDropped
      BY <3>2 DEF NoAnswerDropped
    <3> QED
      BY <3>1, <3>3, <1>a, WaitInvKept
  <2>2. CASE p = "pubsub"
    <3>0. /\ current[p][a] # None /\ running[p][a] = {}
          /\ current' = [current EXCEPT ![p][a] = None]
          /\ task' = [task EXCEPT ![p][a] = "idle"]
          /\ UNCHANGED <<netVars, subs, chan, held, running, given, reqVars, disturbed, events>>
      BY <1>22, <2>2 DEF Gathered, Goto
    <3>1. NothingTakenBack
      BY <3>0, <1>a, <1>b, Constants DEF NothingTakenBack
    <3>2. ASSUME NEW s \in Requests, NEW n \in sent' \ expired',
                Answers(n, s), Alone(s), req'[s] \notin {"answered", "failed"},
                <<Sender[s], "lapse">> \notin disturbed', n \in sent => n \in inbox[Sender[s]]
         PROVE  n \in inbox'[Sender[s]]
      BY <3>0, <3>2, <1>b, <1>c, Constants, TwoPaths, Destinations
    <3>3. NoAnswerDropped
      BY <3>2 DEF NoAnswerDropped
    <3> QED
      BY <3>1, <3>3, <1>a, WaitInvKept
  <2> QED
    BY <2>1, <2>2, TwoPaths
<1>23. ASSUME NEW p \in Paths, NEW a \in Agents, NEW c \in Callbacks, EndCallback(p, a, c)
       PROVE WaitInv'
  <2>1. CASE UNCHANGED netVars
    <3>0. /\ c \in running[p][a] /\ running' = [running EXCEPT ![p][a] = @ \ {c}]
          /\ UNCHANGED <<subs, chan, task, held, current, given, reqVars, disturbed, events>>
          /\ UNCHANGED netVars
      BY <1>23, <2>1 DEF EndCallback, Add
    <3>1. NothingTakenBack
      BY <3>0, <1>a, <1>b, Constants DEF NothingTakenBack
    <3>2. ASSUME NEW s \in Requests, NEW n \in sent' \ expired',
                Answers(n, s), Alone(s), req'[s] \notin {"answered", "failed"},
                <<Sender[s], "lapse">> \notin disturbed', n \in sent => n \in inbox[Sender[s]]
         PROVE  n \in inbox'[Sender[s]]
      BY <3>0, <3>2, <1>b, <1>c, Constants, TwoPaths, Destinations
    <3>3. NoAnswerDropped
      BY <3>2 DEF NoAnswerDropped
    <3> QED
      BY <3>1, <3>3, <1>a, WaitInvKept
  <2>2. CASE current[p][a] \in Requests /\ Add(<<current[p][a], c, p>>)
    <3>0. /\ c \in running[p][a] /\ running' = [running EXCEPT ![p][a] = @ \ {c}]
          /\ UNCHANGED <<subs, chan, task, held, current, given, reqVars, disturbed, events>>
          /\ current[p][a] \in Requests
          /\ inbox' = [inbox EXCEPT ![Sender[current[p][a]]] = @ \cup {<<current[p][a], c, p>>}]
          /\ publishing' = publishing \cup {<<current[p][a], c, p>>}
          /\ sent' = sent \cup {<<current[p][a], c, p>>}
          /\ UNCHANGED <<dlq, expired>>
          /\ <<current[p][a], c, p>> \in Messages /\ <<current[p][a], c, p>> \notin Requests
          /\ Dest(<<current[p][a], c, p>>) = Sender[current[p][a]]
      BY <1>23, <2>2, Replying DEF EndCallback, Add
    <3>1. NothingTakenBack
      BY <3>0, <1>a, <1>b, Constants DEF NothingTakenBack
    <3>2. ASSUME NEW s \in Requests, NEW n \in sent' \ expired',
                Answers(n, s), Alone(s), req'[s] \notin {"answered", "failed"},
                <<Sender[s], "lapse">> \notin disturbed', n \in sent => n \in inbox[Sender[s]]
         PROVE  n \in inbox'[Sender[s]]
      <4>1. CASE n \in sent
        BY <3>0, <3>2, <4>1, <1>b, Constants
      <4>2. CASE n = <<current[p][a], c, p>>
        <5>1. current[p][a] = s
          BY <3>2, <4>2 DEF Answers
        <5> QED
          BY <3>0, <4>2, <5>1, <1>b, Constants
      <4> QED
        BY <3>0, <4>1, <4>2
    <3>3. NoAnswerDropped
      BY <3>2 DEF NoAnswerDropped
    <3> QED
      BY <3>1, <3>3, <1>a, WaitInvKept
  <2> QED
    BY <1>23, <2>1, <2>2 DEF EndCallback
<1>24. CASE UNCHANGED vars
  <2>1. NothingTakenBack
    BY <1>24, <1>a, <1>b, Constants DEF NothingTakenBack, vars
  <2>2. ASSUME NEW s \in Requests, NEW n \in sent' \ expired',
              Answers(n, s), Alone(s), req'[s] \notin {"answered", "failed"},
              <<Sender[s], "lapse">> \notin disturbed', n \in sent => n \in inbox[Sender[s]]
       PROVE  n \in inbox'[Sender[s]]
    BY <1>24, <2>2, <1>b, <1>c, Constants, TwoPaths, Destinations DEF vars
  <2>3. NoAnswerDropped
    BY <2>2 DEF NoAnswerDropped
  <2> QED
    BY <2>1, <2>3, <1>a, WaitInvKept

<1> QED
  BY <1>1, <1>2, <1>3, <1>4, <1>5, <1>6, <1>7, <1>8, <1>9, <1>10, <1>11,
     <1>12, <1>13, <1>14, <1>15, <1>16, <1>17, <1>18, <1>19, <1>20, <1>21,
     <1>22, <1>23, <1>24
  DEF Next, RequestStep, PollStep, TaskStep
-----------------------------------------------------------------------------
(* The inductive invariant holds in every reachable state. *)
LEMMA Invariance == Spec => []IInv
<1>1. IInv /\ [Next]_vars => IInv'
  BY TypeStep, MessageStep, CallbackStep, ReplyStep, OnceStep, ChannelStep,
     LostStep, WaitStep DEF IInv
<1> QED
  BY InitIInv, <1>1, PTL DEF Spec

(* transport.py, direct.py, broker.py: the types; no callback runs without *)
(* a message.                                                              *)
THEOREM TypeCorrect == Spec => []TypeOK
<1>1. IInv => TypeOK
  BY DEF IInv
<1> QED
  BY Invariance, <1>1, PTL

(* direct.py:22-25, transport.py:65-81, 119-139: no path gives a callback  *)
(* the same message twice, however many channels are opened and closed and *)
(* tasks cancelled or killed on the way.                                   *)
THEOREM HandedOverOncePerPath == Spec => []OncePerPath
<1>1. IInv => OncePerPath
  BY DEF IInv, OnceInv
<1> QED
  BY Invariance, <1>1, PTL

(* transport.py:108-117: when every close of an agent's channels returned, *)
(* nothing is left that could call anybody.                                *)
THEOREM ClosedAgentsAreSilent == Spec => []ClosedIsSilent
<1>1. IInv => ClosedIsSilent
  <2> SUFFICES ASSUME IInv, NEW a \in Agents,
                      \A c \in Callbacks : Owner[c] = a => chan[c] \in {"new", "closed"}
               PROVE  /\ subs[a] = {}
                      /\ \A p \in Paths : task[p][a] = "none" /\ current[p][a] = None
    BY DEF ClosedIsSilent
  <2>1. KeptSubscriptions(a) /\ KeptListener(a) /\ KeptPoller(a)
    BY DEF IInv, ChannelInv
  <2>2. subs[a] = {}
    BY <2>1 DEF KeptSubscriptions, SomeChannel
  <2>3. task["pubsub"][a] = "none" /\ task["poll"][a] = "none"
    BY <2>1 DEF KeptListener, KeptPoller, SomeChannel
  <2>4. \A p \in Paths : current[p][a] # None => task[p][a] = "hand_over"
    BY DEF IInv, CallbackInv
  <2> QED
    BY <2>2, <2>3, <2>4, TwoPaths
<1> QED
  BY Invariance, <1>1, PTL

(* transport.py:44-81, 119-124: undisturbed, no unexpired message is lost. *)
THEOREM UndisturbedMessagesArrive == Spec => []NothingLost
<1>1. IInv => NothingLost
  BY DEF IInv
<1> QED
  BY Invariance, <1>1, PTL

(* broker.py:79-83: an answer comes from a callback of the recipient that  *)
(* had been called with the request.                                       *)
THEOREM AnswersAreEarned == Spec => []AnswerWasEarned
<1>1. IInv => AnswerWasEarned
  <2> SUFFICES ASSUME IInv, NEW r \in Requests, answer[r] # None
               PROVE  \E c \in Callbacks, p \in Paths :
                        /\ answer[r] = <<r, c, p>>
                        /\ Owner[c] = Recipient[r]
                        /\ given[p][c][r] > 0
    BY DEF AnswerWasEarned
  <2>1. answer[r] \in sent /\ answer[r] \in Replies /\ answer[r][1] = r
    BY DEF IInv, ReplyInv, Answers
  <2>2. PICK c \in Callbacks, p \in Paths : answer[r] = <<r, c, p>>
    BY <2>1 DEF Replies
  <2>3. given[p][c][r] > 0 /\ Owner[c] = Recipient[r]
    BY <2>1, <2>2 DEF IInv, ReplyInv
  <2> QED
    BY <2>2, <2>3
<1> QED
  BY Invariance, <1>1, PTL

(* broker.py:79-87: a request that timed out, and was alone with its inbox, *)
(* has not dropped its answer.                                             *)
THEOREM TimeoutsAreHonest == Spec => []TimeoutIsHonest
<1>1. IInv => TimeoutIsHonest
  BY DEF IInv, WaitInv, TimeoutIsHonest
<1> QED
  BY Invariance, <1>1, PTL

-----------------------------------------------------------------------------
(* A callback is called only with what was sent to its agent. *)
OnlyToTheAddressee ==
  \A p \in Paths, c \in Callbacks, m \in Messages :
    given[p][c][m] > 0 => Owner[c] = Dest(m)

(* A dead letter of a was sent to a, has expired, and left the inbox for   *)
(* good; where no request read the inbox, no poller hands it over any more *)
(* or has done so.                                                         *)
DeadLettersAreDead ==
  \A a \in Agents : \A m \in dlq[a] :
    /\ m \in sent /\ Dest(m) = a /\ m \in expired
    /\ m \notin inbox[a]
    /\ <<a, "reader">> \notin disturbed =>
         m \notin held["poll"][a] /\ \A c \in Callbacks : given["poll"][c][m] = 0

LetterInv == OnlyToTheAddressee /\ DeadLettersAreDead

(* The steps that neither call a callback nor bury a message. *)
LettersStay ==
  /\ dlq' = dlq /\ given' = given
  /\ expired \subseteq expired' /\ sent \subseteq sent' /\ disturbed \subseteq disturbed'
  /\ \A a \in Agents : inbox'[a] \cap sent \subseteq inbox[a]
  /\ \A a \in Agents : held'["poll"][a] \subseteq held["poll"][a] \cup inbox[a]

LEMMA LettersKept ==
  ASSUME LetterInv, LettersStay
  PROVE  LetterInv'
<1>1. OnlyToTheAddressee'
  BY DEF LetterInv, LettersStay, OnlyToTheAddressee, Dest
<1>2. ASSUME NEW a \in Agents, NEW m \in dlq'[a]
      PROVE  /\ m \in sent' /\ Dest(m) = a /\ m \in expired'
             /\ m \notin inbox'[a]
             /\ <<a, "reader">> \notin disturbed' =>
                  m \notin held'["poll"][a] /\ \A c \in Callbacks : given'["poll"][c][m] = 0
  BY <1>2 DEF LetterInv, LettersStay, DeadLettersAreDead
<1> QED
  BY <1>1, <1>2 DEF LetterInv, DeadLettersAreDead, Dest

(* A message that is taken out and has expired may become a dead letter. *)
LEMMA LettersBuried ==
  ASSUME TypeOK, MessageInv, LetterInv, NEW b \in Agents, NEW B \in SUBSET For(b),
         TakeOutAndBury(b, B), given' = given, disturbed \subseteq disturbed',
         \A a \in Agents : held'["poll"][a] \subseteq held["poll"][a],
         <<b, "reader">> \notin disturbed' =>
           /\ held'["poll"][b] \cap expired = {}
           /\ \A m \in B, c \in Callbacks : given["poll"][c][m] = 0
  PROVE  LetterInv'
<1>1. PICK D \in SUBSET (B \cap expired) : dlq' = [dlq EXCEPT ![b] = @ \cup D]
  <2>1. PICK failed \in SUBSET (B \cap expired) :
          dlq' = [dlq EXCEPT ![b] = @ \cup ((B \cap expired) \ failed)]
    BY DEF TakeOutAndBury
  <2> QED
    BY <2>1
<1>2. /\ inbox' = [inbox EXCEPT ![b] = @ \ B]
      /\ expired' = expired /\ sent' = sent
  BY DEF TakeOutAndBury
<1>3. dlq \in [Agents -> SUBSET Messages] /\ inbox \in [Agents -> SUBSET Messages]
  BY DEF TypeOK
<1>4. OnlyToTheAddressee'
  BY DEF LetterInv, OnlyToTheAddressee, Dest
<1>5. ASSUME NEW a \in Agents, NEW m \in dlq'[a]
      PROVE  /\ m \in sent' /\ Dest(m) = a /\ m \in expired'
             /\ m \notin inbox'[a]
             /\ <<a, "reader">> \notin disturbed' =>
                  m \notin held'["poll"][a] /\ \A c \in Callbacks : given'["poll"][c][m] = 0
  <2>1. CASE m \in dlq[a]
    BY <2>1, <1>2, <1>3 DEF LetterInv, DeadLettersAreDead
  <2>2. CASE m \notin dlq[a]
    <3>1. a = b /\ m \in B /\ m \in expired
      BY <2>2, <1>1, <1>3, <1>5
    <3> QED
      BY <3>1, <1>2, <1>3 DEF For
  <2> QED
    BY <2>1, <2>2
<1> QED
  BY <1>4, <1>5 DEF LetterInv, DeadLettersAreDead, Dest

LEMMA LetterStep == IInv /\ LetterInv /\ [Next]_vars => LetterInv'
<1> SUFFICES ASSUME IInv, LetterInv, [Next]_vars PROVE LetterInv'
  OBVIOUS
<1> USE DEF netVars, taskVars, reqVars
<1>a. TypeOK /\ MessageInv /\ CallbackInv /\ ReplyInv /\ OnceInv
  BY DEF IInv
<1>b. /\ inbox \in [Agents -> SUBSET Messages] /\ sent \subseteq Messages
      /\ subs \in [Agents -> SUBSET Callbacks]
      /\ task \in [Paths -> [Agents -> TaskStates]]
      /\ held \in [Paths -> [Agents -> SUBSET Messages]]
      /\ given \in [Paths -> [Callbacks -> [Messages -> Nat]]]
      /\ got \in [Requests -> SUBSET Messages]
  BY <1>a DEF TypeOK
<1>1. ASSUME NEW r \in Requests, SendRequest(r) PROVE LettersStay
  <2>1. r \notin sent
    BY <1>1, <1>a DEF SendRequest, MessageInv
  <2> QED
    BY <1>1, <2>1, <1>b DEF SendRequest, Add, LettersStay
<1>2. ASSUME NEW r \in Requests, Refuse(r) PROVE LettersStay
  BY <1>2, <1>b, TwoPaths DEF Refuse, LettersStay
<1>3. ASSUME NEW r \in Requests, RequestRead(r) PROVE LettersStay
  BY <1>3, <1>b, TwoPaths DEF RequestRead, LettersStay
<1>4. ASSUME NEW r \in Requests, RequestRemove(r) PROVE LetterInv'
  <2>1. /\ TakeOutAndBury(Sender[r], got[r])
        /\ disturbed' = disturbed \cup {<<Sender[r], "reader">>}
        /\ UNCHANGED taskVars
    BY <1>4 DEF RequestRemove, Disturb
  <2>2. Sender[r] \in Agents /\ got[r] \in SUBSET For(Sender[r])
    BY <1>a, Constants DEF MessageInv
  <2> QED
    BY <2>1, <2>2, <1>a, LettersBuried
<1>5. ASSUME NEW r \in Requests, RequestTimeout(r) PROVE LettersStay
  BY <1>5, <1>b, TwoPaths DEF RequestTimeout, LettersStay
<1>6. ASSUME NEW r \in Requests, RequestFails(r) PROVE LettersStay
  BY <1>6, <1>b, TwoPaths DEF RequestFails, TakeOut, Disturb, LettersStay
<1>7. ASSUME NEW m \in Messages, Publish(m) PROVE LettersStay
  <2>1. /\ UNCHANGED <<inbox, dlq, expired, sent, given, disturbed>>
        /\ held' = held \/ held' = [held EXCEPT !["pubsub"][Dest(m)] = @ \cup {m}]
    BY <1>7 DEF Publish
  <2> QED
    BY <2>1, <1>b, TwoPaths DEF LettersStay
<1>8. ASSUME NEW m \in Messages, PublishFails(m) PROVE LettersStay
  BY <1>8, <1>b, TwoPaths DEF PublishFails, LettersStay
<1>9. ASSUME NEW m \in Messages, Expire(m) PROVE LettersStay
  BY <1>9, <1>b, TwoPaths DEF Expire, LettersStay
<1>10. ASSUME NEW c \in Callbacks, OpenChannel(c) PROVE LettersStay
  BY <1>10, <1>b, TwoPaths DEF OpenChannel, LettersStay
<1>11. ASSUME NEW c \in Callbacks, ReceiveOnce(c) PROVE LettersStay
  BY <1>11, <1>b, TwoPaths DEF ReceiveOnce, LettersStay
<1>12. ASSUME NEW c \in Callbacks, Close(c) PROVE LettersStay
  BY <1>12, <1>b, TwoPaths
  DEF Close, StopTask, EndTask, TakeOut, Disturb, LettersStay
<1>13. ASSUME NEW c \in Callbacks, StopPoller(c) PROVE LettersStay
  BY <1>13, <1>b, TwoPaths
  DEF StopPoller, StopTask, EndTask, TakeOut, Disturb, LettersStay
<1>14. ASSUME NEW c \in Callbacks, DropSubscriptions(c) PROVE LettersStay
  BY <1>14, <1>b, TwoPaths DEF DropSubscriptions, LettersStay
<1>15. ASSUME NEW a \in Agents, LapseInbox(a) PROVE LettersStay
  BY <1>15, <1>b, TwoPaths DEF LapseInbox, Disturb, LettersStay
<1>16. ASSUME NEW a \in Agents, Listening(a) PROVE LettersStay
  BY <1>16, <1>b, TwoPaths DEF Listening, LettersStay
<1>17. ASSUME NEW a \in Agents, PollRead(a) PROVE LettersStay
  BY <1>17, <1>b, TwoPaths DEF PollRead, Batches, LettersStay
<1>18. ASSUME NEW b \in Agents, PollRemove(b) PROVE LetterInv'
  <2>1. /\ TakeOutAndBury(b, held["poll"][b])
        /\ task["poll"][b] = "remove"
        /\ held' = [held EXCEPT !["poll"][b] = @ \ expired]
        /\ UNCHANGED <<given, disturbed>>
    BY <1>18 DEF PollRemove
  <2>2. held["poll"][b] \in SUBSET For(b)
    BY <1>a, TwoPaths DEF MessageInv
  <2>3. \A m \in held["poll"][b], c \in Callbacks : given["poll"][c][m] = 0
    <3> SUFFICES ASSUME NEW m \in held["poll"][b], NEW c \in Callbacks
                 PROVE  given["poll"][c][m] = 0
      OBVIOUS
    <3>1. m \in Messages /\ Dest(m) = b
      BY <2>2, <1>b DEF For
    <3>2. given["poll"][c][m] \in Nat /\ ~ (given["poll"][c][m] > 0)
      BY <3>1, <1>a, <1>b, TwoPaths DEF OnceInv
    <3> QED
      BY <3>2
  <2>4. /\ held'["poll"][b] \cap expired = {}
        /\ \A a \in Agents : held'["poll"][a] \subseteq held["poll"][a]
    BY <2>1, <1>b, TwoPaths
  <2> QED
    BY <2>1, <2>2, <2>3, <2>4, <1>a, LettersBuried
<1>19. ASSUME NEW a \in Agents, PollAgain(a) PROVE LettersStay
  BY <1>19, <1>b, TwoPaths DEF PollAgain, LettersStay
<1>20. ASSUME NEW p \in Paths, NEW a \in Agents, TaskFails(p, a)
       PROVE LettersStay
  BY <1>20, <1>b, TwoPaths
  DEF TaskFails, EndTask, TakeOut, Disturb, LettersStay
<1>21. ASSUME NEW p \in Paths, NEW b \in Agents, HandOver(p, b)
       PROVE LetterInv'
  <2>1. PICK m \in Messages : Handing(p, b, m)
    BY <1>21, <1>a, HandingOver
  <2>2. /\ m \in held[p][b] /\ held' = [held EXCEPT ![p][b] = @ \ {m}]
        /\ UNCHANGED netVars /\ disturbed' = disturbed
        /\ given' = given \/ given' = Given(p, b, m)
    BY <2>1 DEF Handing
  <2>3. Dest(m) = b
    BY <2>2, <1>a DEF MessageInv, For
  <2>4. CASE given' = given
    <3>1. LettersStay
      BY <2>2, <2>4, <1>b, TwoPaths DEF LettersStay
    <3> QED
      BY <3>1, LettersKept
  <2>5. CASE given' = Given(p, b, m)
    <3>1. \A q \in Paths, c \in Callbacks, n \in Messages :
            given'[q][c][n] = IF q = p /\ c \in subs[b] /\ n = m
                                THEN given[q][c][n] + 1 ELSE given[q][c][n]
      BY <2>5 DEF Given
    <3>2. \A c \in subs[b] : Owner[c] = b
      BY <1>a DEF CallbackInv
    <3>3. OnlyToTheAddressee'
      BY <3>1, <3>2, <2>3 DEF LetterInv, OnlyToTheAddressee, Dest
    <3>4. ASSUME NEW a \in Agents, NEW n \in dlq'[a]
          PROVE  /\ n \in sent' /\ Dest(n) = a /\ n \in expired'
                 /\ n \notin inbox'[a]
                 /\ <<a, "reader">> \notin disturbed' =>
                      n \notin held'["poll"][a] /\ \A c \in Callbacks : given'["poll"][c][n] = 0
      <4>1. /\ n \in sent /\ Dest(n) = a /\ n \in expired /\ n \notin inbox[a]
            /\ <<a, "reader">> \notin disturbed =>
                 n \notin held["poll"][a] /\ \A c \in Callbacks : given["poll"][c][n] = 0
        BY <3>4, <2>2 DEF LetterInv, DeadLettersAreDead
      <4>2. n \in Messages
        BY <4>1, <1>b
      <4>3. <<a, "reader">> \notin disturbed /\ n = m => p # "poll"
        BY <4>1, <2>2, <2>3
      <4>4. held'["poll"][a] \subseteq held["poll"][a]
        BY <2>2, <1>b, TwoPaths
      <4> QED
        BY <4>1, <4>2, <4>3, <4>4, <3>1, <2>2, TwoPaths
    <3> QED
      BY <3>3, <3>4 DEF LetterInv, DeadLettersAreDead, Dest
  <2> QED
    BY <2>2, <2>4, <2>5
<1>22. ASSUME NEW p \in Paths, NEW a \in Agents, Gathered(p, a)
       PROVE LettersStay
  BY <1>22, <1>b, TwoPaths DEF Gathered, LettersStay
<1>23. ASSUME NEW p \in Paths, NEW a \in Agents, NEW c \in Callbacks, EndCallback(p, a, c)
       PROVE LettersStay
  <2>1. UNCHANGED <<held, given, disturbed>>
    BY <1>23 DEF EndCallback
  <2>2. CASE UNCHANGED netVars
    BY <2>1, <2>2 DEF LettersStay
  <2>3. CASE current[p][a] \in Requests /\ Add(<<current[p][a], c, p>>)
    <3>1. <<current[p][a], c, p>> \notin sent
      BY <1>23, <2>3, <1>a DEF EndCallback, ReplyInv
    <3> QED
      BY <2>1, <2>3, <3>1, <1>b DEF Add, LettersStay
  <2> QED
    BY <1>23, <2>2, <2>3 DEF EndCallback
<1>24. CASE UNCHANGED vars
  <2>1. LettersStay
    BY <1>24 DEF vars, LettersStay
  <2> QED
    BY <2>1, LettersKept
<1> QED
  BY <1>1, <1>2, <1>3, <1>4, <1>5, <1>6, <1>7, <1>8, <1>9, <1>10, <1>11,
     <1>12, <1>13, <1>14, <1>15, <1>16, <1>17, <1>18, <1>19, <1>20, <1>21,
     <1>22, <1>23, <1>24, LettersKept
  DEF Next, RequestStep, PollStep, TaskStep

LEMMA LettersInvariant == Spec => []LetterInv
<1>1. Init => LetterInv
  BY TwoPaths DEF Init, LetterInv, OnlyToTheAddressee, DeadLettersAreDead
<1> QED
  BY <1>1, LetterStep, Invariance, PTL DEF Spec

(* transport.py:83-139: the tasks, subscriptions and channels are kept by  *)
(* the agent's id; whatever is opened, closed, cancelled or killed, no     *)
(* callback is called with a message to another agent.                     *)
THEOREM OnlyTheAddresseeIsCalled == Spec => []OnlyToTheAddressee
<1>1. LetterInv => OnlyToTheAddressee
  BY DEF LetterInv
<1> QED
  BY LettersInvariant, <1>1, PTL

(* transport.py:65-81: what is in the dead letters has expired, was sent   *)
(* to that agent, and is never offered again; the poller that buried it    *)
(* has not handed it over and never will, unless a request_response read   *)
(* the same inbox and raced it to the message.                             *)
THEOREM TheDeadLettersAreDead == Spec => []DeadLettersAreDead
<1>1. LetterInv => DeadLettersAreDead
  BY DEF LetterInv
<1> QED
  BY LettersInvariant, <1>1, PTL
=============================================================================
