-------------------------- MODULE A2ARegistryProofs --------------------------
(***************************************************************************)
(* Proofs about A2ARegistry, for any agents, lookups and times with        *)
(* Interval < AgentTtl < IndexTtl.                                         *)
(*                                                                         *)
(* The properties speak of agents between two heartbeats; the inductive    *)
(* invariant follows an agent from the first command of its registration:  *)
(* what it has written, and how much of its time is used up by then.       *)
(***************************************************************************)
EXTENDS A2ARegistry, TLAPS

(* a's record while its commands come in time. *)
RecordInv(a) ==
  /\ life[a] = "register" => hand[a] = 0
  /\ life[a] \in {"index", "expire"} => ttl[a] = AgentTtl /\ age[a] = 0
  /\ life[a] \in {"get", "set"} => ttl[a] + Interval >= AgentTtl /\ age[a] <= Interval
  /\ life[a] = "set" => hand[a] = 0
  /\ life[a] = "sleep" =>
       timer[a] <= Interval /\ ttl[a] + timer[a] >= AgentTtl /\ age[a] <= timer[a]

(* The index while it knows a. *)
IndexInv(a) ==
  /\ life[a] = "expire" => a \in members
  /\ life[a] \in Beating /\ since[a] < IndexTtl =>
       a \in members /\ index_ttl + since[a] >= IndexTtl

AliveInv == \A a \in Agents : a \notin slow \cup pruned \cup stale => RecordInv(a) /\ IndexInv(a)

CheckInv == check \in {"srem", "delete"} => victim \in stale

EndInv ==
  \A a \in Agents :
    /\ life[a] = "stopped" => ttl[a] = 0
    /\ life[a] = "crashed" => ttl[a] + timer[a] <= AgentTtl

LookupInv ==
  \A l \in Lookups :
    /\ lookup[l] = "idle" => ids[l] = {} /\ found[l] = {}
    /\ \A a \in gone[l] : life[a] = "stopped" /\ a \notin found[l]

IInv == TypeOK /\ CheckInv /\ AliveInv /\ EndInv /\ LookupInv

-----------------------------------------------------------------------------
LEMMA Times ==
  /\ Interval \in Nat /\ AgentTtl \in Nat /\ IndexTtl \in Nat /\ MaxEvents \in Nat
  /\ Interval < AgentTtl /\ AgentTtl < IndexTtl
  BY RegistryAssumption

(* The initial state satisfies the inductive invariant. *)
LEMMA InitIInv == Init => IInv
<1> SUFFICES ASSUME Init PROVE IInv
  OBVIOUS
<1> USE Times DEF Init
<1>1. TypeOK
  BY DEF TypeOK, LifeStates, Forever
<1>2. CheckInv /\ AliveInv /\ EndInv /\ LookupInv
  BY DEF CheckInv, AliveInv, RecordInv, IndexInv, EndInv, LookupInv, Beating
<1> QED
  BY <1>1, <1>2 DEF IInv

-----------------------------------------------------------------------------
(* Every step keeps the types. *)
LEMMA TypeStep == TypeOK /\ CheckInv /\ [Next]_vars => TypeOK' /\ CheckInv'
<1> SUFFICES ASSUME TypeOK, CheckInv, [Next]_vars PROVE TypeOK' /\ CheckInv'
  OBVIOUS
<1> USE DEF TypeOK, CheckInv, redisVars, agentVars, checkVars, lookupVars
<1>1. ASSUME Tick PROVE TypeOK' /\ CheckInv'
  BY <1>1, Times DEF Tick, InTime, Aging, Sooner, LifeStates, Forever, Beating
<1>2. ASSUME NEW a \in Agents, Announce(a) PROVE TypeOK' /\ CheckInv'
  BY <1>2, Times DEF Announce, Go, Count, LifeStates, Forever
<1>3. ASSUME NEW a \in Agents, Register(a) PROVE TypeOK' /\ CheckInv'
  BY <1>3, Times DEF Register, Go, Stay, Write, LifeStates, Forever
<1>4. ASSUME NEW a \in Agents, AddToIndex(a) PROVE TypeOK' /\ CheckInv'
  BY <1>4, Times DEF AddToIndex, Go, Stay, LifeStates, Forever
<1>5. ASSUME NEW a \in Agents, ExpireIndex(a) PROVE TypeOK' /\ CheckInv'
  BY <1>5, Times DEF ExpireIndex, Go, Stay, LifeStates, Forever
<1>6. ASSUME NEW a \in Agents, Get(a) PROVE TypeOK' /\ CheckInv'
  BY <1>6, Times DEF Get, Go, Stay, LifeStates, Forever
<1>7. ASSUME NEW a \in Agents, Set(a) PROVE TypeOK' /\ CheckInv'
  BY <1>7, Times DEF Set, Go, Stay, Write, LifeStates, Forever
<1>8. ASSUME NEW a \in Agents, Wake(a) PROVE TypeOK' /\ CheckInv'
  BY <1>8, Times DEF Wake, Go, Stay, LifeStates, Forever
<1>9. ASSUME NEW a \in Agents, BeatFails(a) PROVE TypeOK' /\ CheckInv'
  BY <1>9, Times DEF BeatFails, Go, Stay, LifeStates, Forever
<1>10. ASSUME NEW a \in Agents, Stop(a) PROVE TypeOK' /\ CheckInv'
  BY <1>10, Times DEF Stop, Go, Stay, Write, LifeStates, Forever
<1>11. ASSUME NEW a \in Agents, StopGet(a) PROVE TypeOK' /\ CheckInv'
  BY <1>11, Times DEF StopGet, Go, Stay, LifeStates, Forever
<1>12. ASSUME NEW a \in Agents, StopSrem(a) PROVE TypeOK' /\ CheckInv'
  BY <1>12, Times DEF StopSrem, Go, Stay, RemoveFromIndex, LifeStates, Forever
<1>13. ASSUME NEW a \in Agents, StopDelete(a) PROVE TypeOK' /\ CheckInv'
  BY <1>13, Times DEF StopDelete, Go, Stay, Delete, LifeStates, Forever
<1>14. ASSUME NEW a \in Agents, Crash(a) PROVE TypeOK' /\ CheckInv'
  BY <1>14, Times DEF Crash, Go, Count, LifeStates, Forever
<1>15. ASSUME NEW a \in Agents, Hang(a) PROVE TypeOK' /\ CheckInv'
  BY <1>15, Times DEF Hang, Count, LifeStates, Forever
<1>16. ASSUME NEW a \in Agents, CheckAgent(a) PROVE TypeOK' /\ CheckInv'
  BY <1>16, Times DEF CheckAgent, LifeStates, Forever
<1>17. ASSUME NEW a \in Agents, PruneGet(a) PROVE TypeOK' /\ CheckInv'
  BY <1>17, Times DEF PruneGet, LifeStates, Forever
<1>18. ASSUME StartCheck PROVE TypeOK' /\ CheckInv'
  BY <1>18, Times DEF StartCheck, Count, LifeStates, Forever
<1>19. ASSUME PruneSrem PROVE TypeOK' /\ CheckInv'
  BY <1>19, Times DEF PruneSrem, RemoveFromIndex, LifeStates, Forever
<1>20. ASSUME PruneDelete PROVE TypeOK' /\ CheckInv'
  BY <1>20, Times DEF PruneDelete, Delete, LifeStates, Forever
<1>21. ASSUME EndCheck PROVE TypeOK' /\ CheckInv'
  BY <1>21, Times DEF EndCheck, LifeStates, Forever
<1>22. ASSUME NEW l \in Lookups, ReadIndex(l) PROVE TypeOK' /\ CheckInv'
  BY <1>22, Times DEF ReadIndex, Count, LifeStates, Forever
<1>23. ASSUME NEW l \in Lookups, Choose(l) PROVE TypeOK' /\ CheckInv'
  BY <1>23, Times DEF Choose, LifeStates, Forever
<1>24. ASSUME NEW l \in Lookups, NEW a \in Agents, ReadRecord(l, a)
       PROVE TypeOK' /\ CheckInv'
  BY <1>24, Times DEF ReadRecord, LifeStates, Forever
<1>25. CASE UNCHANGED vars
  BY <1>25, Times DEF vars
<1> QED
  BY <1>1, <1>2, <1>3, <1>4, <1>5, <1>6, <1>7, <1>8, <1>9, <1>10, <1>11,
     <1>12, <1>13, <1>14, <1>15, <1>16, <1>17, <1>18, <1>19, <1>20, <1>21,
     <1>22, <1>23, <1>24, <1>25
  DEF Next, AgentStep
-----------------------------------------------------------------------------
(* A stopped agent has no record, a dead one not for long. *)
LEMMA EndStep == IInv /\ [Next]_vars => EndInv'
<1> SUFFICES ASSUME IInv, [Next]_vars PROVE EndInv'
  OBVIOUS
<1> USE DEF redisVars, agentVars, checkVars, lookupVars
<1> USE DEF EndInv
<1>a. EndInv /\ TypeOK /\ CheckInv
  BY DEF IInv
<1>b. /\ ttl \in [Agents -> 0 .. AgentTtl] /\ age \in [Agents -> 0 .. AgentTtl]
      /\ life \in [Agents -> LifeStates]
      /\ timer \in [Agents -> 0 .. AgentTtl] /\ hand \in [Agents -> 0 .. AgentTtl]
      /\ since \in [Agents -> 0 .. IndexTtl] /\ index_ttl \in 0 .. Forever
      /\ index_ttl = 0 <=> members = {}
      /\ lookup \in [Lookups -> {"idle", "look"}]
      /\ ids \in [Lookups -> SUBSET Agents]
      /\ found \in [Lookups -> SUBSET Agents] /\ gone \in [Lookups -> SUBSET Agents]
  BY <1>a DEF TypeOK
<1>1. ASSUME Tick PROVE EndInv'
  BY <1>1, <1>a, <1>b, Times DEF Tick, InTime, Aging, Sooner, LifeStates, Down
<1>2. ASSUME NEW a \in Agents, Announce(a) PROVE EndInv'
  BY <1>2, <1>a, <1>b, Times DEF Announce, Go, Count, LifeStates, Down
<1>3. ASSUME NEW a \in Agents, Register(a) PROVE EndInv'
  BY <1>3, <1>a, <1>b, Times DEF Register, Go, Stay, Write
<1>4. ASSUME NEW a \in Agents, AddToIndex(a) PROVE EndInv'
  BY <1>4, <1>a, <1>b, Times DEF AddToIndex, Go, Stay
<1>5. ASSUME NEW a \in Agents, ExpireIndex(a) PROVE EndInv'
  BY <1>5, <1>a, <1>b, Times DEF ExpireIndex, Go, Stay
<1>6. ASSUME NEW a \in Agents, Get(a) PROVE EndInv'
  BY <1>6, <1>a, <1>b, Times DEF Get, Go, Stay
<1>7. ASSUME NEW a \in Agents, Set(a) PROVE EndInv'
  BY <1>7, <1>a, <1>b, Times DEF Set, Go, Stay, Write
<1>8. ASSUME NEW a \in Agents, Wake(a) PROVE EndInv'
  BY <1>8, <1>a, <1>b, Times DEF Wake, Go, Stay
<1>9. ASSUME NEW a \in Agents, BeatFails(a) PROVE EndInv'
  BY <1>9, <1>a, <1>b, Times DEF BeatFails, Go, Stay
<1>10. ASSUME NEW a \in Agents, Stop(a) PROVE EndInv'
  BY <1>10, <1>a, <1>b, Times DEF Stop, Go, Stay, Write
<1>11. ASSUME NEW a \in Agents, StopGet(a) PROVE EndInv'
  BY <1>11, <1>a, <1>b, Times DEF StopGet, Go, Stay
<1>12. ASSUME NEW a \in Agents, StopSrem(a) PROVE EndInv'
  BY <1>12, <1>a, <1>b, Times DEF StopSrem, Go, Stay, RemoveFromIndex
<1>13. ASSUME NEW a \in Agents, StopDelete(a) PROVE EndInv'
  BY <1>13, <1>a, <1>b, Times DEF StopDelete, Go, Stay, Delete
<1>14. ASSUME NEW a \in Agents, Crash(a) PROVE EndInv'
  BY <1>14, <1>a, <1>b, Times DEF Crash, Go, Count, LifeStates, Down
<1>15. ASSUME NEW a \in Agents, Hang(a) PROVE EndInv'
  BY <1>15, <1>a, <1>b, Times DEF Hang, Count
<1>16. ASSUME NEW a \in Agents, CheckAgent(a) PROVE EndInv'
  BY <1>16, <1>a, <1>b, Times DEF CheckAgent
<1>17. ASSUME NEW a \in Agents, PruneGet(a) PROVE EndInv'
  BY <1>17, <1>a, <1>b, Times DEF PruneGet
<1>18. ASSUME StartCheck PROVE EndInv'
  BY <1>18, <1>a, <1>b, Times DEF StartCheck, Count
<1>19. ASSUME PruneSrem PROVE EndInv'
  BY <1>19, <1>a, <1>b, Times DEF PruneSrem, RemoveFromIndex
<1>20. ASSUME PruneDelete PROVE EndInv'
  BY <1>20, <1>a, <1>b, Times DEF PruneDelete, Delete
<1>21. ASSUME EndCheck PROVE EndInv'
  BY <1>21, <1>a, <1>b, Times DEF EndCheck
<1>22. ASSUME NEW l \in Lookups, ReadIndex(l) PROVE EndInv'
  BY <1>22, <1>a, <1>b, Times DEF ReadIndex, Count
<1>23. ASSUME NEW l \in Lookups, Choose(l) PROVE EndInv'
  BY <1>23, <1>a, <1>b, Times DEF Choose
<1>24. ASSUME NEW l \in Lookups, NEW a \in Agents, ReadRecord(l, a)
       PROVE EndInv'
  BY <1>24, <1>a, <1>b, Times DEF ReadRecord
<1>25. CASE UNCHANGED vars
  BY <1>25, <1>a, <1>b, Times DEF vars
<1> QED
  BY <1>1, <1>2, <1>3, <1>4, <1>5, <1>6, <1>7, <1>8, <1>9, <1>10, <1>11,
     <1>12, <1>13, <1>14, <1>15, <1>16, <1>17, <1>18, <1>19, <1>20, <1>21,
     <1>22, <1>23, <1>24, <1>25
  DEF Next, AgentStep
-----------------------------------------------------------------------------
(* A lookup does not find who had stopped. *)
LEMMA LookupStep == IInv /\ [Next]_vars => LookupInv'
<1> SUFFICES ASSUME IInv, [Next]_vars PROVE LookupInv'
  OBVIOUS
<1> USE DEF redisVars, agentVars, checkVars, lookupVars
<1> USE DEF LookupInv
<1>a. LookupInv /\ TypeOK /\ CheckInv
  BY DEF IInv
<1>b. /\ ttl \in [Agents -> 0 .. AgentTtl] /\ age \in [Agents -> 0 .. AgentTtl]
      /\ life \in [Agents -> LifeStates]
      /\ timer \in [Agents -> 0 .. AgentTtl] /\ hand \in [Agents -> 0 .. AgentTtl]
      /\ since \in [Agents -> 0 .. IndexTtl] /\ index_ttl \in 0 .. Forever
      /\ index_ttl = 0 <=> members = {}
      /\ lookup \in [Lookups -> {"idle", "look"}]
      /\ ids \in [Lookups -> SUBSET Agents]
      /\ found \in [Lookups -> SUBSET Agents] /\ gone \in [Lookups -> SUBSET Agents]
  BY <1>a DEF TypeOK
<1>c. EndInv
  BY DEF IInv
<1>1. ASSUME Tick PROVE LookupInv'
  BY <1>1, <1>a, <1>b DEF Tick, InTime, Aging, Sooner
<1>2. ASSUME NEW a \in Agents, Announce(a) PROVE LookupInv'
  BY <1>2, <1>a, <1>b DEF Announce, Go, Count, Down
<1>3. ASSUME NEW a \in Agents, Register(a) PROVE LookupInv'
  BY <1>3, <1>a, <1>b DEF Register, Go, Stay, Write
<1>4. ASSUME NEW a \in Agents, AddToIndex(a) PROVE LookupInv'
  BY <1>4, <1>a, <1>b DEF AddToIndex, Go, Stay
<1>5. ASSUME NEW a \in Agents, ExpireIndex(a) PROVE LookupInv'
  BY <1>5, <1>a, <1>b DEF ExpireIndex, Go, Stay
<1>6. ASSUME NEW a \in Agents, Get(a) PROVE LookupInv'
  BY <1>6, <1>a, <1>b DEF Get, Go, Stay
<1>7. ASSUME NEW a \in Agents, Set(a) PROVE LookupInv'
  BY <1>7, <1>a, <1>b DEF Set, Go, Stay, Write
<1>8. ASSUME NEW a \in Agents, Wake(a) PROVE LookupInv'
  BY <1>8, <1>a, <1>b DEF Wake, Go, Stay
<1>9. ASSUME NEW a \in Agents, BeatFails(a) PROVE LookupInv'
  BY <1>9, <1>a, <1>b DEF BeatFails, Go, Stay
<1>10. ASSUME NEW a \in Agents, Stop(a) PROVE LookupInv'
  BY <1>10, <1>a, <1>b DEF Stop, Go, Stay, Write, Beating
<1>11. ASSUME NEW a \in Agents, StopGet(a) PROVE LookupInv'
  BY <1>11, <1>a, <1>b DEF StopGet, Go, Stay
<1>12. ASSUME NEW a \in Agents, StopSrem(a) PROVE LookupInv'
  BY <1>12, <1>a, <1>b DEF StopSrem, Go, Stay, RemoveFromIndex
<1>13. ASSUME NEW a \in Agents, StopDelete(a) PROVE LookupInv'
  BY <1>13, <1>a, <1>b DEF StopDelete, Go, Stay, Delete
<1>14. ASSUME NEW a \in Agents, Crash(a) PROVE LookupInv'
  BY <1>14, <1>a, <1>b DEF Crash, Go, Count, Down
<1>15. ASSUME NEW a \in Agents, Hang(a) PROVE LookupInv'
  BY <1>15, <1>a, <1>b DEF Hang, Count, Down
<1>16. ASSUME NEW a \in Agents, CheckAgent(a) PROVE LookupInv'
  BY <1>16, <1>a, <1>b DEF CheckAgent
<1>17. ASSUME NEW a \in Agents, PruneGet(a) PROVE LookupInv'
  BY <1>17, <1>a, <1>b DEF PruneGet
<1>18. ASSUME StartCheck PROVE LookupInv'
  BY <1>18, <1>a, <1>b DEF StartCheck, Count
<1>19. ASSUME PruneSrem PROVE LookupInv'
  BY <1>19, <1>a, <1>b DEF PruneSrem, RemoveFromIndex
<1>20. ASSUME PruneDelete PROVE LookupInv'
  BY <1>20, <1>a, <1>b DEF PruneDelete, Delete
<1>21. ASSUME EndCheck PROVE LookupInv'
  BY <1>21, <1>a, <1>b DEF EndCheck
<1>22. ASSUME NEW l \in Lookups, ReadIndex(l) PROVE LookupInv'
  BY <1>22, <1>a, <1>b DEF ReadIndex, Count
<1>23. ASSUME NEW l \in Lookups, Choose(l) PROVE LookupInv'
  BY <1>23, <1>a, <1>b DEF Choose
<1>24. ASSUME NEW l \in Lookups, NEW a \in Agents, ReadRecord(l, a)
       PROVE LookupInv'
  BY <1>24, <1>a, <1>b, <1>c DEF ReadRecord, EndInv
<1>25. CASE UNCHANGED vars
  BY <1>25, <1>a, <1>b DEF vars
<1> QED
  BY <1>1, <1>2, <1>3, <1>4, <1>5, <1>6, <1>7, <1>8, <1>9, <1>10, <1>11,
     <1>12, <1>13, <1>14, <1>15, <1>16, <1>17, <1>18, <1>19, <1>20, <1>21,
     <1>22, <1>23, <1>24, <1>25
  DEF Next, AgentStep
-----------------------------------------------------------------------------
(* While its commands come in time, an agent is known and can be found. *)
LEMMA AliveStep == IInv /\ [Next]_vars => AliveInv'
<1> SUFFICES ASSUME IInv, [Next]_vars PROVE AliveInv'
  OBVIOUS
<1> USE DEF redisVars, agentVars, checkVars, lookupVars
<1> USE DEF AliveInv, RecordInv, IndexInv, Beating, Forever
<1>a. AliveInv /\ TypeOK /\ CheckInv
  BY DEF IInv
<1>b. /\ ttl \in [Agents -> 0 .. AgentTtl] /\ age \in [Agents -> 0 .. AgentTtl]
      /\ life \in [Agents -> LifeStates]
      /\ timer \in [Agents -> 0 .. AgentTtl] /\ hand \in [Agents -> 0 .. AgentTtl]
      /\ since \in [Agents -> 0 .. IndexTtl] /\ index_ttl \in 0 .. Forever
      /\ index_ttl = 0 <=> members = {}
      /\ lookup \in [Lookups -> {"idle", "look"}]
      /\ ids \in [Lookups -> SUBSET Agents]
      /\ found \in [Lookups -> SUBSET Agents] /\ gone \in [Lookups -> SUBSET Agents]
  BY <1>a DEF TypeOK
<1>1. ASSUME Tick PROVE AliveInv'
  BY <1>1, <1>a, <1>b, Times
  DEF Tick, InTime, Aging, Sooner, CheckInv, Down, AtWork, LifeStates
<1>2. ASSUME NEW a \in Agents, Announce(a) PROVE AliveInv'
  BY <1>2, <1>a, <1>b, Times
  DEF Announce, Go, Count, CheckInv, Down, AtWork, LifeStates
<1>3. ASSUME NEW a \in Agents, Register(a) PROVE AliveInv'
  BY <1>3, <1>a, <1>b, Times DEF Register, Go, Stay, Write
<1>4. ASSUME NEW a \in Agents, AddToIndex(a) PROVE AliveInv'
  BY <1>4, <1>a, <1>b, Times DEF AddToIndex, Go, Stay
<1>5. ASSUME NEW a \in Agents, ExpireIndex(a) PROVE AliveInv'
  BY <1>5, <1>a, <1>b, Times DEF ExpireIndex, Go, Stay
<1>6. ASSUME NEW a \in Agents, Get(a) PROVE AliveInv'
  BY <1>6, <1>a, <1>b, Times DEF Get, Go, Stay
<1>7. ASSUME NEW a \in Agents, Set(a) PROVE AliveInv'
  BY <1>7, <1>a, <1>b, Times DEF Set, Go, Stay, Write
<1>8. ASSUME NEW a \in Agents, Wake(a) PROVE AliveInv'
  BY <1>8, <1>a, <1>b, Times DEF Wake, Go, Stay
<1>9. ASSUME NEW a \in Agents, BeatFails(a) PROVE AliveInv'
  BY <1>9, <1>a, <1>b, Times DEF BeatFails, Go, Stay
<1>10. ASSUME NEW a \in Agents, Stop(a) PROVE AliveInv'
  BY <1>10, <1>a, <1>b, Times
  DEF Stop, Go, Stay, Write, CheckInv, Down, AtWork, LifeStates
<1>11. ASSUME NEW a \in Agents, StopGet(a) PROVE AliveInv'
  BY <1>11, <1>a, <1>b, Times DEF StopGet, Go, Stay
<1>12. ASSUME NEW a \in Agents, StopSrem(a) PROVE AliveInv'
  BY <1>12, <1>a, <1>b, Times DEF StopSrem, Go, Stay, RemoveFromIndex
<1>13. ASSUME NEW a \in Agents, StopDelete(a) PROVE AliveInv'
  BY <1>13, <1>a, <1>b, Times DEF StopDelete, Go, Stay, Delete
<1>14. ASSUME NEW a \in Agents, Crash(a) PROVE AliveInv'
  BY <1>14, <1>a, <1>b, Times
  DEF Crash, Go, Count, CheckInv, Down, AtWork, LifeStates
<1>15. ASSUME NEW a \in Agents, Hang(a) PROVE AliveInv'
  BY <1>15, <1>a, <1>b, Times DEF Hang, Count
<1>16. ASSUME NEW a \in Agents, CheckAgent(a) PROVE AliveInv'
  BY <1>16, <1>a, <1>b, Times DEF CheckAgent
<1>17. ASSUME NEW a \in Agents, PruneGet(a) PROVE AliveInv'
  BY <1>17, <1>a, <1>b, Times DEF PruneGet
<1>18. ASSUME StartCheck PROVE AliveInv'
  BY <1>18, <1>a, <1>b, Times DEF StartCheck, Count
<1>19. ASSUME PruneSrem PROVE AliveInv'
  BY <1>19, <1>a, <1>b, Times
  DEF PruneSrem, RemoveFromIndex, CheckInv, Down, AtWork, LifeStates
<1>20. ASSUME PruneDelete PROVE AliveInv'
  BY <1>20, <1>a, <1>b, Times
  DEF PruneDelete, Delete, CheckInv, Down, AtWork, LifeStates
<1>21. ASSUME EndCheck PROVE AliveInv'
  BY <1>21, <1>a, <1>b, Times DEF EndCheck
<1>22. ASSUME NEW l \in Lookups, ReadIndex(l) PROVE AliveInv'
  BY <1>22, <1>a, <1>b, Times DEF ReadIndex, Count
<1>23. ASSUME NEW l \in Lookups, Choose(l) PROVE AliveInv'
  BY <1>23, <1>a, <1>b, Times DEF Choose
<1>24. ASSUME NEW l \in Lookups, NEW a \in Agents, ReadRecord(l, a)
       PROVE AliveInv'
  BY <1>24, <1>a, <1>b, Times DEF ReadRecord
<1>25. CASE UNCHANGED vars
  BY <1>25, <1>a, <1>b, Times DEF vars
<1> QED
  BY <1>1, <1>2, <1>3, <1>4, <1>5, <1>6, <1>7, <1>8, <1>9, <1>10, <1>11,
     <1>12, <1>13, <1>14, <1>15, <1>16, <1>17, <1>18, <1>19, <1>20, <1>21,
     <1>22, <1>23, <1>24, <1>25
  DEF Next, AgentStep
-----------------------------------------------------------------------------
(* The inductive invariant holds in every reachable state. *)
LEMMA Invariance == Spec => []IInv
<1>1. IInv /\ [Next]_vars => IInv'
  BY TypeStep, AliveStep, EndStep, LookupStep DEF IInv
<1> QED
  BY InitIInv, <1>1, PTL DEF Spec

(* registry.py, heartbeat.py, healthcheck.py: the types; the index exists  *)
(* exactly when it has members.                                            *)
THEOREM TypeCorrect == Spec => []TypeOK
<1>1. IInv => TypeOK
  BY DEF IInv
<1> QED
  BY Invariance, <1>1, PTL

(* registry.py:103-112, healthcheck.py:55-60: an agent whose heartbeats are *)
(* in time is known all the time and never looks stale.                    *)
THEOREM TimelyAgentsAreKnown == Spec => []TimelyIsKnown
<1>1. IInv => TimelyIsKnown
  <2> SUFFICES ASSUME IInv, NEW a \in Agents, Healthy(a)
               PROVE  ttl[a] > 0 /\ age[a] < AgentTtl
    BY DEF TimelyIsKnown
  <2>1. RecordInv(a)
    BY DEF IInv, AliveInv, Healthy
  <2>2. ttl[a] \in Nat /\ age[a] \in Nat /\ timer[a] \in Nat
    BY DEF IInv, TypeOK
  <2> QED
    BY <2>1, <2>2, Times DEF RecordInv, Healthy, Beating
<1> QED
  BY Invariance, <1>1, PTL

(* registry.py:74-94, 114-121: until the index may expire, such an agent   *)
(* is in the index, whatever the other agents do between two commands.     *)
THEOREM FreshAgentsAreFindable == Spec => []FreshIsFindable
<1>1. IInv => FreshIsFindable
  BY DEF IInv, AliveInv, IndexInv, Healthy, FreshIsFindable
<1> QED
  BY Invariance, <1>1, PTL

(* heartbeat.py:39-48, registry.py:85-94: no lookup finds an agent that    *)
(* had stopped when the lookup began.                                      *)
THEOREM StoppedAgentsAreGone == Spec => []StoppedIsGone
<1>1. IInv => StoppedIsGone
  BY DEF IInv, LookupInv, StoppedIsGone
<1> QED
  BY Invariance, <1>1, PTL

(* registry.py:77, 111: a dead agent is forgotten after AgentTtl. *)
THEOREM DeadAgentsAreForgotten == Spec => []DeadIsForgotten
<1>1. IInv => DeadIsForgotten
  <2> SUFFICES ASSUME IInv, NEW a \in Agents, life[a] = "crashed", timer[a] = AgentTtl
               PROVE  ttl[a] = 0
    BY DEF DeadIsForgotten
  <2>1. ttl[a] \in Nat /\ ttl[a] + timer[a] <= AgentTtl
    BY DEF IInv, TypeOK, EndInv
  <2> QED
    BY <2>1, Times
<1> QED
  BY Invariance, <1>1, PTL
=============================================================================
