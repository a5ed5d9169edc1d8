-------------------------- MODULE AgentMemoryProofs --------------------------
(***************************************************************************)
(* Proofs about AgentMemory, for any requests, limits and sessions.        *)
(*                                                                         *)
(* Mirrored speaks of a store that is done while nothing is forgotten.     *)
(* What makes it inductive is StoreInv: what is in the rows and in the     *)
(* vectors at each stage of a store, and that between the two writes of a  *)
(* forget (DoneInv) what is still in the rows is among those it deletes;   *)
(* and RiskInv: while a store may replace the collection by an empty one,  *)
(* every vector there is is one of those that Mirrored excuses.            *)
(***************************************************************************)
EXTENDS AgentMemory, FiniteSetTheorems, TLAPS

Embeds == {"lookup", "create", "upsert"}
Deleted == {"read_episodes", "forget_episodes", "drop", "commit"}

(* Who can be where, and that only a forget deletes long-term memories. *)
PlaceInv ==
  \A r \in Requests :
    /\ pc[r] \in {"select", "evict"} => r \in Episodes
    /\ pc[r] \in Embeds => r \in Embedded
    /\ pc[r] \in {"forget", "read_episodes", "forget_episodes", "drop"} => r \in Forgets
    /\ r \notin Forgets => victims[r] \subseteq Episodes /\ gone[r] \subseteq Episodes

Pending(r) ==
  \/ pc[r] = "idle"
  \/ r \in Managed /\ pc[r] \in Embeds
  \/ r \in ByTool /\ pc[r] = "commit"

DoneInv(r) ==
  /\ r \in vectors => r \in rows
  /\ r \in rows /\ r \notin vectors =>
       \E f \in Forgets : pc[f] = "commit" /\ r \in gone[f]
  /\ \A f \in Forgets :
       /\ pc[f] = "forget" /\ r \in rows => r \in victims[f]
       /\ pc[f] \in Deleted /\ r \in rows => r \in gone[f]
       /\ pc[f] = "commit" => r \notin vectors

Stored(r) ==
  r \notin excused =>
    /\ pc[r] # "failed"
    /\ pc[r] \notin Finished => \A f \in Forgets : pc[f] \in Finished
    /\ Pending(r) => r \notin rows /\ r \notin vectors
    /\ r \in Managed /\ pc[r] = "commit" => r \in vectors /\ r \notin rows
    /\ r \in ByTool /\ pc[r] \in Embeds => r \in rows /\ r \notin vectors
    /\ pc[r] = "done" => DoneInv(r)

StoreInv == \A r \in Embedded : Stored(r)

RiskInv ==
  "empties" \in SecondCreate /\ (\E q \in Stores : pc[q] = "create") => vectors \subseteq excused

(* What is deleted is still there, and the recordings are counted. *)
CountInv ==
  /\ \A r \in Requests : gone[r] \subseteq rows
  /\ Cardinality(Recording) <= peak

IInv == TypeOK /\ PlaceInv /\ StoreInv /\ RiskInv /\ CountInv

-----------------------------------------------------------------------------
InSession == Busy \ Embedding

(* A step that takes no session, or one when one is free, stays in bounds. *)
LEMMA FiniteSession == IsFiniteSet(InSession)
<1>1. InSession \subseteq Requests
  BY DEF InSession, Busy
<1> QED
  BY <1>1, FS_Subset, AgentMemoryAssumption

LEMMA NoNewSession ==
  ASSUME TypeOK, InSession' \subseteq InSession
  PROVE  Cardinality(InSession') <= Sessions
<1>1. Cardinality(InSession) \in Nat /\ Cardinality(InSession') \in Nat
      /\ Cardinality(InSession') <= Cardinality(InSession)
  BY FiniteSession, FS_Subset, FS_CardinalityType
<1>2. Cardinality(InSession) <= Sessions /\ Sessions \in Nat
  BY AgentMemoryAssumption DEF TypeOK, InSession
<1> QED
  BY <1>1, <1>2

LEMMA OneMoreSession ==
  ASSUME TypeOK, NEW r \in Requests, Begins(r), InSession' \subseteq InSession \cup {r}
  PROVE  Cardinality(InSession') <= Sessions
<1>1. IsFiniteSet(InSession \cup {r})
      /\ Cardinality(InSession \cup {r}) <= Cardinality(InSession) + 1
  <2>1. IsFiniteSet(InSession \cup {r})
        /\ Cardinality(InSession \cup {r}) = IF r \in InSession THEN Cardinality(InSession)
                                                ELSE Cardinality(InSession) + 1
    BY FiniteSession, FS_AddElement
  <2>2. Cardinality(InSession) \in Nat
    BY FiniteSession, FS_CardinalityType
  <2> QED
    BY <2>1, <2>2
<1>2. Cardinality(InSession) \in Nat /\ Cardinality(InSession') \in Nat
      /\ Cardinality(InSession \cup {r}) \in Nat
      /\ Cardinality(InSession') <= Cardinality(InSession \cup {r})
  BY <1>1, FiniteSession, FS_Subset, FS_CardinalityType
<1>3. Cardinality(InSession) < Sessions /\ Sessions \in Nat
  BY AgentMemoryAssumption DEF Begins, InSession
<1> QED
  BY <1>1, <1>2, <1>3

(* The initial state satisfies the inductive invariant. *)
LEMMA InitIInv == Init => IInv
<1> SUFFICES ASSUME Init PROVE IInv
  OBVIOUS
<1>1. Busy = {}
  BY DEF Init, Busy, Finished
<1>2. TypeOK
  <2>1. Busy \ Embedding = {}
    BY <1>1
  <2>2. Cardinality(Busy \ Embedding) <= Sessions
    BY <2>1, FS_EmptySet, AgentMemoryAssumption
  <2>3. 0 \in 0 .. Sessions /\ 0 \in Nat
    BY AgentMemoryAssumption
  <2> QED
    BY <2>2, <2>3 DEF Init, TypeOK, States
<1>3. PlaceInv
  BY DEF Init, PlaceInv, Embeds
<1>4. StoreInv
  BY <1>1
  DEF Init, StoreInv, Stored, Finished, Pending, Embedded, Stores, Requests,
      Embeds
<1>5. RiskInv
  BY DEF Init, RiskInv
<1>6. CountInv
  <2>1. Recording = {}
    BY <1>1 DEF Recording
  <2> QED
    BY <2>1, FS_EmptySet DEF Init, CountInv
<1> QED
  BY <1>2, <1>3, <1>4, <1>5, <1>6 DEF IInv

-----------------------------------------------------------------------------
(* All of the types but the bounds of the sessions. *)
Typed ==
  /\ rows \subseteq Requests \ Forgets
  /\ vectors \subseteq Embedded
  /\ collection \in BOOLEAN
  /\ vectors # {} => collection
  /\ pc \in [Requests -> States]
  /\ victims \in [Requests -> SUBSET (Requests \ Forgets)]
  /\ gone \in [Requests -> SUBSET (Requests \ Forgets)]
  /\ \A q, r \in Requests : q # r => gone[q] \cap gone[r] = {}
  /\ excused \subseteq Requests
  /\ lapsed \in Nat

LEMMA TypedStep == IInv /\ [Next]_vars => Typed'
<1> SUFFICES ASSUME IInv, [Next]_vars PROVE Typed'
  OBVIOUS
<1> USE DEF IInv, TypeOK, Typed, States, Goes
<1>0. /\ Episodes \subseteq Requests \ Forgets /\ Stores \subseteq Requests \ Forgets
      /\ Embedded \subseteq Stores
  BY AgentMemoryAssumption DEF Requests, Embedded
<1>k. Episodic \subseteq Episodes
  BY DEF Episodic
<1>1. ASSUME NEW r \in Requests, RecordEpisode(r) PROVE Typed'
  BY <1>1 DEF RecordEpisode
<1>2. ASSUME NEW r \in Requests, SelectVictims(r) PROVE Typed'
  <2>1. PICK some \in SUBSET Episodic : victims' = [victims EXCEPT ![r] = some]
    BY <1>2 DEF SelectVictims, kSubset
  <2> QED
    BY <1>2, <1>0, <1>k, <2>1 DEF SelectVictims
<1>3. ASSUME NEW r \in Requests, Evict(r) PROVE Typed'
  BY <1>3 DEF Evict, Deletes
<1>4. ASSUME NEW r \in Requests, StoreLongTerm(r) PROVE Typed'
  BY <1>4 DEF StoreLongTerm, Meets
<1>5. ASSUME NEW r \in Requests, MemoryWrite(r) PROVE Typed'
  BY <1>5 DEF MemoryWrite, Meets
<1>6. ASSUME NEW r \in Requests, LookUpCollection(r) PROVE Typed'
  BY <1>6 DEF LookUpCollection
<1>7. ASSUME NEW r \in Requests, CreateCollection(r) PROVE Typed'
  BY <1>7 DEF CreateCollection, Creates
<1>8. ASSUME NEW r \in Requests, Upsert(r) PROVE Typed'
  BY <1>8 DEF Upsert, PlaceInv, Embeds, AfterEmbedding
<1>9. ASSUME NEW r \in Requests, EmbeddingRaises(r) PROVE Typed'
  <2>1. /\ vectors' \subseteq vectors /\ collection' \in BOOLEAN
        /\ vectors' # {} => collection'
    <3>1. CASE UNCHANGED <<vectors, collection>>
      BY <3>1
    <3>2. CASE Creates
      BY <3>2 DEF Creates
    <3> QED
      BY <1>9, <3>1, <3>2 DEF EmbeddingRaises
  <2>2. /\ pc' \in [Requests -> States] /\ excused' \subseteq Requests
        /\ UNCHANGED <<rows, victims, gone, lapsed>>
    BY <1>9 DEF EmbeddingRaises, AfterEmbedding
  <2> QED
    BY <2>1, <2>2
<1>10. ASSUME NEW r \in Requests, DeleteAgentMemory(r) PROVE Typed'
  BY <1>10, <1>0 DEF DeleteAgentMemory
<1>11. ASSUME NEW r \in Requests, DeleteByAgent(r) PROVE Typed'
  BY <1>11 DEF DeleteByAgent, Deletes
<1>12. ASSUME NEW r \in Requests, ReadEpisodes(r) PROVE Typed'
  BY <1>12, <1>0, <1>k DEF ReadEpisodes
<1>13. ASSUME NEW r \in Requests, ClearEpisodes(r) PROVE Typed'
  BY <1>13 DEF ClearEpisodes, Deletes
<1>14. ASSUME NEW r \in Requests, DropCollection(r) PROVE Typed'
  BY <1>14 DEF DropCollection
<1>15. ASSUME NEW r \in Requests, DropRaises(r) PROVE Typed'
  BY <1>15, <1>0 DEF DropRaises
<1>16. ASSUME NEW r \in Requests, Commit(r) PROVE Typed'
  BY <1>16 DEF Commit, Commits, Closes
<1>17. ASSUME NEW r \in Requests, CommitRaises(r) PROVE Typed'
  BY <1>17, <1>0 DEF CommitRaises, Commits, Closes
<1>18. ASSUME NEW r \in Requests, RollBack(r) PROVE Typed'
  BY <1>18, <1>0 DEF RollBack, Closes
<1>19. CASE UNCHANGED vars
  BY <1>19 DEF vars
<1> QED
  BY <1>1, <1>2, <1>3, <1>4, <1>5, <1>6, <1>7, <1>8, <1>9, <1>10, <1>11,
     <1>12, <1>13,
     <1>14, <1>15, <1>16, <1>17, <1>18, <1>19 DEF Next, Episode, Store, Forget, Ends

(* The sessions in use stay within the pool. *)
LEMMA SessionsStep == IInv /\ [Next]_vars => Cardinality(InSession') <= Sessions
<1> SUFFICES ASSUME IInv, [Next]_vars PROVE Cardinality(InSession') <= Sessions
  OBVIOUS
<1> USE DEF IInv, Goes
<1>a. TypeOK /\ PlaceInv /\ pc \in [Requests -> States]
  BY DEF TypeOK
<1>1. ASSUME NEW r \in Requests, RecordEpisode(r)
      PROVE Cardinality(InSession') <= Sessions
  <2>1. InSession' \subseteq InSession \cup {r}
    BY <1>1, <1>a
    DEF RecordEpisode, InSession, Busy, Embedding, Finished, PlaceInv,
        Embeds, Begins
  <2> QED
    BY <1>1, <1>a, <2>1, OneMoreSession DEF RecordEpisode
<1>2. ASSUME NEW r \in Requests, SelectVictims(r)
      PROVE Cardinality(InSession') <= Sessions
  <2>1. InSession' \subseteq InSession
    BY <1>2, <1>a
    DEF SelectVictims, InSession, Busy, Embedding, Finished, PlaceInv, Embeds
  <2> QED
    BY <1>2, <1>a, <2>1, NoNewSession
<1>3. ASSUME NEW r \in Requests, Evict(r)
      PROVE Cardinality(InSession') <= Sessions
  <2>1. InSession' \subseteq InSession
    BY <1>3, <1>a
    DEF Evict, InSession, Busy, Embedding, Finished, PlaceInv, Embeds
  <2> QED
    BY <1>3, <1>a, <2>1, NoNewSession
<1>4. ASSUME NEW r \in Requests, StoreLongTerm(r)
      PROVE Cardinality(InSession') <= Sessions
  <2>1. InSession' \subseteq InSession \cup {r}
    BY <1>4, <1>a
    DEF StoreLongTerm, InSession, Busy, Embedding, Finished, PlaceInv,
        Embeds, Begins
  <2> QED
    BY <1>4, <1>a, <2>1, OneMoreSession DEF StoreLongTerm
<1>5. ASSUME NEW r \in Requests, MemoryWrite(r)
      PROVE Cardinality(InSession') <= Sessions
  <2>1. InSession' \subseteq InSession \cup {r}
    BY <1>5, <1>a
    DEF MemoryWrite, InSession, Busy, Embedding, Finished, PlaceInv, Embeds,
        Begins
  <2> QED
    BY <1>5, <1>a, <2>1, OneMoreSession DEF MemoryWrite
<1>6. ASSUME NEW r \in Requests, LookUpCollection(r)
      PROVE Cardinality(InSession') <= Sessions
  <2>1. InSession' \subseteq InSession
    BY <1>6, <1>a
    DEF LookUpCollection, InSession, Busy, Embedding, Finished, PlaceInv,
        Embeds
  <2> QED
    BY <1>6, <1>a, <2>1, NoNewSession
<1>7. ASSUME NEW r \in Requests, CreateCollection(r)
      PROVE Cardinality(InSession') <= Sessions
  <2>1. InSession' \subseteq InSession
    BY <1>7, <1>a
    DEF CreateCollection, InSession, Busy, Embedding, Finished, PlaceInv,
        Embeds
  <2> QED
    BY <1>7, <1>a, <2>1, NoNewSession
<1>8. ASSUME NEW r \in Requests, Upsert(r)
      PROVE Cardinality(InSession') <= Sessions
  <2>1. InSession' \subseteq InSession
    BY <1>8, <1>a, AgentMemoryAssumption
       DEF Upsert, InSession, Busy, Embedding, Finished, PlaceInv, Embeds, AfterEmbedding, Embedded, Stores, Requests
  <2> QED
    BY <1>8, <1>a, <2>1, NoNewSession
<1>9. ASSUME NEW r \in Requests, EmbeddingRaises(r)
      PROVE Cardinality(InSession') <= Sessions
  <2>1. InSession' \subseteq InSession
    BY <1>9, <1>a, AgentMemoryAssumption
       DEF EmbeddingRaises, InSession, Busy, Embedding, Finished, PlaceInv, Embeds, AfterEmbedding, Embedded, Stores, Requests
  <2> QED
    BY <1>9, <1>a, <2>1, NoNewSession
<1>10. ASSUME NEW r \in Requests, DeleteAgentMemory(r)
       PROVE Cardinality(InSession') <= Sessions
  <2>1. InSession' \subseteq InSession \cup {r}
    BY <1>10, <1>a
    DEF DeleteAgentMemory, InSession, Busy, Embedding, Finished, PlaceInv,
        Embeds, Begins
  <2> QED
    BY <1>10, <1>a, <2>1, OneMoreSession DEF DeleteAgentMemory
<1>11. ASSUME NEW r \in Requests, DeleteByAgent(r)
       PROVE Cardinality(InSession') <= Sessions
  <2>1. InSession' \subseteq InSession
    BY <1>11, <1>a
    DEF DeleteByAgent, InSession, Busy, Embedding, Finished, PlaceInv, Embeds
  <2> QED
    BY <1>11, <1>a, <2>1, NoNewSession
<1>12. ASSUME NEW r \in Requests, ReadEpisodes(r)
       PROVE Cardinality(InSession') <= Sessions
  <2>1. InSession' \subseteq InSession
    BY <1>12, <1>a
    DEF ReadEpisodes, InSession, Busy, Embedding, Finished, PlaceInv, Embeds
  <2> QED
    BY <1>12, <1>a, <2>1, NoNewSession
<1>13. ASSUME NEW r \in Requests, ClearEpisodes(r)
       PROVE Cardinality(InSession') <= Sessions
  <2>1. InSession' \subseteq InSession
    BY <1>13, <1>a
    DEF ClearEpisodes, InSession, Busy, Embedding, Finished, PlaceInv, Embeds
  <2> QED
    BY <1>13, <1>a, <2>1, NoNewSession
<1>14. ASSUME NEW r \in Requests, DropCollection(r)
       PROVE Cardinality(InSession') <= Sessions
  <2>1. InSession' \subseteq InSession
    BY <1>14, <1>a
    DEF DropCollection, InSession, Busy, Embedding, Finished, PlaceInv,
        Embeds
  <2> QED
    BY <1>14, <1>a, <2>1, NoNewSession
<1>15. ASSUME NEW r \in Requests, DropRaises(r)
       PROVE Cardinality(InSession') <= Sessions
  <2>1. InSession' \subseteq InSession
    BY <1>15, <1>a
    DEF DropRaises, InSession, Busy, Embedding, Finished, PlaceInv, Embeds
  <2> QED
    BY <1>15, <1>a, <2>1, NoNewSession
<1>16. ASSUME NEW r \in Requests, Commit(r)
       PROVE Cardinality(InSession') <= Sessions
  <2>1. InSession' \subseteq InSession
    BY <1>16, <1>a
    DEF Commit, Commits, InSession, Busy, Embedding, Finished, PlaceInv,
        Embeds
  <2> QED
    BY <1>16, <1>a, <2>1, NoNewSession
<1>17. ASSUME NEW r \in Requests, CommitRaises(r)
       PROVE Cardinality(InSession') <= Sessions
  <2>1. InSession' \subseteq InSession
    BY <1>17, <1>a
    DEF CommitRaises, Commits, InSession, Busy, Embedding, Finished,
        PlaceInv, Embeds
  <2> QED
    BY <1>17, <1>a, <2>1, NoNewSession
<1>18. ASSUME NEW r \in Requests, RollBack(r)
       PROVE Cardinality(InSession') <= Sessions
  <2>1. InSession' \subseteq InSession
    BY <1>18, <1>a
    DEF RollBack, InSession, Busy, Embedding, Finished, PlaceInv, Embeds
  <2> QED
    BY <1>18, <1>a, <2>1, NoNewSession
<1>19. CASE UNCHANGED vars
  <2>1. InSession' = InSession
    BY <1>19 DEF vars, InSession, Busy, Embedding
  <2> QED
    BY <1>a, <2>1, NoNewSession
<1> QED
  BY <1>1, <1>2, <1>3, <1>4, <1>5, <1>6, <1>7, <1>8, <1>9, <1>10, <1>11,
     <1>12, <1>13, <1>14, <1>15, <1>16, <1>17, <1>18, <1>19
     DEF Next, Episode, Store, Forget, Ends

(* Requests stay where they belong. *)
LEMMA PlaceStep == IInv /\ [Next]_vars => PlaceInv'
<1> SUFFICES ASSUME IInv, [Next]_vars PROVE PlaceInv'
  OBVIOUS
<1> USE DEF IInv, TypeOK, PlaceInv, Goes, Embeds
<1>0. /\ Episodic \subseteq Episodes /\ Stores = Managed \cup ByTool
      /\ Embedded = Stores \ Plain
  BY DEF Episodic, Stores, Embedded
<1>d. Episodes \cap Forgets = {} /\ Stores \cap Forgets = {}
  BY AgentMemoryAssumption
<1>1. ASSUME NEW r \in Requests, RecordEpisode(r) PROVE PlaceInv'
  BY <1>1, <1>0, <1>d DEF RecordEpisode
<1>2. ASSUME NEW r \in Requests, SelectVictims(r) PROVE PlaceInv'
  BY <1>2, <1>0, <1>d DEF SelectVictims, kSubset
<1>3. ASSUME NEW r \in Requests, Evict(r) PROVE PlaceInv'
  BY <1>3, <1>0, <1>d DEF Evict, Deletes
<1>4. ASSUME NEW r \in Requests, StoreLongTerm(r) PROVE PlaceInv'
  BY <1>4, <1>0, <1>d DEF StoreLongTerm, Meets
<1>5. ASSUME NEW r \in Requests, MemoryWrite(r) PROVE PlaceInv'
  BY <1>5, <1>0, <1>d DEF MemoryWrite, Meets
<1>6. ASSUME NEW r \in Requests, LookUpCollection(r) PROVE PlaceInv'
  BY <1>6, <1>0, <1>d DEF LookUpCollection
<1>7. ASSUME NEW r \in Requests, CreateCollection(r) PROVE PlaceInv'
  BY <1>7, <1>0, <1>d DEF CreateCollection
<1>8. ASSUME NEW r \in Requests, Upsert(r) PROVE PlaceInv'
  BY <1>8, <1>0, <1>d DEF Upsert, AfterEmbedding
<1>9. ASSUME NEW r \in Requests, EmbeddingRaises(r) PROVE PlaceInv'
  BY <1>9, <1>0, <1>d DEF EmbeddingRaises, AfterEmbedding
<1>10. ASSUME NEW r \in Requests, DeleteAgentMemory(r) PROVE PlaceInv'
  BY <1>10, <1>0, <1>d DEF DeleteAgentMemory
<1>11. ASSUME NEW r \in Requests, DeleteByAgent(r) PROVE PlaceInv'
  BY <1>11, <1>0, <1>d DEF DeleteByAgent, Deletes
<1>12. ASSUME NEW r \in Requests, ReadEpisodes(r) PROVE PlaceInv'
  BY <1>12, <1>0, <1>d DEF ReadEpisodes
<1>13. ASSUME NEW r \in Requests, ClearEpisodes(r) PROVE PlaceInv'
  BY <1>13, <1>0, <1>d DEF ClearEpisodes, Deletes
<1>14. ASSUME NEW r \in Requests, DropCollection(r) PROVE PlaceInv'
  BY <1>14, <1>0, <1>d DEF DropCollection
<1>15. ASSUME NEW r \in Requests, DropRaises(r) PROVE PlaceInv'
  BY <1>15, <1>0, <1>d DEF DropRaises
<1>16. ASSUME NEW r \in Requests, Commit(r) PROVE PlaceInv'
  BY <1>16, <1>0, <1>d DEF Commit, Commits, Closes
<1>17. ASSUME NEW r \in Requests, CommitRaises(r) PROVE PlaceInv'
  BY <1>17, <1>0, <1>d DEF CommitRaises, Commits, Closes
<1>18. ASSUME NEW r \in Requests, RollBack(r) PROVE PlaceInv'
  BY <1>18, <1>0, <1>d DEF RollBack, Closes
<1>19. CASE UNCHANGED vars
  BY <1>19 DEF vars
<1> QED
  BY <1>1, <1>2, <1>3, <1>4, <1>5, <1>6, <1>7, <1>8, <1>9, <1>10, <1>11,
     <1>12, <1>13, <1>14, <1>15, <1>16, <1>17, <1>18, <1>19
     DEF Next, Episode, Store, Forget, Ends

(* What a store left in the rows and the vectors stays in agreement. *)
LEMMA StoreStep == IInv /\ [Next]_vars => StoreInv'
<1> SUFFICES ASSUME IInv, [Next]_vars, NEW s \in Embedded PROVE Stored(s)'
  BY DEF StoreInv
<1> USE DEF Stored, DoneInv, Pending, Goes, Embeds, Deleted, Finished
<1>a. /\ PlaceInv
      /\ Stored(s)
      /\ RiskInv
      /\ rows \subseteq Requests \ Forgets /\ pc \in [Requests -> States]
      /\ victims \in [Requests -> SUBSET (Requests \ Forgets)]
      /\ gone \in [Requests -> SUBSET (Requests \ Forgets)]
  BY DEF IInv, TypeOK, StoreInv
<1>b. /\ s \in Requests /\ s \in Stores /\ s \notin Plain /\ s \notin Episodes /\ s \notin Forgets
      /\ Forgets \subseteq Requests /\ Stores = Managed \cup ByTool
      /\ Managed \cap ByTool = {}
      /\ Episodes \cap Forgets = {} /\ Stores \cap Forgets = {}
  BY AgentMemoryAssumption DEF Embedded, Stores, Requests
<1>1. ASSUME NEW r \in Requests, RecordEpisode(r) PROVE Stored(s)'
  BY <1>1, <1>a, <1>b DEF RecordEpisode, PlaceInv, Begins
<1>2. ASSUME NEW r \in Requests, SelectVictims(r) PROVE Stored(s)'
  BY <1>2, <1>a, <1>b DEF SelectVictims, PlaceInv, kSubset
<1>3. ASSUME NEW r \in Requests, Evict(r) PROVE Stored(s)'
  BY <1>3, <1>a, <1>b DEF Evict, PlaceInv, Deletes
<1>4. ASSUME NEW r \in Requests, StoreLongTerm(r) PROVE Stored(s)'
  BY <1>4, <1>a, <1>b
  DEF StoreLongTerm, PlaceInv, Meets, Forgetting, Busy, Begins
<1>5. ASSUME NEW r \in Requests, MemoryWrite(r) PROVE Stored(s)'
  BY <1>5, <1>a, <1>b
  DEF MemoryWrite, PlaceInv, Meets, Forgetting, Busy, Begins
<1>6. ASSUME NEW r \in Requests, LookUpCollection(r) PROVE Stored(s)'
  BY <1>6, <1>a, <1>b DEF LookUpCollection, PlaceInv
<1>7. ASSUME NEW r \in Requests, CreateCollection(r) PROVE Stored(s)'
  BY <1>7, <1>a, <1>b
  DEF CreateCollection, PlaceInv, Creates, RiskInv, Embedded
<1>8. ASSUME NEW r \in Requests, Upsert(r) PROVE Stored(s)'
  BY <1>8, <1>a, <1>b DEF Upsert, PlaceInv, AfterEmbedding
<1>9. ASSUME NEW r \in Requests, EmbeddingRaises(r) PROVE Stored(s)'
  BY <1>9, <1>a, <1>b
  DEF EmbeddingRaises, PlaceInv, AfterEmbedding, Creates, RiskInv, Embedded
<1>10. ASSUME NEW r \in Requests, DeleteAgentMemory(r) PROVE Stored(s)'
  BY <1>10, <1>a, <1>b DEF DeleteAgentMemory, PlaceInv, Begins, Busy
<1>11. ASSUME NEW r \in Requests, DeleteByAgent(r) PROVE Stored(s)'
  BY <1>11, <1>a, <1>b DEF DeleteByAgent, PlaceInv, Deletes
<1>12. ASSUME NEW r \in Requests, ReadEpisodes(r) PROVE Stored(s)'
  BY <1>12, <1>a, <1>b DEF ReadEpisodes, PlaceInv
<1>13. ASSUME NEW r \in Requests, ClearEpisodes(r) PROVE Stored(s)'
  BY <1>13, <1>a, <1>b DEF ClearEpisodes, PlaceInv, Deletes
<1>14. ASSUME NEW r \in Requests, DropCollection(r) PROVE Stored(s)'
  BY <1>14, <1>a, <1>b DEF DropCollection, PlaceInv
<1>15. ASSUME NEW r \in Requests, DropRaises(r) PROVE Stored(s)'
  BY <1>15, <1>a, <1>b DEF DropRaises, PlaceInv
<1>16. ASSUME NEW r \in Requests, Commit(r) PROVE Stored(s)'
  BY <1>16, <1>a, <1>b DEF Commit, Commits, PlaceInv, Closes
<1>17. ASSUME NEW r \in Requests, CommitRaises(r) PROVE Stored(s)'
  BY <1>17, <1>a, <1>b DEF CommitRaises, Commits, PlaceInv, Closes
<1>18. ASSUME NEW r \in Requests, RollBack(r) PROVE Stored(s)'
  BY <1>18, <1>a, <1>b DEF RollBack, PlaceInv, Closes
<1>19. CASE UNCHANGED vars
  BY <1>19, <1>a DEF vars
<1> QED
  BY <1>1, <1>2, <1>3, <1>4, <1>5, <1>6, <1>7, <1>8, <1>9, <1>10, <1>11,
     <1>12, <1>13, <1>14, <1>15, <1>16, <1>17, <1>18, <1>19
     DEF Next, Episode, Store, Forget, Ends

(* Only an upsert adds a vector, and it is excused while one is at risk. *)
LEMMA RiskStep == IInv /\ [Next]_vars => RiskInv'
<1> SUFFICES ASSUME IInv, [Next]_vars, "empties" \in SecondCreate,
                    NEW q \in Stores, pc'[q] = "create"
             PROVE  vectors' \subseteq excused'
  BY DEF RiskInv
<1> USE DEF Goes
<1>a. /\ RiskInv /\ PlaceInv /\ pc \in [Requests -> States] /\ (vectors # {} => collection)
      /\ q \in Requests
  BY DEF IInv, TypeOK, Requests
<1>k. CASE excused \subseteq excused' /\ vectors' \subseteq vectors /\ pc[q] = "create"
  BY <1>a, <1>k DEF RiskInv
<1>1. ASSUME NEW r \in Requests, Episode(r) PROVE vectors' \subseteq excused'
  BY <1>1, <1>a, <1>k DEF Episode, RecordEpisode, SelectVictims, Evict
<1>2. ASSUME NEW r \in Requests, StoreLongTerm(r) \/ MemoryWrite(r)
      PROVE vectors' \subseteq excused'
  BY <1>2, <1>a, <1>k DEF StoreLongTerm, MemoryWrite, Meets
<1>3. ASSUME NEW r \in Requests, LookUpCollection(r)
      PROVE vectors' \subseteq excused'
  BY <1>3, <1>a, <1>k DEF LookUpCollection
<1>4. ASSUME NEW r \in Requests, CreateCollection(r)
      PROVE vectors' \subseteq excused'
  BY <1>4, <1>a, <1>k DEF CreateCollection, Creates
<1>5. ASSUME NEW r \in Requests, Upsert(r) PROVE vectors' \subseteq excused'
  <2>1. r # q /\ pc[q] = "create"
    BY <1>5, <1>a DEF Upsert, AfterEmbedding
  <2>2. vectors \subseteq excused /\ AtRisk(r)
    BY <1>a, <2>1 DEF RiskInv, AtRisk
  <2> QED
    BY <1>5, <2>2 DEF Upsert
<1>6. ASSUME NEW r \in Requests, EmbeddingRaises(r)
      PROVE vectors' \subseteq excused'
  BY <1>6, <1>a, <1>k DEF EmbeddingRaises, Creates, AfterEmbedding
<1>7. ASSUME NEW r \in Requests, Forget(r) PROVE vectors' \subseteq excused'
  BY <1>7, <1>a, <1>k
  DEF Forget, DeleteAgentMemory, DeleteByAgent, ReadEpisodes, ClearEpisodes,
     DropCollection, DropRaises
<1>8. ASSUME NEW r \in Requests, Ends(r) PROVE vectors' \subseteq excused'
  BY <1>8, <1>a, <1>k DEF Ends, Commit, CommitRaises, RollBack, Commits
<1>9. CASE UNCHANGED vars
  BY <1>9, <1>a, <1>k DEF vars
<1> QED
  BY <1>1, <1>2, <1>3, <1>4, <1>5, <1>6, <1>7, <1>8, <1>9 DEF Next, Store

(* A row is removed by the request that deleted it, and no other. *)
LEMMA GoneStep == IInv /\ [Next]_vars => \A q \in Requests : gone'[q] \subseteq rows'
<1> SUFFICES ASSUME IInv, [Next]_vars, NEW q \in Requests PROVE gone'[q] \subseteq rows'
  OBVIOUS
<1>a. /\ \A p \in Requests : gone[p] \subseteq rows
      /\ gone \in [Requests -> SUBSET (Requests \ Forgets)]
      /\ \A p, r \in Requests : p # r => gone[p] \cap gone[r] = {}
  BY DEF IInv, TypeOK, CountInv
<1>1. ASSUME NEW r \in Requests, Episode(r) PROVE gone'[q] \subseteq rows'
  BY <1>1, <1>a DEF Episode, RecordEpisode, SelectVictims, Evict, Deletes
<1>2. ASSUME NEW r \in Requests, Store(r) PROVE gone'[q] \subseteq rows'
  BY <1>2, <1>a
  DEF Store, StoreLongTerm, MemoryWrite, LookUpCollection, CreateCollection,
      Upsert,
     EmbeddingRaises
<1>3. ASSUME NEW r \in Requests, Forget(r) PROVE gone'[q] \subseteq rows'
  BY <1>3, <1>a
  DEF Forget, DeleteAgentMemory, DeleteByAgent, ReadEpisodes, ClearEpisodes,
     DropCollection, DropRaises, Deletes
<1>4. ASSUME NEW r \in Requests, Ends(r) PROVE gone'[q] \subseteq rows'
  <2>1. CASE r = q
    BY <1>4, <1>a, <2>1
    DEF Ends, Commit, CommitRaises, RollBack, Commits, Closes
  <2>2. CASE r # q
    <3>1. gone'[q] = gone[q] /\ gone[q] \cap gone[r] = {}
      BY <1>4, <1>a, <2>2
      DEF Ends, Commit, CommitRaises, RollBack, Commits, Closes
    <3>2. rows \ gone[r] \subseteq rows'
      BY <1>4 DEF Ends, Commit, CommitRaises, RollBack, Commits
    <3> QED
      BY <1>a, <3>1, <3>2
  <2> QED
    BY <2>1, <2>2
<1>5. CASE UNCHANGED vars
  BY <1>5, <1>a DEF vars
<1> QED
  BY <1>1, <1>2, <1>3, <1>4, <1>5 DEF Next

(* Whoever records an episode is counted when it begins. *)
LEMMA FiniteRecording == IsFiniteSet(Recording) /\ Cardinality(Recording) \in Nat
<1>1. Recording \subseteq Requests
  BY DEF Recording, Busy
<1> QED
  BY <1>1, FS_Subset, FS_CardinalityType, AgentMemoryAssumption

LEMMA PeakStep ==
  IInv /\ [Next]_vars => /\ peak' \in 0 .. Sessions
                         /\ Cardinality(Recording') <= peak'
                         /\ peak <= peak'
<1> SUFFICES ASSUME IInv, [Next]_vars
             PROVE  peak' \in 0 .. Sessions /\ Cardinality(Recording') <= peak' /\ peak <= peak'
  OBVIOUS
<1>a. /\ peak \in 0 .. Sessions /\ Cardinality(Recording) <= peak /\ Sessions \in Nat
      /\ pc \in [Requests -> States] /\ PlaceInv
      /\ Episodes \subseteq Requests /\ Episodes \cap Stores = {} /\ Episodes \cap Forgets = {}
  BY AgentMemoryAssumption DEF IInv, TypeOK, CountInv, Requests
<1>b. Recording = {p \in Episodes : pc[p] \notin Finished}
      /\ Recording' = {p \in Episodes : pc'[p] \notin Finished}
  BY <1>a DEF Recording, Busy
<1>s. CASE peak' = peak /\ Recording' \subseteq Recording
  <2>1. Cardinality(Recording') \in Nat /\ Cardinality(Recording') <= Cardinality(Recording)
    BY <1>s, FiniteRecording, FS_Subset, FS_CardinalityType
  <2> QED
    BY <1>a, <1>s, <2>1, FiniteRecording
<1>1. ASSUME NEW r \in Requests, RecordEpisode(r)
      PROVE  peak' \in 0 .. Sessions /\ Cardinality(Recording') <= peak' /\ peak <= peak'
  <2>1. Recording' \subseteq Recording \cup {r}
    BY <1>1, <1>a, <1>b DEF RecordEpisode, Goes
  <2>2. /\ IsFiniteSet(Recording \cup {r})
        /\ Cardinality(Recording \cup {r}) <= Cardinality(Recording) + 1
    <3>1. IsFiniteSet(Recording \cup {r})
          /\ Cardinality(Recording \cup {r}) = IF r \in Recording THEN Cardinality(Recording)
                                                  ELSE Cardinality(Recording) + 1
      BY FiniteRecording, FS_AddElement
    <3> QED
      BY <3>1, FiniteRecording
  <2>3. Cardinality(Recording') \in Nat /\ Cardinality(Recording \cup {r}) \in Nat
        /\ Cardinality(Recording') <= Cardinality(Recording \cup {r})
    BY <2>1, <2>2, FS_Subset, FS_CardinalityType
  <2>4. Recording \subseteq InSession
    BY <1>a DEF Recording, InSession, Busy, Embedding, Stores
  <2>5. Cardinality(InSession) \in Nat /\ Cardinality(Recording) <= Cardinality(InSession)
    BY <2>4, FiniteSession, FS_Subset, FS_CardinalityType
  <2>6. Cardinality(InSession) < Sessions
    BY <1>1 DEF RecordEpisode, Begins, InSession
  <2>7. peak' = IF Cardinality(Recording) < peak THEN peak ELSE Cardinality(Recording) + 1
    BY <1>1 DEF RecordEpisode, Counts
  <2> QED
    BY <1>a, <2>2, <2>3, <2>5, <2>6, <2>7, FiniteRecording
<1>2. ASSUME NEW r \in Requests, SelectVictims(r) \/ Evict(r)
      PROVE  peak' = peak /\ Recording' \subseteq Recording
  BY <1>2, <1>a, <1>b DEF SelectVictims, Evict, Goes, Finished
<1>3. ASSUME NEW r \in Requests, Store(r)
      PROVE peak' = peak /\ Recording' \subseteq Recording
  <2>1. r \notin Episodes
    BY <1>3, <1>a
    DEF Store, StoreLongTerm, MemoryWrite, LookUpCollection,
        CreateCollection, Upsert,
       EmbeddingRaises, PlaceInv, Embeds, Embedded, Stores
  <2> QED
    BY <1>3, <1>a, <1>b, <2>1
    DEF Store, StoreLongTerm, MemoryWrite, LookUpCollection,
        CreateCollection,
       Upsert, EmbeddingRaises, AfterEmbedding, Goes
<1>4. ASSUME NEW r \in Requests, Forget(r)
      PROVE peak' = peak /\ Recording' \subseteq Recording
  <2>1. r \notin Episodes
    BY <1>4, <1>a
    DEF Forget, DeleteAgentMemory, DeleteByAgent, ReadEpisodes,
        ClearEpisodes,
       DropCollection, DropRaises, PlaceInv
  <2> QED
    BY <1>4, <1>a, <1>b, <2>1
    DEF Forget, DeleteAgentMemory, DeleteByAgent, ReadEpisodes,
        ClearEpisodes,
       DropCollection, DropRaises, Goes
<1>5. ASSUME NEW r \in Requests, Ends(r)
      PROVE peak' = peak /\ Recording' \subseteq Recording
  BY <1>5, <1>a, <1>b
  DEF Ends, Commit, CommitRaises, RollBack, Commits, Goes, Finished
<1>6. CASE UNCHANGED vars
  <2>1. peak' = peak /\ Recording' = Recording
    BY <1>6, <1>b DEF vars
  <2> QED
    BY <1>s, <2>1
<1> QED
  BY <1>s, <1>1, <1>2, <1>3, <1>4, <1>5, <1>6 DEF Next, Episode

LEMMA TypeStep == IInv /\ [Next]_vars => TypeOK'
  BY TypedStep, SessionsStep, PeakStep DEF Typed, TypeOK, InSession

LEMMA CountStep == IInv /\ [Next]_vars => CountInv'
  BY GoneStep, PeakStep DEF CountInv

LEMMA StepIInv == IInv /\ [Next]_vars => IInv'
  BY TypeStep, PlaceStep, StoreStep, RiskStep, CountStep DEF IInv

LEMMA Invariance == Spec => []IInv
  BY InitIInv, StepIInv, PTL DEF Spec

(* TypeOK of AgentMemory: for any requests, no more sessions are in use    *)
(* than the pool allows, and no row is deleted by two sessions at once.    *)
THEOREM TypeCorrect == Spec => []TypeOK
<1>1. IInv => TypeOK
  BY DEF IInv
<1> QED
  BY <1>1, Invariance, PTL

(* Mirrored of AgentMemory: however many stores and deletions overlap, and *)
(* whatever a second create does to the collection, a memory to be         *)
(* embedded is a row and a vector or neither, but for failures of its own, *)
(* deletions and creations it overlapped.                                  *)
THEOREM RowsAndVectorsAgree == Spec => []Mirrored
<1>1. IInv => Mirrored
  <2> SUFFICES ASSUME IInv, Forgetting = {}, NEW r \in Embedded, pc[r] = "done", r \notin excused
               PROVE  r \in rows <=> r \in vectors
    BY DEF Mirrored
  <2>1. DoneInv(r)
    BY DEF IInv, StoreInv, Stored
  <2>2. \A f \in Forgets : pc[f] # "commit"
    BY DEF Forgetting, Busy, Finished, Requests
  <2> QED
    BY <2>1, <2>2 DEF DoneInv
<1> QED
  BY <1>1, Invariance, PTL

-----------------------------------------------------------------------------
(* EpisodesBounded.  Adders are about to add an episode; After(Q) is what  *)
(* the episodes would be if those of Q committed and nobody else.  Two who  *)
(* chose the same rows doom them once, so no single adder can be counted   *)
(* on to make room: that After(Q) is in bounds for every Q is inductive, as *)
(* long as no more of them overlapped than an eviction takes rows.  With   *)
(* more of them an eviction that found a row left makes room for its       *)
(* episode, and the others, the Unmatched, are accounted for in lapsed.    *)
Adders == {r \in Episodes : pc[r] \in {"evict", "commit"}}
Doomed(r) == IF pc[r] = "evict" THEN victims[r] ELSE gone[r]
After(Q) == (Episodic \ UNION {Doomed(r) : r \in Q}) \cup Q
InBounds(S) == IsFiniteSet(S) /\ Cardinality(S) < MaxEntries + peak

RoomInv == peak <= Evicted => \A Q \in SUBSET Adders : InBounds(After(Q))

Unmatched == {r \in Episodes : pc[r] = "commit" /\ gone[r] = {}}
AccountInv == Cardinality(Episodic) + Cardinality(Unmatched) < MaxEntries + peak + lapsed

LEMMA SmallerInBounds ==
  ASSUME NEW S, NEW T \in SUBSET S, InBounds(S), peak \in Nat
  PROVE  InBounds(T)
<1>1. IsFiniteSet(T) /\ Cardinality(T) \in Nat /\ Cardinality(S) \in Nat
      /\ Cardinality(T) <= Cardinality(S)
  BY FS_Subset, FS_CardinalityType DEF InBounds
<1> QED
  BY <1>1, AgentMemoryAssumption DEF InBounds

LEMMA FiniteEpisodic == IsFiniteSet(Episodic)
<1>1. Episodic \subseteq Requests
  BY DEF Episodic, Requests
<1> QED
  BY <1>1, FS_Subset, AgentMemoryAssumption

(* What two sets together hold. *)
LEMMA UnionAtMost ==
  ASSUME NEW S, NEW T, IsFiniteSet(S), IsFiniteSet(T)
  PROVE  /\ IsFiniteSet(S \cup T)
         /\ Cardinality(S \cup T) \in Nat /\ Cardinality(S) \in Nat /\ Cardinality(T) \in Nat
         /\ Cardinality(S \cup T) <= Cardinality(S) + Cardinality(T)
<1>1. /\ IsFiniteSet(S \cup T)
      /\ Cardinality(S \cup T) = Cardinality(S) + Cardinality(T) - Cardinality(S \cap T)
  BY FS_Union
<1>2. Cardinality(S) \in Nat /\ Cardinality(T) \in Nat /\ Cardinality(S \cap T) \in Nat
  BY FS_CardinalityType, FS_Intersection
<1>3. Cardinality(S \cup T) \in Nat
  BY <1>1, FS_CardinalityType
<1> QED
  BY <1>1, <1>2, <1>3

LEMMA RoomStep == IInv /\ RoomInv /\ [Next]_vars => RoomInv'
<1> SUFFICES ASSUME IInv, RoomInv, [Next]_vars, peak' <= Evicted, NEW Q \in SUBSET Adders'
             PROVE  InBounds(After(Q))'
  BY DEF RoomInv, InBounds
<1>a. /\ TypeOK /\ PlaceInv /\ Q \subseteq Episodes
      /\ MaxEntries \in Nat \ {0} /\ Sessions \in Nat \ {0} /\ Evicted \in Nat
      /\ Episodes \subseteq Requests /\ Episodes \cap Forgets = {} /\ Episodes \cap Stores = {}
  BY AgentMemoryAssumption DEF IInv, Adders, Requests
<1>p. peak \in Nat /\ peak' \in Nat /\ peak <= peak' /\ Cardinality(Recording') <= peak'
  BY <1>a, PeakStep DEF TypeOK
<1>b. \A P \in SUBSET Adders : InBounds(After(P))
  BY <1>a, <1>p DEF RoomInv
<1>q. IsFiniteSet(Q) /\ Cardinality(Q) \in Nat /\ Cardinality(Q) <= peak'
  <2>1. Q \subseteq Recording' /\ Recording' \subseteq Requests
    BY <1>a DEF Adders, Recording, Busy, Finished
  <2>2. IsFiniteSet(Recording') /\ Cardinality(Recording') \in Nat
    BY <2>1, FS_Subset, FS_CardinalityType, AgentMemoryAssumption
  <2>3. IsFiniteSet(Q) /\ Cardinality(Q) \in Nat /\ Cardinality(Q) <= Cardinality(Recording')
    BY <2>1, <2>2, FS_Subset, FS_CardinalityType
  <2> QED
    BY <1>p, <2>2, <2>3
(* It is enough to be in the bounds of the state before. *)
<1>t. ASSUME NEW S, InBounds(S), After(Q)' \subseteq S
      PROVE InBounds(After(Q))'
  <2>1. InBounds(After(Q)')
    BY <1>p, <1>t, SmallerInBounds
  <2>2. IsFiniteSet(After(Q)') /\ Cardinality(After(Q)') \in Nat
        /\ Cardinality(After(Q)') < MaxEntries + peak
    BY <2>1, FS_CardinalityType DEF InBounds
  <2>3. Cardinality(After(Q)') < MaxEntries + peak'
    BY <1>a, <1>p, <2>2
  <2> QED
    BY <2>2, <2>3 DEF InBounds
<1>s. ASSUME NEW P \in SUBSET Adders, After(Q)' \subseteq After(P)
      PROVE InBounds(After(Q))'
  BY <1>b, <1>s, <1>t
<1>e. InBounds(Episodic)
  <2>1. After({}) = Episodic
    BY DEF After
  <2> QED
    BY <1>b, <2>1
<1>1. ASSUME NEW r \in Requests, RecordEpisode(r) PROVE InBounds(After(Q))'
  <2>1. Episodic' = Episodic
    BY <1>1 DEF RecordEpisode, Episodic
  <2>2. CASE Cardinality(Episodic) >= MaxEntries
    <3>1. Q \subseteq Adders
      BY <1>1, <1>a, <2>2 DEF RecordEpisode, Adders, Goes, TypeOK
    <3>2. \A q \in Q : Doomed(q)' = Doomed(q)
      BY <1>1, <1>a, <3>1
      DEF RecordEpisode, Adders, Goes, TypeOK, Doomed, Begins
    <3>3. After(Q)' \subseteq After(Q)
      BY <2>1, <3>2 DEF After
    <3> QED
      BY <1>s, <3>1, <3>3
  <2>3. CASE Cardinality(Episodic) < MaxEntries
    <3>1. After(Q)' \subseteq Episodic \cup Q
      BY <2>1 DEF After
    <3>2. /\ IsFiniteSet(Episodic \cup Q)
          /\ Cardinality(Episodic \cup Q) \in Nat /\ Cardinality(Episodic) \in Nat
          /\ Cardinality(Episodic \cup Q) <= Cardinality(Episodic) + Cardinality(Q)
      BY <1>q, FiniteEpisodic, UnionAtMost
    <3>3. /\ IsFiniteSet(After(Q)') /\ Cardinality(After(Q)') \in Nat
          /\ Cardinality(After(Q)') <= Cardinality(Episodic \cup Q)
      BY <3>1, <3>2, FS_Subset, FS_CardinalityType
    <3>4. Cardinality(After(Q)') < MaxEntries + peak'
      BY <1>a, <1>p, <1>q, <2>3, <3>2, <3>3
    <3> QED
      BY <3>3, <3>4 DEF InBounds
  <2> QED
    BY <2>2, <2>3, <1>a, FiniteEpisodic, FS_CardinalityType
<1>2. ASSUME NEW r \in Requests, SelectVictims(r) PROVE InBounds(After(Q))'
  <2>0. Episodic' = Episodic /\ r \in Episodes
    BY <1>2, <1>a DEF SelectVictims, Episodic, PlaceInv
  <2>1. PICK some \in SUBSET Episodic :
           /\ Cardinality(some) = IF Cardinality(Episodic) < Evicted THEN Cardinality(Episodic)
                                                                       ELSE Evicted
           /\ victims' = [victims EXCEPT ![r] = some]
    BY <1>2 DEF SelectVictims, kSubset
  <2>2. CASE r \notin Q
    <3>1. Q \subseteq Adders /\ \A q \in Q : Doomed(q)' = Doomed(q)
      BY <1>2, <1>a, <2>1, <2>2 DEF SelectVictims, Adders, Goes, TypeOK, Doomed
    <3>2. After(Q)' \subseteq After(Q)
      BY <2>0, <3>1 DEF After
    <3> QED
      BY <1>s, <3>1, <3>2
  <2>3. CASE r \in Q
    <3>1. Doomed(r)' = some
      BY <1>2, <1>a, <2>1 DEF SelectVictims, Doomed, Goes, TypeOK
    <3>2. After(Q)' \subseteq (Episodic \ some) \cup Q
      BY <2>0, <2>3, <3>1 DEF After
    <3>3. /\ IsFiniteSet(Episodic \ some)
          /\ Cardinality(Episodic \ some) = Cardinality(Episodic) - Cardinality(some)
          /\ Cardinality(Episodic) \in Nat /\ Cardinality(some) \in Nat
      <4>1. IsFiniteSet(some) /\ Episodic \cap some = some
        BY <2>1, FiniteEpisodic, FS_Subset
      <4> QED
        BY <4>1, FiniteEpisodic, FS_Difference, FS_CardinalityType
    <3>4. /\ IsFiniteSet((Episodic \ some) \cup Q)
          /\ Cardinality((Episodic \ some) \cup Q) \in Nat
          /\ Cardinality((Episodic \ some) \cup Q)
               <= Cardinality(Episodic \ some) + Cardinality(Q)
      BY <1>q, <3>3, UnionAtMost
    <3>5. Cardinality(Episodic) < MaxEntries + peak /\ peak' = peak
      BY <1>2, <1>e DEF InBounds, SelectVictims
    <3>6. Cardinality((Episodic \ some) \cup Q) < MaxEntries + peak
      BY <1>a, <1>p, <1>q, <2>1, <3>3, <3>4, <3>5
    <3>7. InBounds((Episodic \ some) \cup Q)
      BY <3>4, <3>6 DEF InBounds
    <3> QED
      BY <1>t, <3>2, <3>7
  <2> QED
    BY <2>2, <2>3
<1>3. ASSUME NEW r \in Requests, Evict(r) PROVE InBounds(After(Q))'
  <2>1. Episodic' = Episodic /\ Q \subseteq Adders
    BY <1>3, <1>a DEF Evict, Deletes, Episodic, Adders, Goes, TypeOK, PlaceInv
  <2>2. \A q \in Q : Doomed(q) \cap Episodic \subseteq Doomed(q)'
    BY <1>3, <1>a, <2>1
    DEF Evict, Deletes, Episodic, Adders, Goes, TypeOK, Doomed
  <2>3. After(Q)' \subseteq After(Q)
    BY <2>1, <2>2 DEF After
  <2> QED
    BY <1>s, <2>1, <2>3
<1>4. ASSUME NEW r \in Requests, Store(r) \/ DeleteAgentMemory(r) \/ DeleteByAgent(r)
                                   \/ ReadEpisodes(r) \/ ClearEpisodes(r) \/ DropCollection(r)
                                   \/ DropRaises(r)
      PROVE  InBounds(After(Q))'
  <2> USE DEF StoreLongTerm, MemoryWrite, LookUpCollection, CreateCollection, Upsert, EmbeddingRaises,
              DeleteAgentMemory, DeleteByAgent, ReadEpisodes, ClearEpisodes, DropCollection, DropRaises
  <2>1. r \notin Episodes /\ Episodic' = Episodic
    BY <1>4, <1>a DEF Store, Episodic, PlaceInv, Embeds, Embedded, Stores
  <2>2. \A q \in Episodes : pc'[q] = pc[q] /\ victims'[q] = victims[q] /\ gone'[q] = gone[q]
    BY <1>4, <1>a, <2>1 DEF Store, Goes, AfterEmbedding, Deletes, TypeOK
  <2>3. Q \subseteq Adders /\ \A q \in Q : Doomed(q)' = Doomed(q)
    BY <1>a, <2>2 DEF Adders, Doomed
  <2>4. After(Q)' \subseteq After(Q)
    BY <2>1, <2>3 DEF After
  <2> QED
    BY <1>s, <2>3, <2>4
<1>5. ASSUME NEW r \in Requests, Commit(r) \/ CommitRaises(r)
      PROVE InBounds(After(Q))'
  <2>0. Commits(r) /\ \E at \in {"lookup", "done", "failed"} : Goes(r, at)
    BY <1>5 DEF Commit, CommitRaises
  <2>1. r \notin Q /\ Q \subseteq Adders /\ pc[r] = "commit"
    BY <2>0, <1>a DEF Commits, Adders, Goes, TypeOK
  <2>2. \A q \in Q : Doomed(q)' = Doomed(q)
    BY <2>0, <1>a, <2>1 DEF Commits, Closes, Goes, TypeOK, Doomed
  <2>3. CASE r \in Episodes
    <3>1. Q \cup {r} \subseteq Adders /\ Doomed(r) = gone[r]
      BY <2>1, <2>3 DEF Adders, Doomed
    <3>2. Episodic' = (Episodic \ gone[r]) \cup {r}
      BY <2>0, <1>a, <2>3 DEF Commits, Episodic
    <3>3. After(Q)' \subseteq After(Q \cup {r})
      BY <2>2, <3>1, <3>2 DEF After
    <3> QED
      BY <1>s, <3>1, <3>3
  <2>4. CASE r \notin Episodes
    <3>1. Episodic' \subseteq Episodic
      BY <2>0, <1>a, <2>4 DEF Commits, Episodic
    <3>2. After(Q)' \subseteq After(Q)
      BY <2>2, <3>1 DEF After
    <3> QED
      BY <1>s, <2>1, <3>2
  <2> QED
    BY <2>3, <2>4
<1>6. ASSUME NEW r \in Requests, RollBack(r) PROVE InBounds(After(Q))'
  <2>1. r \notin Q /\ Q \subseteq Adders /\ Episodic' = Episodic
    BY <1>6, <1>a DEF RollBack, Adders, Goes, TypeOK, Episodic
  <2>2. \A q \in Q : Doomed(q)' = Doomed(q)
    BY <1>6, <1>a, <2>1 DEF RollBack, Closes, Goes, TypeOK, Doomed
  <2>3. After(Q)' \subseteq After(Q)
    BY <2>1, <2>2 DEF After
  <2> QED
    BY <1>s, <2>1, <2>3
<1>7. CASE UNCHANGED vars
  <2>1. Q \subseteq Adders /\ After(Q)' = After(Q)
    BY <1>7 DEF vars, Adders, After, Episodic, Doomed
  <2> QED
    BY <1>s, <2>1
<1> QED
  BY <1>1, <1>2, <1>3, <1>4, <1>5, <1>6, <1>7 DEF Next, Episode, Forget, Ends

(* Every episode above the bound is added after an eviction that lapsed. *)
LEMMA AccountStep == IInv /\ AccountInv /\ [Next]_vars => AccountInv'
<1> SUFFICES ASSUME IInv, AccountInv, [Next]_vars PROVE AccountInv'
  OBVIOUS
<1>a. /\ PlaceInv /\ CountInv /\ lapsed \in Nat /\ pc \in [Requests -> States]
      /\ rows \subseteq Requests /\ gone \in [Requests -> SUBSET (Requests \ Forgets)]
      /\ \A q, r \in Requests : q # r => gone[q] \cap gone[r] = {}
      /\ MaxEntries \in Nat /\ peak \in Nat
      /\ Episodes \subseteq Requests /\ Episodes \cap Forgets = {} /\ Episodes \cap Stores = {}
  BY AgentMemoryAssumption DEF IInv, TypeOK, Requests
<1>p. peak' \in Nat /\ peak <= peak'
  BY PeakStep
<1>f. /\ IsFiniteSet(Episodes)
      /\ IsFiniteSet(Episodic) /\ Cardinality(Episodic) \in Nat
      /\ IsFiniteSet(Unmatched) /\ Cardinality(Unmatched) \in Nat
  <2>1. IsFiniteSet(Episodes) /\ Episodic \subseteq Episodes /\ Unmatched \subseteq Episodes
    BY <1>a, FS_Subset, AgentMemoryAssumption DEF Episodic, Unmatched
  <2> QED
    BY <2>1, FS_Subset, FS_CardinalityType
<1>g. Cardinality(Episodic) + Cardinality(Unmatched) < MaxEntries + peak + lapsed
  BY DEF AccountInv
(* Sets of episodes that do not grow stay within the account. *)
<1>s. ASSUME Episodic' \subseteq Episodic, Unmatched' \subseteq Unmatched, lapsed' = lapsed
      PROVE  AccountInv'
  <2>1. /\ Cardinality(Episodic') \in Nat /\ Cardinality(Episodic') <= Cardinality(Episodic)
        /\ Cardinality(Unmatched') \in Nat /\ Cardinality(Unmatched') <= Cardinality(Unmatched)
    BY <1>f, <1>s, FS_Subset, FS_CardinalityType
  <2> QED
    BY <1>a, <1>f, <1>g, <1>p, <1>s, <2>1 DEF AccountInv
(* One more of the unmatched. *)
<1>u. ASSUME NEW r, Unmatched' \subseteq Unmatched \cup {r}
      PROVE  Cardinality(Unmatched') \in Nat /\ Cardinality(Unmatched') <= Cardinality(Unmatched) + 1
  <2>1. /\ IsFiniteSet(Unmatched \cup {r})
        /\ Cardinality(Unmatched \cup {r}) = IF r \in Unmatched THEN Cardinality(Unmatched)
                                                ELSE Cardinality(Unmatched) + 1
    BY <1>f, FS_AddElement
  <2>2. /\ Cardinality(Unmatched') \in Nat
        /\ Cardinality(Unmatched') <= Cardinality(Unmatched \cup {r})
        /\ Cardinality(Unmatched \cup {r}) \in Nat
    BY <1>u, <2>1, FS_Subset, FS_CardinalityType
  <2> QED
    BY <1>f, <2>1, <2>2
<1>1. ASSUME NEW r \in Requests, RecordEpisode(r) PROVE AccountInv'
  <2>1. Episodic' = Episodic /\ lapsed' = lapsed
    BY <1>1 DEF RecordEpisode, Episodic
  <2>2. CASE Cardinality(Episodic) >= MaxEntries
    <3>1. Unmatched' \subseteq Unmatched
      BY <1>1, <1>a, <2>2 DEF RecordEpisode, Goes, Unmatched
    <3> QED
      BY <1>s, <2>1, <3>1
  <2>3. CASE Cardinality(Episodic) < MaxEntries
    <3>1. Unmatched' \subseteq Unmatched \cup {r}
      BY <1>1, <1>a DEF RecordEpisode, Goes, Unmatched
    <3>2. Unmatched \subseteq Recording
      BY <1>a DEF Unmatched, Recording, Busy, Finished
    <3>3. Cardinality(Unmatched) <= Cardinality(Recording) /\ Cardinality(Recording) \in Nat
      BY <3>2, FiniteRecording, FS_Subset
    <3>4. peak' = IF Cardinality(Recording) < peak THEN peak ELSE Cardinality(Recording) + 1
      BY <1>1 DEF RecordEpisode, Counts
    <3>5. Cardinality(Recording) + 1 <= peak'
      BY <1>a, <3>3, <3>4 DEF CountInv
    <3>6. Cardinality(Unmatched') \in Nat /\ Cardinality(Unmatched') <= Cardinality(Unmatched) + 1
      BY <1>u, <3>1
    <3> QED
      BY <1>a, <1>f, <1>p, <2>1, <2>3, <3>3, <3>5, <3>6 DEF AccountInv
  <2> QED
    BY <2>2, <2>3, <1>a, <1>f
<1>2. ASSUME NEW r \in Requests, SelectVictims(r) PROVE AccountInv'
  <2>1. Episodic' = Episodic /\ Unmatched' \subseteq Unmatched /\ lapsed' = lapsed
    BY <1>2, <1>a DEF SelectVictims, Goes, Unmatched, Episodic
  <2> QED
    BY <1>s, <2>1
<1>3. ASSUME NEW r \in Requests, Evict(r) PROVE AccountInv'
  <2>1. /\ Episodic' = Episodic /\ peak' = peak
        /\ gone' = [gone EXCEPT ![r] = @ \cup (victims[r] \cap rows)]
        /\ lapsed' = IF victims[r] \cap rows = {} THEN lapsed + 1 ELSE lapsed
    BY <1>3 DEF Evict, Deletes, Episodic
  <2>2. CASE victims[r] \cap rows = {}
    <3>1. Unmatched' \subseteq Unmatched \cup {r}
      BY <1>3, <1>a, <2>1 DEF Evict, Goes, Unmatched
    <3>2. Cardinality(Unmatched') \in Nat /\ Cardinality(Unmatched') <= Cardinality(Unmatched) + 1
      BY <1>u, <3>1
    <3> QED
      BY <1>a, <1>f, <1>g, <2>1, <2>2, <3>2 DEF AccountInv
  <2>3. CASE victims[r] \cap rows # {}
    <3>1. gone'[r] # {}
      BY <1>a, <2>1, <2>3
    <3>2. Unmatched' \subseteq Unmatched
      BY <1>3, <1>a, <2>1, <3>1 DEF Evict, Goes, Unmatched
    <3> QED
      BY <1>s, <2>1, <2>3, <3>2
  <2> QED
    BY <2>2, <2>3
<1>4. ASSUME NEW r \in Requests, Store(r) \/ Forget(r) PROVE AccountInv'
  <2> USE DEF StoreLongTerm, MemoryWrite, LookUpCollection, CreateCollection, Upsert, EmbeddingRaises,
              DeleteAgentMemory, DeleteByAgent, ReadEpisodes, ClearEpisodes, DropCollection, DropRaises
  <2>1. r \notin Episodes /\ Episodic' = Episodic /\ lapsed' = lapsed
    BY <1>4, <1>a
    DEF Store, Forget, Episodic, PlaceInv, Embeds, Embedded, Stores
  <2>2. \A q \in Episodes : pc'[q] = pc[q] /\ gone'[q] = gone[q]
    BY <1>4, <1>a, <2>1 DEF Store, Forget, Goes, AfterEmbedding, Deletes
  <2>3. Unmatched' \subseteq Unmatched
    BY <2>2 DEF Unmatched
  <2> QED
    BY <1>s, <2>1, <2>3
<1>5. ASSUME NEW r \in Requests, Commit(r) \/ CommitRaises(r) PROVE AccountInv'
  <2>0. /\ Commits(r) /\ lapsed' = lapsed
        /\ \E at \in {"lookup", "done", "failed"} : Goes(r, at)
    BY <1>5 DEF Commit, CommitRaises
  <2>1. Unmatched' \subseteq Unmatched \ {r}
    BY <1>a, <2>0 DEF Commits, Goes, Closes, Unmatched
  <2>2. CASE r \notin Episodes
    <3>1. Episodic' \subseteq Episodic
      BY <1>a, <2>0, <2>2 DEF Commits, Episodic
    <3> QED
      BY <1>s, <2>0, <2>1, <3>1
  <2>3. CASE r \in Episodes
    <3>1. Episodic' = (Episodic \ gone[r]) \cup {r}
      BY <1>a, <2>0, <2>3 DEF Commits, Episodic
    <3>2. /\ IsFiniteSet(Episodic \ gone[r]) /\ Cardinality(Episodic \ gone[r]) \in Nat
          /\ IsFiniteSet(Unmatched \ {r}) /\ Cardinality(Unmatched \ {r}) \in Nat
          /\ Cardinality(Unmatched') \in Nat
          /\ Cardinality(Unmatched') <= Cardinality(Unmatched \ {r})
          /\ Cardinality(Unmatched \ {r}) <= Cardinality(Unmatched)
          /\ Cardinality(Episodic \ gone[r]) <= Cardinality(Episodic)
      BY <1>f, <2>1, FS_Subset, FS_CardinalityType
    <3>3. /\ Cardinality(Episodic') \in Nat
          /\ Cardinality(Episodic') <= Cardinality(Episodic \ gone[r]) + 1
      <4>1. /\ IsFiniteSet(Episodic')
            /\ Cardinality(Episodic') = IF r \in Episodic \ gone[r]
                                           THEN Cardinality(Episodic \ gone[r])
                                           ELSE Cardinality(Episodic \ gone[r]) + 1
        BY <3>1, <3>2, FS_AddElement
      <4> QED
        BY <3>2, <4>1
    <3>4. CASE gone[r] = {}
      <4>1. r \in Unmatched
        BY <2>0, <2>3, <3>4 DEF Unmatched, Commits
      <4>2. Cardinality(Unmatched \ {r}) = Cardinality(Unmatched) - 1
        BY <1>f, <4>1, FS_RemoveElement
      <4> QED
        BY <1>a, <1>f, <1>g, <1>p, <2>0, <3>2, <3>3, <4>2 DEF AccountInv
    <3>5. CASE gone[r] # {}
      <4>1. PICK g \in gone[r] : g \in Episodic
        BY <1>a, <2>3, <3>5 DEF CountInv, PlaceInv, Episodic
      <4>2. Cardinality(Episodic \ {g}) = Cardinality(Episodic) - 1 /\ IsFiniteSet(Episodic \ {g})
        BY <1>f, <4>1, FS_RemoveElement, FS_Subset
      <4>3. Cardinality(Episodic \ gone[r]) <= Cardinality(Episodic \ {g})
        BY <4>1, <4>2, FS_Subset
      <4> QED
        BY <1>a, <1>f, <1>g, <1>p, <2>0, <3>2, <3>3, <4>2, <4>3 DEF AccountInv
    <3> QED
      BY <3>4, <3>5
  <2> QED
    BY <2>2, <2>3
<1>6. ASSUME NEW r \in Requests, RollBack(r) PROVE AccountInv'
  <2>1. Episodic' = Episodic /\ lapsed' = lapsed /\ Unmatched' \subseteq Unmatched
    BY <1>6, <1>a DEF RollBack, Closes, Goes, Unmatched, Episodic
  <2> QED
    BY <1>s, <2>1
<1>7. CASE UNCHANGED vars
  <2>1. Episodic' = Episodic /\ lapsed' = lapsed /\ Unmatched' = Unmatched
    BY <1>7 DEF vars, Unmatched, Episodic
  <2> QED
    BY <1>s, <2>1
<1> QED
  BY <1>1, <1>2, <1>3, <1>4, <1>5, <1>6, <1>7 DEF Next, Episode, Ends

(* EpisodesBounded of AgentMemory: whatever requests overlap, roll back or *)
(* choose the same rows, the episodes stay below the limit plus those that *)
(* overlapped, and plus the evictions that came too late if more of them   *)
(* overlapped than an eviction takes rows; of any sizes of the pool, the   *)
(* limit and the eviction, those that are shipped among them.              *)
THEOREM EpisodesStayBounded == Spec => []EpisodesBounded
<1>1. Init => RoomInv /\ AccountInv
  <2> SUFFICES ASSUME Init PROVE (\A Q \in SUBSET Adders : InBounds(After(Q))) /\ AccountInv
    BY DEF RoomInv
  <2>1. /\ \A Q \in SUBSET Adders : After(Q) = {}
        /\ Episodic = {} /\ Unmatched = {} /\ peak = 0 /\ lapsed = 0
    BY AgentMemoryAssumption
    DEF Init, Adders, After, Episodic, Unmatched, Requests
  <2>2. IsFiniteSet({}) /\ Cardinality({}) = 0
    BY FS_EmptySet
  <2>3. 0 < MaxEntries + 0 /\ 0 + 0 < MaxEntries + 0 + 0
    BY AgentMemoryAssumption
  <2>4. \A Q \in SUBSET Adders : InBounds(After(Q))
    BY <2>1, <2>2, <2>3 DEF InBounds
  <2>5. AccountInv
    BY <2>1, <2>2, <2>3 DEF AccountInv
  <2> QED
    BY <2>4, <2>5
<1>2. IInv /\ RoomInv /\ AccountInv => EpisodesBounded
  <2> SUFFICES ASSUME IInv, RoomInv, AccountInv PROVE EpisodesBounded
    OBVIOUS
  <2>1. CASE peak <= Evicted
    <3>1. After({}) = Episodic
      BY DEF After
    <3>2. InBounds(After({}))
      BY <2>1 DEF RoomInv
    <3>3. peak \in Nat /\ MaxEntries \in Nat /\ Cardinality(Episodic) < MaxEntries + peak
      BY <3>1, <3>2, AgentMemoryAssumption DEF InBounds, IInv, TypeOK
    <3> QED
      BY <2>1, <3>3 DEF EpisodesBounded
  <2>2. CASE ~(peak <= Evicted)
    <3>1. Unmatched \subseteq Requests
      BY DEF Unmatched, Requests
    <3>2. Cardinality(Unmatched) \in Nat /\ Cardinality(Episodic) \in Nat
      BY <3>1, FiniteEpisodic, FS_Subset, FS_CardinalityType,
         AgentMemoryAssumption
    <3>3. MaxEntries \in Nat /\ peak \in Nat /\ lapsed \in Nat
      BY AgentMemoryAssumption DEF IInv, TypeOK
    <3> QED
      BY <2>2, <3>2, <3>3 DEF AccountInv, EpisodesBounded
  <2> QED
    BY <2>1, <2>2
<1>3. IInv /\ RoomInv /\ AccountInv /\ [Next]_vars => RoomInv' /\ AccountInv'
  BY RoomStep, AccountStep
<1> QED
  BY <1>1, <1>2, <1>3, Invariance, PTL DEF Spec
=============================================================================
