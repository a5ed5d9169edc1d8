----------------------------- MODULE AgentMemory -----------------------------
(***************************************************************************)
(* The stored memories of one agent (backend/memory): rows of the memories *)
(* table, of the long-term or the episodic layer, and a collection of      *)
(* vectors that mirrors the long-term ones.  Requests run at once, each in *)
(* a database session of its own (dependencies.py, database/session.py,    *)
(* tools/builtin/memory.py): a row is seen by others when it is committed, *)
(* and a DELETE waits for the rows another open session has deleted.       *)
(*                                                                         *)
(* A request stores at most one memory, which has the request's name.      *)
(* Which episodes are the least important is left open.                    *)
(***************************************************************************)
EXTENDS Naturals, FiniteSets, FiniteSetsExt

CONSTANTS
  Episodes,     \* requests that record an episode
  Managed,      \* requests that store a memory with MemoryManager
  ByTool,       \* requests that store a memory with the memory_write tool
  Plain,        \* stores that ask for no vector (also_embed=False)
  Forgets,      \* requests that delete the agent's memory
  MaxEntries,   \* agents.memory.episodic.max_entries
  Evicted,      \* the n of _evict_oldest (10)
  Sessions,     \* sessions the pool of the database allows at once
  MaxFailed,    \* bound: how many requests may fail as a whole
  SecondCreate  \* what creating a collection that exists may do, but raise

Stores == Managed \cup ByTool
Requests == Episodes \cup Stores \cup Forgets
Embedded == Stores \ Plain

ASSUME AgentMemoryAssumption ==
  /\ IsFiniteSet(Requests)
  /\ Episodes \cap Stores = {} /\ Episodes \cap Forgets = {} /\ Stores \cap Forgets = {}
  /\ Managed \cap ByTool = {} /\ Plain \subseteq Stores
  /\ MaxEntries \in Nat \ {0} /\ Evicted \in Nat /\ Sessions \in Nat \ {0}
  /\ MaxFailed \in Nat
  /\ SecondCreate \subseteq {"keeps", "empties"}

VARIABLES
  rows,        \* the memories that are committed
  vectors,     \* the memories whose vector is stored
  collection,  \* whether the agent has a collection
  pc,          \* pc[r]: where request r is
  victims,     \* victims[r]: the rows r means to delete
  gone,        \* gone[r]: rows r has deleted, and not committed
  excused,     \* stores that failed, in whole or in part, or met a request
               \* that may remove their vector (history)
  peak,        \* the most episodes that were being recorded at once (history)
  lapsed       \* evictions that found none of their rows left (history)

vars == <<rows, vectors, collection, pc, victims, gone, excused, peak, lapsed>>

States == {"idle", "select", "evict", "lookup", "create", "upsert", "forget",
           "read_episodes", "forget_episodes", "drop", "commit", "done", "failed"}
Finished == {"idle", "done", "failed"}

Busy == {r \in Requests : pc[r] \notin Finished}
Forgetting == Busy \cap Forgets
Recording == Busy \cap Episodes

(* memory_write_handler embeds when its session is closed. *)
Embedding == {r \in ByTool : pc[r] \in {"lookup", "create", "upsert"}}
Episodic == rows \cap Episodes

Goes(r, at) == pc' = [pc EXCEPT ![r] = at]
Begins(r) == pc[r] = "idle" /\ Cardinality(Busy \ Embedding) < Sessions

(* A bound for TLC, not one of the code. *)
MayFail == Cardinality({r \in Requests : pc[r] = "failed"}) < MaxFailed

(* Faulty variant of Deletes: it does not wait for other sessions. *)
DeletesAtOnce(r, what) == gone' = [gone EXCEPT ![r] = @ \cup (what \cap rows)]

(* A DELETE of those of the rows that are committed. *)
Deletes(r, what) ==
  /\ \A q \in Requests \ {r} : gone[q] \cap what = {}
  /\ gone' = [gone EXCEPT ![r] = @ \cup (what \cap rows)]

-----------------------------------------------------------------------------
Counts == peak' = IF Cardinality(Recording) < peak THEN peak ELSE Cardinality(Recording) + 1

(* Faulty variant of RecordEpisode: it evicts above the limit, not at it. *)
RecordEpisodeLate(r) ==
  /\ r \in Episodes
  /\ Begins(r)
  /\ Goes(r, IF Cardinality(Episodic) > MaxEntries THEN "select" ELSE "commit")
  /\ Counts
  /\ UNCHANGED <<rows, vectors, collection, victims, gone, excused, lapsed>>

(* EpisodicMemory.record_episode *)
RecordEpisode(r) ==
  /\ r \in Episodes
  /\ Begins(r)
  /\ Goes(r, IF Cardinality(Episodic) >= MaxEntries THEN "select" ELSE "commit")
  /\ Counts
  /\ UNCHANGED <<rows, vectors, collection, victims, gone, excused, lapsed>>

SelectVictims(r) ==
  /\ pc[r] = "select"
  /\ \E some \in kSubset(IF Cardinality(Episodic) < Evicted THEN Cardinality(Episodic)
                                                            ELSE Evicted, Episodic) :
       victims' = [victims EXCEPT ![r] = some]
  /\ Goes(r, "evict")
  /\ UNCHANGED <<rows, vectors, collection, gone, excused, peak, lapsed>>

Evict(r) ==
  /\ pc[r] = "evict"
  /\ Deletes(r, victims[r])
  /\ lapsed' = IF victims[r] \cap rows = {} THEN lapsed + 1 ELSE lapsed
  /\ Goes(r, "commit")
  /\ UNCHANGED <<rows, vectors, collection, victims, excused, peak>>

-----------------------------------------------------------------------------
Meets(r) == excused' = IF Forgetting # {} THEN excused \cup {r} ELSE excused

(* MemoryManager.store_long_term: the row is flushed, then embedded if it   *)
(* is to be, and committed when the request ends.                          *)
StoreLongTerm(r) ==
  /\ r \in Managed
  /\ Begins(r)
  /\ Goes(r, IF r \in Plain THEN "commit" ELSE "lookup")
  /\ Meets(r)
  /\ UNCHANGED <<rows, vectors, collection, victims, gone, peak, lapsed>>

(* memory_write_handler commits the row first. *)
MemoryWrite(r) ==
  /\ r \in ByTool
  /\ Begins(r)
  /\ Goes(r, "commit")
  /\ Meets(r)
  /\ UNCHANGED <<rows, vectors, collection, victims, gone, peak, lapsed>>

AfterEmbedding(r) == Goes(r, IF r \in Managed THEN "commit" ELSE "done")

(* SemanticMemory.store *)
LookUpCollection(r) ==
  /\ pc[r] = "lookup"
  /\ Goes(r, IF collection THEN "upsert" ELSE "create")
  /\ UNCHANGED <<rows, vectors, collection, victims, gone, excused, peak, lapsed>>

(* A collection that exists since is refused (the step is EmbeddingRaises), *)
(* left as it is (pgvector.py:68) or replaced by an empty one (faiss.py:97). *)
Creates ==
  /\ collection' = TRUE
  /\ \/ ~ collection /\ vectors' = vectors
     \/ collection /\ "keeps" \in SecondCreate /\ vectors' = vectors
     \/ collection /\ "empties" \in SecondCreate /\ vectors' = {}

CreateCollection(r) ==
  /\ pc[r] = "create"
  /\ Creates
  /\ Goes(r, "upsert")
  /\ UNCHANGED <<rows, victims, gone, excused, peak, lapsed>>

(* Another store found no collection, and may yet replace the one there is. *)
AtRisk(r) == "empties" \in SecondCreate /\ \E q \in Stores \ {r} : pc[q] = "create"

(* Some stores raise when the collection is gone, Elasticsearch makes it. *)
Upsert(r) ==
  /\ pc[r] = "upsert"
  /\ vectors' = vectors \cup {r}
  /\ collection' = TRUE
  /\ excused' = IF AtRisk(r) THEN excused \cup {r} ELSE excused
  /\ AfterEmbedding(r)
  /\ UNCHANGED <<rows, victims, gone, peak, lapsed>>

(* Any exception is logged and answered with False, which nobody reads: of  *)
(* the provider, or of the store, which may have created the collection.   *)
(* An upsert that is applied and raises is an Upsert here.                 *)
EmbeddingRaises(r) ==
  /\ pc[r] \in {"lookup", "create", "upsert"}
  /\ \/ UNCHANGED <<vectors, collection>>
     \/ pc[r] = "create" /\ Creates
  /\ excused' = excused \cup {r}
  /\ AfterEmbedding(r)
  /\ UNCHANGED <<rows, victims, gone, peak, lapsed>>

-----------------------------------------------------------------------------
(* MemoryManager.delete_agent_memory: each of the two DELETEs means the    *)
(* rows that are committed when it begins, whatever it has to wait for.    *)
DeleteAgentMemory(r) ==
  /\ r \in Forgets
  /\ Begins(r)
  /\ victims' = [victims EXCEPT ![r] = rows \ Episodes]
  /\ excused' = excused \cup (Busy \cap Stores)
  /\ Goes(r, "forget")
  /\ UNCHANGED <<rows, vectors, collection, gone, peak, lapsed>>

DeleteByAgent(r) ==
  /\ pc[r] = "forget"
  /\ Deletes(r, victims[r])
  /\ Goes(r, "read_episodes")
  /\ UNCHANGED <<rows, vectors, collection, victims, excused, peak, lapsed>>

ReadEpisodes(r) ==
  /\ pc[r] = "read_episodes"
  /\ victims' = [victims EXCEPT ![r] = Episodic]
  /\ Goes(r, "forget_episodes")
  /\ UNCHANGED <<rows, vectors, collection, gone, excused, peak, lapsed>>

ClearEpisodes(r) ==
  /\ pc[r] = "forget_episodes"
  /\ Deletes(r, victims[r])
  /\ Goes(r, "drop")
  /\ UNCHANGED <<rows, vectors, collection, victims, excused, peak, lapsed>>

DropCollection(r) ==
  /\ pc[r] = "drop"
  /\ collection' = FALSE
  /\ vectors' = {}
  /\ Goes(r, "commit")
  /\ UNCHANGED <<rows, victims, gone, excused, peak, lapsed>>

DropRaises(r) ==
  /\ pc[r] = "drop"
  /\ excused' = excused \cup vectors
  /\ Goes(r, "commit")
  /\ UNCHANGED <<rows, vectors, collection, victims, gone, peak, lapsed>>

-----------------------------------------------------------------------------
Closes(r) ==
  /\ gone' = [gone EXCEPT ![r] = {}]
  /\ victims' = [victims EXCEPT ![r] = {}]

Commits(r) ==
  /\ pc[r] = "commit"
  /\ rows' = (rows \ gone[r]) \cup ({r} \ Forgets)
  /\ Closes(r)

(* Faulty variant of Commit: what the tool stored is not embedded. *)
CommitOnly(r) ==
  /\ Commits(r)
  /\ Goes(r, "done")
  /\ UNCHANGED <<vectors, collection, excused, peak, lapsed>>

Commit(r) ==
  /\ Commits(r)
  /\ Goes(r, IF r \in ByTool \ Plain THEN "lookup" ELSE "done")
  /\ UNCHANGED <<vectors, collection, excused, peak, lapsed>>

(* The commit is applied, and its answer lost. *)
CommitRaises(r) ==
  /\ Commits(r)
  /\ MayFail
  /\ excused' = excused \cup ({r} \ Forgets)
  /\ Goes(r, "failed")
  /\ UNCHANGED <<vectors, collection, peak, lapsed>>

(* An exception that nothing catches rolls the session back. *)
RollBack(r) ==
  /\ pc[r] \notin Finished
  /\ MayFail
  /\ Closes(r)
  /\ excused' = excused \cup (IF r \in Forgets THEN rows \cap Stores ELSE {r})
  /\ Goes(r, "failed")
  /\ UNCHANGED <<rows, vectors, collection, peak, lapsed>>

Init ==
  /\ rows = {} /\ vectors = {} /\ collection = FALSE
  /\ pc = [r \in Requests |-> "idle"]
  /\ victims = [r \in Requests |-> {}]
  /\ gone = [r \in Requests |-> {}]
  /\ excused = {} /\ peak = 0 /\ lapsed = 0

Episode(r) == RecordEpisode(r) \/ SelectVictims(r) \/ Evict(r)
Store(r) == StoreLongTerm(r) \/ MemoryWrite(r) \/ LookUpCollection(r)
            \/ CreateCollection(r) \/ Upsert(r) \/ EmbeddingRaises(r)
Forget(r) == DeleteAgentMemory(r) \/ DeleteByAgent(r) \/ ReadEpisodes(r) \/ ClearEpisodes(r)
             \/ DropCollection(r) \/ DropRaises(r)

Ends(r) == Commit(r) \/ CommitRaises(r) \/ RollBack(r)

Next == \E r \in Requests : Episode(r) \/ Store(r) \/ Forget(r) \/ Ends(r)

Spec == Init /\ [][Next]_vars

-----------------------------------------------------------------------------
TypeOK ==
  /\ rows \subseteq Requests \ Forgets
  /\ vectors \subseteq Embedded
  /\ collection \in BOOLEAN
  /\ vectors # {} => collection
  /\ pc \in [Requests -> States]
  /\ Cardinality(Busy \ Embedding) <= Sessions
  /\ victims \in [Requests -> SUBSET (Requests \ Forgets)]
  /\ gone \in [Requests -> SUBSET (Requests \ Forgets)]
  /\ \A q, r \in Requests : q # r => gone[q] \cap gone[r] = {}
  /\ excused \subseteq Requests
  /\ peak \in 0 .. Sessions
  /\ lapsed \in Nat

(* episodic.py:56-58, 103-113: the episodes are counted before one is      *)
(* added, and requests that count at once see the same number, and choose  *)
(* the same rows to evict.  While no more of them ever overlapped than an  *)
(* eviction takes rows, there are fewer episodes than the limit and those  *)
(* that overlapped; with more of them (30 sessions and 10 rows, as         *)
(* shipped), only one more for each eviction that came too late.           *)
EpisodesBounded ==
  Cardinality(Episodic) < MaxEntries + peak + (IF peak <= Evicted THEN 0 ELSE lapsed)

(* memory_manager.py:74-88, 166-169, tools/builtin/memory.py:97-105: rows   *)
(* and vectors are written by different steps, in either order.  A memory  *)
(* to be embedded is in both or in neither, unless a step of its store     *)
(* failed, the agent's memory was deleted at that very time, or            *)
(* (semantic.py:48) it was embedded when another store, which had found no *)
(* collection, was about to put an empty one in its place.                 *)
Mirrored ==
  Forgetting = {} =>
    \A r \in Embedded : pc[r] = "done" /\ r \notin excused => (r \in rows <=> r \in vectors)
=============================================================================
