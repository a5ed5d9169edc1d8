---------------------------- MODULE KnowledgeBase ----------------------------
(***************************************************************************)
(* The life of one knowledge base: its row, its collection of vectors, and *)
(* the tasks that fill it (backend/task_queue/tasks/ingestion.py and       *)
(* embeddings.py).  An ingestion job loads and splits documents and        *)
(* dispatches the chunks in batches; an embedding task stores the vectors  *)
(* of one batch; a refresh empties the collection.  The tasks run in       *)
(* several workers, each with database sessions of its own.                *)
(*                                                                         *)
(* A session reads the row once and computes what it writes from what it   *)
(* read (expire_on_commit=False), and an UPDATE names only the columns     *)
(* whose value differs from it; without one there is no UPDATE.  A chunk   *)
(* gets a fresh id in every run of its job, so a batch is <<j, n, p>>: part*)
(* p of the n-th run of job j.  Every batch counts as one chunk, every     *)
(* non-empty source as one document.                                       *)
(*                                                                         *)
(* A task that raises is retried, and it may raise after what it did took  *)
(* effect: a commit was applied but the connection broke, the session's    *)
(* close failed, or the soft time limit struck.  One whose worker dies     *)
(* before it was acknowledged is delivered again (acks_late), with as many *)
(* retries left; one that is killed at the time limit is acknowledged and  *)
(* has failed.                                                             *)
(***************************************************************************)
EXTENDS Naturals, FiniteSets

CONSTANTS
  Jobs,            \* calls of start_ingestion
  Refresher,       \* the task that refreshes the embeddings
  Parts,           \* Parts[j]: the batches j's source is split into; the
                   \* same part in two jobs is the same text
  JobRetries,      \* max_retries of process_ingestion_job          (3)
  BatchRetries,    \* max_retries of generate_embeddings_for_chunks (5)
  MaxFaults        \* bound: failures and deaths of one behaviour

ASSUME KnowledgeBaseAssumption ==
  /\ IsFiniteSet(Jobs)
  /\ \A j \in Jobs : IsFiniteSet(Parts[j])
  /\ JobRetries \in Nat /\ BatchRetries \in Nat /\ MaxFaults \in Nat

Runs == 1 .. (MaxFaults + 1)
Batches == {b \in Jobs \X Runs \X UNION {Parts[j] : j \in Jobs} : b[3] \in Parts[b[1]]}

VARIABLES
  row,      \* [exists, status, documents, chunks]: the knowledge base's row
  vectors,  \* the batches whose vectors are in the collection
  job,      \* job[j]: where j's task is
  run,      \* run[j]: how many runs of j were begun
  left,     \* left[j]: the parts this run has still to dispatch
  batch,    \* batch[b]: where b's task is
  retries,  \* retries[t]: how often task t was retried
  seen,     \* seen[t]: the row as task t's session knows it; NewRow without one
  refresh,  \* where the refresh is
  counted,  \* batches whose count was committed (history)
  swept,    \* batches whose vectors a refresh took away (history)
  commits,  \* commits that counted a batch (history)
  alone,    \* those of them, since the count was set to 0, made while no
            \* other session was about to count a batch (history)
  repeats,  \* times a batch was queued again after its commit (history)
  loads,    \* documents whose count was committed (history)
  aloneLoads, \* those of them counted while no other job was about to (history)
  faults    \* failures and deaths so far (bound)

rowVars == <<row, vectors>>
jobVars == <<job, run, left>>
chunkHistory == <<counted, swept, commits, alone, repeats>>
docHistory == <<loads, aloneLoads>>
history == <<chunkHistory, docHistory>>
vars == <<rowVars, jobVars, batch, retries, seen, refresh, history, faults>>

Tasks == Jobs \cup Batches \cup {Refresher}

ASSUME TasksAssumption ==
  Refresher \notin Jobs \cup Batches /\ Jobs \cap Batches = {}

Statuses == {"creating", "ready", "indexing", "error"}
JobStates == {"idle", "queued", "mark_indexing", "count", "dispatch",
              "mark", "mark_error", "retry", "done", "gave_up"}
BatchStates == {"none", "queued", "embed", "commit", "return", "done", "gave_up"}
RefreshStates == {"idle", "queued", "mark_indexing", "recreate", "commit",
                  "return", "done", "failed"}

Fault == faults < MaxFaults /\ faults' = faults + 1

(* The row as create_knowledge_base or a migration left it. *)
NewRow == [exists |-> TRUE, status |-> "creating", documents |-> 0, chunks |-> 0]

Open(t) == seen' = [seen EXCEPT ![t] = row]
Close(t) == seen' = [seen EXCEPT ![t] = NewRow]

(* Faulty variant of Write: the UPDATE names every column. *)
WriteAll(t, new) ==
  /\ row.exists \/ new = seen[t]
  /\ row' = [new EXCEPT !.exists = row.exists]

(* The commit of task t, whose session has changed the row to new: columns *)
(* with a changed value are written, none of the others.                   *)
Write(t, new) ==
  /\ row.exists \/ new = seen[t]
  /\ row' = [row EXCEPT
       !.status    = IF new.status = seen[t].status THEN @ ELSE new.status,
       !.documents = IF new.documents = seen[t].documents THEN @ ELSE new.documents,
       !.chunks    = IF new.chunks = seen[t].chunks THEN @ ELSE new.chunks]

Commit(t, new) == Write(t, new) /\ seen' = [seen EXCEPT ![t] = new]
LastCommit(t, new) == Write(t, new) /\ Close(t)

(* A session that counts in a column, between its read and its commit. *)
Loading == {"mark_indexing", "count"}
Adding  == {"embed", "commit"}

JobGoes(j, at) == job' = [job EXCEPT ![j] = at]
BatchGoes(b, at) == batch' = [batch EXCEPT ![b] = at]

-----------------------------------------------------------------------------
(* api/routes/ingestion.py: start_ingestion only queues the task. *)
StartIngestion(j) ==
  /\ job[j] = "idle"
  /\ JobGoes(j, "queued")
  /\ UNCHANGED <<rowVars, run, left, batch, retries, seen, refresh, history, faults>>

(* api/routes/knowledgebases.py: the row goes, the collection stays. *)
DeleteKnowledgeBase ==
  /\ row.exists
  /\ row' = [row EXCEPT !.exists = FALSE]
  /\ UNCHANGED <<vectors, jobVars, batch, retries, seen, refresh, history, faults>>

(* _process_ingestion_job: a missing row raises. *)
JobReads(j) ==
  /\ job[j] = "queued"
  /\ run' = [run EXCEPT ![j] = IF row.exists THEN @ + 1 ELSE @]
  /\ Open(j)
  /\ JobGoes(j, IF row.exists THEN "mark_indexing" ELSE "mark")
  /\ UNCHANGED <<rowVars, left, batch, retries, refresh, history, faults>>

JobMarksIndexing(j) ==
  /\ job[j] = "mark_indexing"
  /\ Commit(j, [seen[j] EXCEPT !.status = "indexing"])
  /\ JobGoes(j, "count")
  /\ UNCHANGED <<vectors, run, left, batch, retries, refresh, history, faults>>

Documents(j) == IF Parts[j] = {} THEN 0 ELSE 1

(* Load, deduplicate, clean and split; an empty source has no documents. *)
JobCounts(j) ==
  /\ job[j] = "count"
  /\ LastCommit(j, [seen[j] EXCEPT !.documents = @ + Documents(j)])
  /\ left' = [left EXCEPT ![j] = Parts[j]]
  /\ JobGoes(j, "dispatch")
  /\ loads' = loads + Documents(j)
  /\ aloneLoads' = IF \E i \in Jobs \ {j} : job[i] \in Loading
                     THEN aloneLoads ELSE aloneLoads + Documents(j)
  /\ UNCHANGED <<vectors, run, batch, retries, refresh, chunkHistory, faults>>

JobDispatches(j, p) ==
  /\ job[j] = "dispatch"
  /\ p \in left[j]
  /\ left' = [left EXCEPT ![j] = @ \ {p}]
  /\ BatchGoes(<<j, run[j], p>>, "queued")
  /\ UNCHANGED <<rowVars, job, run, retries, seen, refresh, history, faults>>

JobAcked(j) ==
  /\ job[j] = "dispatch"
  /\ left[j] = {}
  /\ JobGoes(j, "done")
  /\ UNCHANGED <<rowVars, run, left, batch, retries, seen, refresh, history, faults>>

(* An exception, also of a commit whose row is gone: the job is marked as   *)
(* failed in a session of its own, then retried.                           *)
JobRaises(j) ==
  /\ job[j] \in {"queued", "mark_indexing", "count", "dispatch"}
  /\ \/ Fault
     \/ ~ row.exists /\ job[j] \in {"mark_indexing", "count"} /\ UNCHANGED faults
  /\ JobGoes(j, "mark")
  /\ Close(j)
  /\ left' = [left EXCEPT ![j] = {}]
  /\ UNCHANGED <<rowVars, run, batch, retries, refresh, history>>

MarkReads(j) ==
  /\ job[j] = "mark"
  /\ IF row.exists THEN JobGoes(j, "mark_error") /\ Open(j)
                   ELSE JobGoes(j, "retry") /\ UNCHANGED seen
  /\ UNCHANGED <<rowVars, run, left, batch, retries, refresh, history, faults>>

MarkCommits(j) ==
  /\ job[j] = "mark_error"
  /\ LastCommit(j, [seen[j] EXCEPT !.status = "error"])
  /\ JobGoes(j, "retry")
  /\ UNCHANGED <<vectors, run, left, batch, retries, refresh, history, faults>>

(* Faulty variant of Retry: one retry too many. *)
RetryOnceMore(j) ==
  /\ job[j] = "retry"
  /\ IF retries[j] <= JobRetries
       THEN JobGoes(j, "queued") /\ retries' = [retries EXCEPT ![j] = @ + 1]
       ELSE JobGoes(j, "gave_up") /\ UNCHANGED retries
  /\ UNCHANGED <<rowVars, run, left, batch, seen, refresh, history, faults>>

Retry(j) ==
  /\ job[j] = "retry"
  /\ IF retries[j] < JobRetries
       THEN JobGoes(j, "queued") /\ retries' = [retries EXCEPT ![j] = @ + 1]
       ELSE JobGoes(j, "gave_up") /\ UNCHANGED retries
  /\ UNCHANGED <<rowVars, run, left, batch, seen, refresh, history, faults>>

(* What _mark_knowledge_base_error raises, also after its commit, leaves    *)
(* the except clause before the retry: the task has failed for good.       *)
MarkRaises(j) ==
  /\ job[j] \in {"mark", "mark_error", "retry"}
  /\ \/ Fault
     \/ ~ row.exists /\ job[j] = "mark_error" /\ UNCHANGED faults
  /\ JobGoes(j, "gave_up")
  /\ Close(j)
  /\ UNCHANGED <<rowVars, run, left, batch, retries, refresh, history>>

JobDies(j) ==
  /\ job[j] \notin {"idle", "queued", "done", "gave_up"}
  /\ Fault
  /\ \E at \in {"queued", "gave_up"} : JobGoes(j, at)
  /\ Close(j)
  /\ left' = [left EXCEPT ![j] = {}]
  /\ UNCHANGED <<rowVars, run, batch, retries, refresh, history>>

-----------------------------------------------------------------------------
(* _generate_embeddings_for_chunks. *)
BatchRetry(b) ==
  IF retries[b] < BatchRetries
    THEN BatchGoes(b, "queued") /\ retries' = [retries EXCEPT ![b] = @ + 1]
    ELSE BatchGoes(b, "gave_up") /\ UNCHANGED retries

BatchReads(b) ==
  /\ batch[b] = "queued"
  /\ IF row.exists
       THEN /\ BatchGoes(b, "embed")
            /\ Open(b)
            /\ UNCHANGED retries
       ELSE BatchRetry(b) /\ UNCHANGED seen
  /\ UNCHANGED <<rowVars, jobVars, refresh, history, faults>>

(* Faulty variant of BatchUpserts: the vectors are stored after the commit. *)
BatchUpsertsNothing(b) ==
  /\ batch[b] = "embed"
  /\ BatchGoes(b, "commit")
  /\ UNCHANGED <<rowVars, jobVars, retries, seen, refresh, history, faults>>

(* Embed what is not in the cache, and upsert the vectors by chunk id. *)
BatchUpserts(b) ==
  /\ batch[b] = "embed"
  /\ vectors' = vectors \cup {b}
  /\ BatchGoes(b, "commit")
  /\ UNCHANGED <<row, jobVars, retries, seen, refresh, history, faults>>

CountsBatch(b) ==
  /\ counted' = counted \cup {b}
  /\ commits' = commits + 1
  /\ alone' = IF \E c \in Batches \ {b} : batch[c] \in Adding THEN alone ELSE alone + 1
  /\ UNCHANGED <<swept, repeats, docHistory>>

(* Faulty variant of BatchCommits: the status is left alone. *)
BatchCommitsCount(b) ==
  /\ batch[b] = "commit"
  /\ LastCommit(b, [seen[b] EXCEPT !.chunks = @ + 1])
  /\ BatchGoes(b, "return")
  /\ CountsBatch(b)
  /\ UNCHANGED <<vectors, jobVars, retries, refresh, faults>>

BatchCommits(b) ==
  /\ batch[b] = "commit"
  /\ LastCommit(b, [seen[b] EXCEPT !.chunks = @ + 1, !.status = "ready"])
  /\ BatchGoes(b, "return")
  /\ CountsBatch(b)
  /\ UNCHANGED <<vectors, jobVars, retries, refresh, faults>>

BatchAcked(b) ==
  /\ batch[b] = "return"
  /\ BatchGoes(b, "done")
  /\ UNCHANGED <<rowVars, jobVars, retries, seen, refresh, history, faults>>

(* The task was counted, and is queued again nonetheless. *)
Repeats(b) ==
  /\ repeats' = IF batch[b] = "return" /\ batch'[b] = "queued" THEN repeats + 1 ELSE repeats
  /\ UNCHANGED <<counted, swept, commits, alone, docHistory>>

(* An exception, also one that comes after the commit was applied. *)
BatchRaises(b) ==
  /\ batch[b] \in {"queued", "embed", "commit", "return"}
  /\ \/ Fault
     \/ ~ row.exists /\ batch[b] = "commit" /\ UNCHANGED faults
  /\ BatchRetry(b)
  /\ Close(b)
  /\ Repeats(b)
  /\ UNCHANGED <<rowVars, jobVars, refresh>>

BatchDies(b) ==
  /\ batch[b] \in {"embed", "commit", "return"}
  /\ Fault
  /\ \E at \in {"queued", "gave_up"} : BatchGoes(b, at)
  /\ Close(b)
  /\ Repeats(b)
  /\ UNCHANGED <<rowVars, jobVars, retries, refresh>>

-----------------------------------------------------------------------------
(* _refresh_knowledge_base_embeddings, which nothing retries. *)
RefreshReads ==
  /\ refresh = "queued"
  /\ Open(Refresher)
  /\ refresh' = IF row.exists THEN "mark_indexing" ELSE "failed"
  /\ UNCHANGED <<rowVars, jobVars, batch, retries, history, faults>>

RefreshMarksIndexing ==
  /\ refresh = "mark_indexing"
  /\ Commit(Refresher, [seen[Refresher] EXCEPT !.status = "indexing"])
  /\ refresh' = "recreate"
  /\ UNCHANGED <<vectors, jobVars, batch, retries, history, faults>>

RefreshRecreates ==
  /\ refresh = "recreate"
  /\ vectors' = {}
  /\ swept' = swept \cup vectors
  /\ refresh' = "commit"
  /\ UNCHANGED <<row, jobVars, batch, retries, seen, faults>>
  /\ UNCHANGED <<counted, commits, alone, repeats, docHistory>>

RefreshCommits ==
  /\ refresh = "commit"
  /\ LastCommit(Refresher, [seen[Refresher] EXCEPT !.chunks = 0, !.status = "ready"])
  /\ refresh' = "return"
  /\ alone' = 0
  /\ UNCHANGED <<vectors, jobVars, batch, retries, faults>>
  /\ UNCHANGED <<counted, swept, commits, repeats, docHistory>>

RefreshAcked ==
  /\ refresh = "return"
  /\ refresh' = "done"
  /\ UNCHANGED <<rowVars, jobVars, batch, retries, seen, history, faults>>

RefreshRaises ==
  /\ refresh \in {"queued", "mark_indexing", "recreate", "commit", "return"}
  /\ \/ Fault
     \/ ~ row.exists /\ refresh \in {"mark_indexing", "commit"} /\ UNCHANGED faults
  /\ refresh' = "failed"
  /\ Close(Refresher)
  /\ UNCHANGED <<rowVars, jobVars, batch, retries, history>>

RefreshDies ==
  /\ refresh \in {"mark_indexing", "recreate", "commit", "return"}
  /\ Fault
  /\ refresh' \in {"queued", "failed"}
  /\ Close(Refresher)
  /\ UNCHANGED <<rowVars, jobVars, batch, retries, history>>

-----------------------------------------------------------------------------
Init ==
  /\ row = NewRow
  /\ vectors = {}
  /\ job = [j \in Jobs |-> "idle"]
  /\ run = [j \in Jobs |-> 0]
  /\ left = [j \in Jobs |-> {}]
  /\ batch = [b \in Batches |-> "none"]
  /\ retries = [t \in Jobs \cup Batches |-> 0]
  /\ seen = [t \in Tasks |-> NewRow]
  /\ refresh \in {"idle", "queued"}
  /\ counted = {} /\ swept = {}
  /\ commits = 0 /\ alone = 0 /\ repeats = 0
  /\ loads = 0 /\ aloneLoads = 0
  /\ faults = 0

JobStep(j) ==
  \/ JobReads(j) \/ JobMarksIndexing(j) \/ JobCounts(j)
  \/ \E p \in Parts[j] : JobDispatches(j, p)
  \/ JobAcked(j) \/ MarkReads(j) \/ MarkCommits(j) \/ Retry(j)

BatchStep(b) == BatchReads(b) \/ BatchUpserts(b) \/ BatchCommits(b) \/ BatchAcked(b)

RefreshStep ==
  RefreshReads \/ RefreshMarksIndexing \/ RefreshRecreates \/ RefreshCommits \/ RefreshAcked

Next ==
  \/ \E j \in Jobs : StartIngestion(j) \/ JobStep(j) \/ JobRaises(j) \/ MarkRaises(j) \/ JobDies(j)
  \/ \E b \in Batches : BatchStep(b) \/ BatchRaises(b) \/ BatchDies(b)
  \/ RefreshStep \/ RefreshRaises \/ RefreshDies
  \/ DeleteKnowledgeBase

Spec == Init /\ [][Next]_vars

-----------------------------------------------------------------------------
Rows == [exists : BOOLEAN, status : Statuses, documents : Nat, chunks : Nat]

TypeOK ==
  /\ row \in Rows
  /\ vectors \subseteq Batches /\ counted \subseteq Batches /\ swept \subseteq Batches
  /\ job \in [Jobs -> JobStates]
  /\ run \in [Jobs -> 0 .. MaxFaults + 1]
  /\ left \in [Jobs -> SUBSET UNION {Parts[j] : j \in Jobs}]
  /\ \A j \in Jobs : left[j] \subseteq Parts[j]
  /\ batch \in [Batches -> BatchStates]
  /\ retries \in [Jobs \cup Batches -> Nat]
  /\ \A j \in Jobs : retries[j] <= JobRetries
  /\ \A b \in Batches : retries[b] <= BatchRetries
  /\ seen \in [Tasks -> Rows]
  /\ refresh \in RefreshStates
  /\ commits \in Nat /\ alone \in Nat /\ repeats \in Nat
  /\ loads \in Nat /\ aloneLoads \in Nat
  /\ faults \in 0 .. MaxFaults

(* embeddings.py:67, 120-124: whatever overlaps, fails or is tried again,   *)
(* a batch that is counted had its vectors stored, and they are in the     *)
(* collection unless a refresh took them away; and the count is too high   *)
(* by no more than the times a batch was queued again after its commit.    *)
CountedIsStored ==
  /\ counted \subseteq vectors \cup swept
  /\ row.chunks <= Cardinality(counted) + repeats

(* ingestion.py:94, embeddings.py:122: the counts are read and written     *)
(* back by many sessions, and what sessions that overlap count may be lost.*)
(* What a session counts alone is never lost, whatever overlaps later, as  *)
(* long as no refresh sets the count to 0; and a count never shows more    *)
(* than was counted.                                                       *)
CountsKept ==
  /\ alone <= row.chunks /\ row.chunks <= commits
  /\ aloneLoads <= row.documents /\ row.documents <= loads

Settled ==
  /\ \A j \in Jobs : job[j] \in {"idle", "done", "gave_up"}
  /\ \A b \in Batches : batch[b] \in {"none", "done", "gave_up"}
  /\ refresh \in {"idle", "done", "failed"}

(* The last run of the job was of no use. *)
Fruitless(j) ==
  /\ job[j] \in {"done", "gave_up"}
  /\ \A p \in Parts[j] : <<j, run[j], p>> \notin counted

(* ingestion.py:55, embeddings.py:123, 158-171: a knowledge base that is    *)
(* still "indexing" when everything has come to rest is so for one of two  *)
(* reasons: a job of which no batch was embedded, or a failed refresh.     *)
LeftIndexing ==
  Settled /\ row.exists /\ row.status = "indexing" =>
    refresh = "failed" \/ \E j \in Jobs : Fruitless(j)

(* docs/ingestion.md:41, "Re-ingesting the same document is safe; it        *)
(* replaces the previous version": when everything has come to rest, no    *)
(* text is in the collection twice.                                        *)
Replaced == Settled => \A b, c \in vectors : b[3] = c[3] => b = c
=============================================================================
