------------------------- MODULE KnowledgeBaseProofs -------------------------
(***************************************************************************)
(* Proofs about KnowledgeBase, for any jobs, batches, numbers of retries   *)
(* and faults.                                                             *)
(*                                                                         *)
(* RunInv bounds the runs of a job by the faults; FreshInv: no batch is    *)
(* dispatched twice.  StoredInv: a batch about to be counted has been      *)
(* stored.  AgainInv: the batches that may be counted a second time were   *)
(* each queued again after their commit.  ChunksKept and DocsKept say of   *)
(* every open session that what it read is no less than what was counted   *)
(* alone and no more than what was counted.  StatusInv names who is to     *)
(* blame for "indexing": the refresh, or a job that wrote it and of whose  *)
(* batches none has been counted since.                                    *)
(***************************************************************************)
EXTENDS KnowledgeBase, FiniteSetTheorems, TLAPS

RunInv ==
  \A j \in Jobs :
    /\ run[j] <= faults + 1
    /\ job[j] \in {"idle", "queued", "mark", "mark_error", "retry"} /\ row.exists =>
         run[j] <= faults

StoredInv ==
  /\ counted \subseteq vectors \cup swept
  /\ \A b \in Batches : batch[b] = "commit" => b \in vectors \cup swept
  /\ \A b \in vectors : batch[b] # "none"

(* Batches that were counted and may be counted again. *)
Again == {b \in counted : batch[b] \in {"queued", "embed", "commit"}}

AgainInv ==
  /\ IsFiniteSet(counted)
  /\ commits + Cardinality(Again) <= Cardinality(counted) + repeats

ChunksKept ==
  /\ alone <= row.chunks /\ row.chunks <= commits
  /\ \A b \in Batches :
       batch[b] \in Adding => alone <= seen[b].chunks /\ seen[b].chunks <= commits

DocsKept ==
  /\ aloneLoads <= row.documents /\ row.documents <= loads
  /\ \A j \in Jobs :
       job[j] \in Loading => aloneLoads <= seen[j].documents /\ seen[j].documents <= loads

(* The batches of run n of job j have not been dispatched. *)
Unknown(j, n) ==
  \A b \in Batches : b[1] = j /\ b[2] = n => batch[b] = "none" /\ b \notin counted

BlamedJob(j) ==
  /\ job[j] # "idle"
  /\ \A b \in Batches : b[1] = j /\ b[2] = run[j] =>
       b \notin counted /\ (batch[b] \in Adding => seen[b].status = "indexing")

BlamedRefresh ==
  refresh \in {"queued", "mark_indexing", "recreate", "commit", "failed"}

FreshInv ==
  \A j \in Jobs :
    /\ \A n \in Runs : n > run[j] => Unknown(j, n)
    /\ job[j] \in Loading => Unknown(j, run[j])
    /\ job[j] = "dispatch" =>
         \A b \in Batches :
           b[1] = j /\ b[2] = run[j] /\ b[3] \in left[j] =>
             batch[b] = "none" /\ b \notin counted

StatusInv ==
  /\ refresh \in {"recreate", "commit"} => seen[Refresher].status = "indexing"
  /\ row.status = "indexing" => BlamedRefresh \/ \E j \in Jobs : BlamedJob(j)

IInv ==
  /\ TypeOK /\ RunInv /\ FreshInv
  /\ StoredInv /\ AgainInv /\ ChunksKept /\ DocsKept
  /\ StatusInv

-----------------------------------------------------------------------------
(* What a commit writes: the columns the session has changed. *)
LEMMA WrittenRow ==
  ASSUME row \in Rows, NEW t \in Tasks, NEW new \in Rows, Write(t, new)
  PROVE  /\ row' \in Rows
         /\ row'.exists = row.exists
         /\ row'.status = IF new.status = seen[t].status THEN row.status ELSE new.status
         /\ row'.documents = IF new.documents = seen[t].documents THEN row.documents ELSE new.documents
         /\ row'.chunks = IF new.chunks = seen[t].chunks THEN row.chunks ELSE new.chunks
  BY DEF Write, Rows

LEMMA NewRowIsRow == NewRow \in Rows
  BY DEF NewRow, Rows, Statuses

(* The initial state satisfies the inductive invariant. *)
LEMMA InitIInv == Init => IInv
<1> SUFFICES ASSUME Init PROVE IInv
  OBVIOUS
<1> USE DEF Init
<1>1. TypeOK
  BY NewRowIsRow, KnowledgeBaseAssumption
  DEF TypeOK, JobStates, BatchStates, RefreshStates
<1>2. RunInv
  BY KnowledgeBaseAssumption DEF RunInv
<1>3. StoredInv
  BY DEF StoredInv
<1>4. AgainInv
  <2>1. Again = {}
    BY DEF Again
  <2> QED
    BY <2>1, FS_EmptySet DEF AgainInv
<1>5. ChunksKept /\ DocsKept
  BY DEF ChunksKept, DocsKept, NewRow, Adding, Loading
<1>6. FreshInv
  BY DEF FreshInv, Unknown, Loading
<1>7. StatusInv
  BY DEF StatusInv, NewRow
<1> QED
  BY <1>1, <1>2, <1>3, <1>4, <1>5, <1>6, <1>7 DEF IInv

(* What each of the tasks commits. *)
LEMMA SeenIsRow ==
  ASSUME TypeOK, NEW t \in Tasks
  PROVE  /\ t \in Tasks /\ seen[t] \in Rows /\ row \in Rows
         /\ seen[t].documents \in Nat /\ seen[t].chunks \in Nat
         /\ row.documents \in Nat /\ row.chunks \in Nat
  BY DEF TypeOK, Rows

LEMMA JobMarksIndexingRow ==
  ASSUME TypeOK, NEW j \in Jobs, JobMarksIndexing(j)
  PROVE  /\ row' \in Rows
         /\ row'.exists = row.exists
         /\ row'.status = IF seen[j].status = "indexing" THEN row.status ELSE "indexing"
         /\ row'.documents = row.documents
         /\ row'.chunks = row.chunks
         /\ seen' = [seen EXCEPT ![j] = [seen[j] EXCEPT !.status = "indexing"]]
         /\ [seen[j] EXCEPT !.status = "indexing"] \in Rows
<1>1. /\ j \in Tasks /\ seen[j] \in Rows /\ row \in Rows
      /\ seen[j].documents \in Nat /\ seen[j].chunks \in Nat
  BY SeenIsRow DEF Tasks
<1> DEFINE new == [seen[j] EXCEPT !.status = "indexing"]
<1>2. new \in Rows
  BY <1>1 DEF Rows, Statuses
<1>3. Write(j, new) /\ seen' = [seen EXCEPT ![j] = new]
  BY DEF JobMarksIndexing, Commit
<1>4. /\ new.status = "indexing"
      /\ new.documents = seen[j].documents
      /\ new.chunks = seen[j].chunks
  BY <1>1 DEF Rows
<1> HIDE DEF new
<1>5. row' \in Rows /\ row'.exists = row.exists
      /\ row'.status = (IF new.status = seen[j].status THEN row.status ELSE new.status)
      /\ row'.documents = (IF new.documents = seen[j].documents THEN row.documents ELSE new.documents)
      /\ row'.chunks = (IF new.chunks = seen[j].chunks THEN row.chunks ELSE new.chunks)
  BY <1>1, <1>2, <1>3, WrittenRow
<1> QED
  BY <1>1, <1>2, <1>3, <1>4, <1>5 DEF new

LEMMA JobCountsRow ==
  ASSUME TypeOK, NEW j \in Jobs, JobCounts(j)
  PROVE  /\ row' \in Rows
         /\ row'.exists = row.exists
         /\ row'.status = row.status
         /\ row'.documents = IF Documents(j) = 0 THEN row.documents ELSE seen[j].documents + 1
         /\ row'.chunks = row.chunks
         /\ seen' = [seen EXCEPT ![j] = NewRow]
<1>1. /\ j \in Tasks /\ seen[j] \in Rows /\ row \in Rows
      /\ seen[j].documents \in Nat /\ seen[j].chunks \in Nat
  BY SeenIsRow DEF Tasks
<1> DEFINE new == [seen[j] EXCEPT !.documents = @ + Documents(j)]
<1>2. new \in Rows
  BY <1>1 DEF Rows, Statuses, Documents
<1>3. Write(j, new) /\ seen' = [seen EXCEPT ![j] = NewRow]
  BY DEF JobCounts, LastCommit, Close
<1>4. /\ new.status = seen[j].status
      /\ new.documents = seen[j].documents + Documents(j)
      /\ new.chunks = seen[j].chunks
  BY <1>1 DEF Rows
<1> HIDE DEF new
<1>5. row' \in Rows /\ row'.exists = row.exists
      /\ row'.status = (IF new.status = seen[j].status THEN row.status ELSE new.status)
      /\ row'.documents = (IF new.documents = seen[j].documents THEN row.documents ELSE new.documents)
      /\ row'.chunks = (IF new.chunks = seen[j].chunks THEN row.chunks ELSE new.chunks)
  BY <1>1, <1>2, <1>3, WrittenRow
<1> QED
  BY <1>1, <1>2, <1>3, <1>4, <1>5 DEF Documents

LEMMA MarkCommitsRow ==
  ASSUME TypeOK, NEW j \in Jobs, MarkCommits(j)
  PROVE  /\ row' \in Rows
         /\ row'.exists = row.exists
         /\ row'.status = IF seen[j].status = "error" THEN row.status ELSE "error"
         /\ row'.documents = row.documents
         /\ row'.chunks = row.chunks
         /\ seen' = [seen EXCEPT ![j] = NewRow]
<1>1. /\ j \in Tasks /\ seen[j] \in Rows /\ row \in Rows
      /\ seen[j].documents \in Nat /\ seen[j].chunks \in Nat
  BY SeenIsRow DEF Tasks
<1> DEFINE new == [seen[j] EXCEPT !.status = "error"]
<1>2. new \in Rows
  BY <1>1 DEF Rows, Statuses
<1>3. Write(j, new) /\ seen' = [seen EXCEPT ![j] = NewRow]
  BY DEF MarkCommits, LastCommit, Close
<1>4. /\ new.status = "error"
      /\ new.documents = seen[j].documents
      /\ new.chunks = seen[j].chunks
  BY <1>1 DEF Rows
<1> HIDE DEF new
<1>5. row' \in Rows /\ row'.exists = row.exists
      /\ row'.status = (IF new.status = seen[j].status THEN row.status ELSE new.status)
      /\ row'.documents = (IF new.documents = seen[j].documents THEN row.documents ELSE new.documents)
      /\ row'.chunks = (IF new.chunks = seen[j].chunks THEN row.chunks ELSE new.chunks)
  BY <1>1, <1>2, <1>3, WrittenRow
<1> QED
  BY <1>1, <1>2, <1>3, <1>4, <1>5

LEMMA BatchCommitsRow ==
  ASSUME TypeOK, NEW b \in Batches, BatchCommits(b)
  PROVE  /\ row' \in Rows
         /\ row'.exists = row.exists
         /\ row'.status = IF seen[b].status = "ready" THEN row.status ELSE "ready"
         /\ row'.documents = row.documents
         /\ row'.chunks = seen[b].chunks + 1
         /\ seen' = [seen EXCEPT ![b] = NewRow]
<1>1. /\ b \in Tasks /\ seen[b] \in Rows /\ row \in Rows
      /\ seen[b].documents \in Nat /\ seen[b].chunks \in Nat
  BY SeenIsRow DEF Tasks
<1> DEFINE new == [seen[b] EXCEPT !.chunks = @ + 1, !.status = "ready"]
<1>2. new \in Rows
  <2>1. seen[b].chunks + 1 \in Nat
    BY <1>1
  <2> QED
    BY <1>1, <2>1 DEF Rows, Statuses
<1>3. Write(b, new) /\ seen' = [seen EXCEPT ![b] = NewRow]
  BY DEF BatchCommits, LastCommit, Close
<1>4. /\ new.status = "ready"
      /\ new.documents = seen[b].documents
      /\ new.chunks = seen[b].chunks + 1
  BY <1>1 DEF Rows
<1> HIDE DEF new
<1>5. row' \in Rows /\ row'.exists = row.exists
      /\ row'.status = (IF new.status = seen[b].status THEN row.status ELSE new.status)
      /\ row'.documents = (IF new.documents = seen[b].documents THEN row.documents ELSE new.documents)
      /\ row'.chunks = (IF new.chunks = seen[b].chunks THEN row.chunks ELSE new.chunks)
  BY <1>1, <1>2, <1>3, WrittenRow
<1> QED
  BY <1>1, <1>2, <1>3, <1>4, <1>5

LEMMA RefreshMarksIndexingRow ==
  ASSUME TypeOK, RefreshMarksIndexing
  PROVE  /\ row' \in Rows
         /\ row'.exists = row.exists
         /\ row'.status = IF seen[Refresher].status = "indexing" THEN row.status ELSE "indexing"
         /\ row'.documents = row.documents
         /\ row'.chunks = row.chunks
         /\ seen' = [seen EXCEPT ![Refresher] = [seen[Refresher] EXCEPT !.status = "indexing"]]
         /\ [seen[Refresher] EXCEPT !.status = "indexing"] \in Rows
<1>1. /\ Refresher \in Tasks /\ seen[Refresher] \in Rows /\ row \in Rows
      /\ seen[Refresher].documents \in Nat /\ seen[Refresher].chunks \in Nat
  BY SeenIsRow DEF Tasks
<1> DEFINE new == [seen[Refresher] EXCEPT !.status = "indexing"]
<1>2. new \in Rows
  BY <1>1 DEF Rows, Statuses
<1>3. Write(Refresher, new) /\ seen' = [seen EXCEPT ![Refresher] = new]
  BY DEF RefreshMarksIndexing, Commit
<1>4. /\ new.status = "indexing"
      /\ new.documents = seen[Refresher].documents
      /\ new.chunks = seen[Refresher].chunks
  BY <1>1 DEF Rows
<1> HIDE DEF new
<1>5. row' \in Rows /\ row'.exists = row.exists
      /\ row'.status = (IF new.status = seen[Refresher].status THEN row.status ELSE new.status)
      /\ row'.documents = (IF new.documents = seen[Refresher].documents THEN row.documents ELSE new.documents)
      /\ row'.chunks = (IF new.chunks = seen[Refresher].chunks THEN row.chunks ELSE new.chunks)
  BY <1>1, <1>2, <1>3, WrittenRow
<1> QED
  BY <1>1, <1>2, <1>3, <1>4, <1>5 DEF new

LEMMA RefreshCommitsRow ==
  ASSUME TypeOK, RefreshCommits
  PROVE  /\ row' \in Rows
         /\ row'.exists = row.exists
         /\ row'.status = IF seen[Refresher].status = "ready" THEN row.status ELSE "ready"
         /\ row'.documents = row.documents
         /\ row'.chunks = IF seen[Refresher].chunks = 0 THEN row.chunks ELSE 0
         /\ seen' = [seen EXCEPT ![Refresher] = NewRow]
<1>1. /\ Refresher \in Tasks /\ seen[Refresher] \in Rows /\ row \in Rows
      /\ seen[Refresher].documents \in Nat /\ seen[Refresher].chunks \in Nat
  BY SeenIsRow DEF Tasks
<1> DEFINE new == [seen[Refresher] EXCEPT !.chunks = 0, !.status = "ready"]
<1>2. new \in Rows
  BY <1>1 DEF Rows, Statuses
<1>3. Write(Refresher, new) /\ seen' = [seen EXCEPT ![Refresher] = NewRow]
  BY DEF RefreshCommits, LastCommit, Close
<1>4. /\ new.status = "ready"
      /\ new.documents = seen[Refresher].documents
      /\ new.chunks = 0
  BY <1>1 DEF Rows
<1> HIDE DEF new
<1>5. row' \in Rows /\ row'.exists = row.exists
      /\ row'.status = (IF new.status = seen[Refresher].status THEN row.status ELSE new.status)
      /\ row'.documents = (IF new.documents = seen[Refresher].documents THEN row.documents ELSE new.documents)
      /\ row'.chunks = (IF new.chunks = seen[Refresher].chunks THEN row.chunks ELSE new.chunks)
  BY <1>1, <1>2, <1>3, WrittenRow
<1> QED
  BY <1>1, <1>2, <1>3, <1>4, <1>5

-----------------------------------------------------------------------------
(* Every step keeps the types; the faults bound the runs. *)
LEMMA TypeStep == IInv /\ [Next]_vars => TypeOK' /\ RunInv'
<1> SUFFICES ASSUME IInv, [Next]_vars PROVE TypeOK' /\ RunInv'
  OBVIOUS
<1> USE DEF TypeOK, RunInv, rowVars, jobVars, history, chunkHistory, docHistory
<1>a. TypeOK /\ RunInv
  BY DEF IInv
<1>b. /\ JobRetries \in Nat /\ BatchRetries \in Nat /\ MaxFaults \in Nat
      /\ Jobs \cap Batches = {}
      /\ Jobs \subseteq Tasks /\ Batches \subseteq Tasks /\ Refresher \in Tasks
  BY KnowledgeBaseAssumption, TasksAssumption DEF Tasks
<1>c. NewRow \in Rows
  BY NewRowIsRow
<1>1. ASSUME NEW j \in Jobs, StartIngestion(j) PROVE TypeOK' /\ RunInv'
  BY <1>1, <1>a, <1>b, <1>c
  DEF StartIngestion, JobGoes, JobStates, BatchStates, RefreshStates
<1>2. ASSUME NEW j \in Jobs, JobReads(j) PROVE TypeOK' /\ RunInv'
  BY <1>2, <1>a, <1>b, <1>c
  DEF JobReads, JobGoes, Open, JobStates, BatchStates, RefreshStates
<1>3. ASSUME NEW j \in Jobs, JobMarksIndexing(j) PROVE TypeOK' /\ RunInv'
  <2>1. row' \in Rows
    BY <1>3, <1>a, <1>b, <1>c, JobMarksIndexingRow
    DEF JobMarksIndexing, JobGoes, Commit
  <2>2. vectors' \subseteq Batches /\ counted' \subseteq Batches /\ swept' \subseteq Batches
    BY <1>3, <1>a, <1>b, <1>c DEF JobMarksIndexing, JobGoes, Commit
  <2>3. job' \in [Jobs -> JobStates]
    BY <1>3, <1>a, <1>b, <1>c DEF JobMarksIndexing, JobGoes, Commit, JobStates
  <2>4. run' \in [Jobs -> 0 .. MaxFaults + 1]
    BY <1>3, <1>a, <1>b, <1>c DEF JobMarksIndexing, JobGoes, Commit
  <2>5. left' \in [Jobs -> SUBSET UNION {Parts[i] : i \in Jobs}]
    BY <1>3, <1>a, <1>b, <1>c DEF JobMarksIndexing, JobGoes, Commit
  <2>6. \A i \in Jobs : left'[i] \subseteq Parts[i]
    BY <1>3, <1>a, <1>b, <1>c DEF JobMarksIndexing, JobGoes, Commit
  <2>7. batch' \in [Batches -> BatchStates]
    BY <1>3, <1>a, <1>b, <1>c
    DEF JobMarksIndexing, JobGoes, Commit, BatchStates
  <2>8. /\ retries' \in [Jobs \cup Batches -> Nat]
        /\ \A i \in Jobs : retries'[i] <= JobRetries
        /\ \A c \in Batches : retries'[c] <= BatchRetries
    BY <1>3, <1>a, <1>b, <1>c DEF JobMarksIndexing, JobGoes, Commit
  <2>9. seen' \in [Tasks -> Rows]
    BY <1>3, <1>a, <1>b, <1>c, JobMarksIndexingRow
    DEF JobMarksIndexing, JobGoes, Commit
  <2>10. /\ refresh' \in RefreshStates /\ faults' \in 0 .. MaxFaults
         /\ commits' \in Nat /\ alone' \in Nat /\ repeats' \in Nat
         /\ loads' \in Nat /\ aloneLoads' \in Nat
    BY <1>3, <1>a, <1>b, <1>c
    DEF JobMarksIndexing, JobGoes, Commit, RefreshStates
  <2>11. RunInv'
    BY <1>3, <1>a, <1>b, <1>c, JobMarksIndexingRow
    DEF JobMarksIndexing, JobGoes, Commit
  <2> QED
    BY <2>1, <2>2, <2>3, <2>4, <2>5, <2>6, <2>7, <2>8, <2>9, <2>10, <2>11
<1>4. ASSUME NEW j \in Jobs, JobCounts(j) PROVE TypeOK' /\ RunInv'
  <2>1. row' \in Rows
    BY <1>4, <1>a, <1>b, <1>c, JobCountsRow
    DEF JobCounts, JobGoes, LastCommit, Close, Documents
  <2>2. vectors' \subseteq Batches /\ counted' \subseteq Batches /\ swept' \subseteq Batches
    BY <1>4, <1>a, <1>b, <1>c
    DEF JobCounts, JobGoes, LastCommit, Close, Documents
  <2>3. job' \in [Jobs -> JobStates]
    BY <1>4, <1>a, <1>b, <1>c
    DEF JobCounts, JobGoes, LastCommit, Close, JobStates, Documents
  <2>4. run' \in [Jobs -> 0 .. MaxFaults + 1]
    BY <1>4, <1>a, <1>b, <1>c
    DEF JobCounts, JobGoes, LastCommit, Close, Documents
  <2>5. left' \in [Jobs -> SUBSET UNION {Parts[i] : i \in Jobs}]
    BY <1>4, <1>a, <1>b, <1>c
    DEF JobCounts, JobGoes, LastCommit, Close, Documents
  <2>6. \A i \in Jobs : left'[i] \subseteq Parts[i]
    BY <1>4, <1>a, <1>b, <1>c
    DEF JobCounts, JobGoes, LastCommit, Close, Documents
  <2>7. batch' \in [Batches -> BatchStates]
    BY <1>4, <1>a, <1>b, <1>c
    DEF JobCounts, JobGoes, LastCommit, Close, BatchStates, Documents
  <2>8. /\ retries' \in [Jobs \cup Batches -> Nat]
        /\ \A i \in Jobs : retries'[i] <= JobRetries
        /\ \A c \in Batches : retries'[c] <= BatchRetries
    BY <1>4, <1>a, <1>b, <1>c
    DEF JobCounts, JobGoes, LastCommit, Close, Documents
  <2>9. seen' \in [Tasks -> Rows]
    BY <1>4, <1>a, <1>b, <1>c, JobCountsRow
    DEF JobCounts, JobGoes, LastCommit, Close, Documents
  <2>10. /\ refresh' \in RefreshStates /\ faults' \in 0 .. MaxFaults
         /\ commits' \in Nat /\ alone' \in Nat /\ repeats' \in Nat
         /\ loads' \in Nat /\ aloneLoads' \in Nat
    BY <1>4, <1>a, <1>b, <1>c
    DEF JobCounts, JobGoes, LastCommit, Close, RefreshStates, Documents
  <2>11. RunInv'
    BY <1>4, <1>a, <1>b, <1>c, JobCountsRow
    DEF JobCounts, JobGoes, LastCommit, Close, Documents
  <2> QED
    BY <2>1, <2>2, <2>3, <2>4, <2>5, <2>6, <2>7, <2>8, <2>9, <2>10, <2>11
<1>5. ASSUME NEW j \in Jobs, NEW p \in Parts[j], JobDispatches(j, p)
      PROVE TypeOK' /\ RunInv'
  BY <1>5, <1>a, <1>b, <1>c
  DEF JobDispatches, BatchGoes, JobStates, BatchStates, RefreshStates
<1>6. ASSUME NEW j \in Jobs, JobAcked(j) PROVE TypeOK' /\ RunInv'
  BY <1>6, <1>a, <1>b, <1>c
  DEF JobAcked, JobGoes, JobStates, BatchStates, RefreshStates
<1>7. ASSUME NEW j \in Jobs, JobRaises(j) PROVE TypeOK' /\ RunInv'
  BY <1>7, <1>a, <1>b, <1>c
  DEF JobRaises, JobGoes, Close, Fault, JobStates, BatchStates, RefreshStates
<1>8. ASSUME NEW j \in Jobs, MarkReads(j) PROVE TypeOK' /\ RunInv'
  BY <1>8, <1>a, <1>b, <1>c
  DEF MarkReads, JobGoes, Open, JobStates, BatchStates, RefreshStates
<1>9. ASSUME NEW j \in Jobs, MarkCommits(j) PROVE TypeOK' /\ RunInv'
  <2>1. row' \in Rows
    BY <1>9, <1>a, <1>b, <1>c, MarkCommitsRow
    DEF MarkCommits, JobGoes, LastCommit, Close
  <2>2. vectors' \subseteq Batches /\ counted' \subseteq Batches /\ swept' \subseteq Batches
    BY <1>9, <1>a, <1>b, <1>c DEF MarkCommits, JobGoes, LastCommit, Close
  <2>3. job' \in [Jobs -> JobStates]
    BY <1>9, <1>a, <1>b, <1>c
    DEF MarkCommits, JobGoes, LastCommit, Close, JobStates
  <2>4. run' \in [Jobs -> 0 .. MaxFaults + 1]
    BY <1>9, <1>a, <1>b, <1>c DEF MarkCommits, JobGoes, LastCommit, Close
  <2>5. left' \in [Jobs -> SUBSET UNION {Parts[i] : i \in Jobs}]
    BY <1>9, <1>a, <1>b, <1>c DEF MarkCommits, JobGoes, LastCommit, Close
  <2>6. \A i \in Jobs : left'[i] \subseteq Parts[i]
    BY <1>9, <1>a, <1>b, <1>c DEF MarkCommits, JobGoes, LastCommit, Close
  <2>7. batch' \in [Batches -> BatchStates]
    BY <1>9, <1>a, <1>b, <1>c
    DEF MarkCommits, JobGoes, LastCommit, Close, BatchStates
  <2>8. /\ retries' \in [Jobs \cup Batches -> Nat]
        /\ \A i \in Jobs : retries'[i] <= JobRetries
        /\ \A c \in Batches : retries'[c] <= BatchRetries
    BY <1>9, <1>a, <1>b, <1>c DEF MarkCommits, JobGoes, LastCommit, Close
  <2>9. seen' \in [Tasks -> Rows]
    BY <1>9, <1>a, <1>b, <1>c, MarkCommitsRow
    DEF MarkCommits, JobGoes, LastCommit, Close
  <2>10. /\ refresh' \in RefreshStates /\ faults' \in 0 .. MaxFaults
         /\ commits' \in Nat /\ alone' \in Nat /\ repeats' \in Nat
         /\ loads' \in Nat /\ aloneLoads' \in Nat
    BY <1>9, <1>a, <1>b, <1>c
    DEF MarkCommits, JobGoes, LastCommit, Close, RefreshStates
  <2>11. RunInv'
    BY <1>9, <1>a, <1>b, <1>c, MarkCommitsRow
    DEF MarkCommits, JobGoes, LastCommit, Close
  <2> QED
    BY <2>1, <2>2, <2>3, <2>4, <2>5, <2>6, <2>7, <2>8, <2>9, <2>10, <2>11
<1>10. ASSUME NEW j \in Jobs, Retry(j) PROVE TypeOK' /\ RunInv'
  BY <1>10, <1>a, <1>b, <1>c
  DEF Retry, JobGoes, JobStates, BatchStates, RefreshStates
<1>11. ASSUME NEW j \in Jobs, MarkRaises(j) PROVE TypeOK' /\ RunInv'
  BY <1>11, <1>a, <1>b, <1>c
  DEF MarkRaises, JobGoes, Close, Fault, JobStates, BatchStates,
      RefreshStates
<1>12. ASSUME NEW j \in Jobs, JobDies(j) PROVE TypeOK' /\ RunInv'
  BY <1>12, <1>a, <1>b, <1>c
  DEF JobDies, JobGoes, Close, Fault, JobStates, BatchStates, RefreshStates
<1>13. ASSUME NEW b \in Batches, BatchReads(b) PROVE TypeOK' /\ RunInv'
  <2>1. row' \in Rows
    BY <1>13, <1>a, <1>b, <1>c DEF BatchReads, BatchGoes, Open, BatchRetry
  <2>2. vectors' \subseteq Batches /\ counted' \subseteq Batches /\ swept' \subseteq Batches
    BY <1>13, <1>a, <1>b, <1>c DEF BatchReads, BatchGoes, Open, BatchRetry
  <2>3. job' \in [Jobs -> JobStates]
    BY <1>13, <1>a, <1>b, <1>c
    DEF BatchReads, BatchGoes, Open, BatchRetry, JobStates
  <2>4. run' \in [Jobs -> 0 .. MaxFaults + 1]
    BY <1>13, <1>a, <1>b, <1>c DEF BatchReads, BatchGoes, Open, BatchRetry
  <2>5. left' \in [Jobs -> SUBSET UNION {Parts[i] : i \in Jobs}]
    BY <1>13, <1>a, <1>b, <1>c DEF BatchReads, BatchGoes, Open, BatchRetry
  <2>6. \A i \in Jobs : left'[i] \subseteq Parts[i]
    BY <1>13, <1>a, <1>b, <1>c DEF BatchReads, BatchGoes, Open, BatchRetry
  <2>7. batch' \in [Batches -> BatchStates]
    BY <1>13, <1>a, <1>b, <1>c
    DEF BatchReads, BatchGoes, Open, BatchRetry, BatchStates
  <2>8. /\ retries' \in [Jobs \cup Batches -> Nat]
        /\ \A i \in Jobs : retries'[i] <= JobRetries
        /\ \A c \in Batches : retries'[c] <= BatchRetries
    BY <1>13, <1>a, <1>b, <1>c DEF BatchReads, BatchGoes, Open, BatchRetry
  <2>9. seen' \in [Tasks -> Rows]
    BY <1>13, <1>a, <1>b, <1>c DEF BatchReads, BatchGoes, Open, BatchRetry
  <2>10. /\ refresh' \in RefreshStates /\ faults' \in 0 .. MaxFaults
         /\ commits' \in Nat /\ alone' \in Nat /\ repeats' \in Nat
         /\ loads' \in Nat /\ aloneLoads' \in Nat
    BY <1>13, <1>a, <1>b, <1>c
    DEF BatchReads, BatchGoes, Open, BatchRetry, RefreshStates
  <2>11. RunInv'
    BY <1>13, <1>a, <1>b, <1>c DEF BatchReads, BatchGoes, Open, BatchRetry
  <2> QED
    BY <2>1, <2>2, <2>3, <2>4, <2>5, <2>6, <2>7, <2>8, <2>9, <2>10, <2>11
<1>14. ASSUME NEW b \in Batches, BatchUpserts(b) PROVE TypeOK' /\ RunInv'
  BY <1>14, <1>a, <1>b, <1>c
  DEF BatchUpserts, BatchGoes, JobStates, BatchStates, RefreshStates
<1>15. ASSUME NEW b \in Batches, BatchCommits(b) PROVE TypeOK' /\ RunInv'
  <2>1. row' \in Rows
    BY <1>15, <1>a, <1>b, <1>c, BatchCommitsRow
    DEF BatchCommits, BatchGoes, LastCommit, Close, CountsBatch
  <2>2. vectors' \subseteq Batches /\ counted' \subseteq Batches /\ swept' \subseteq Batches
    BY <1>15, <1>a, <1>b, <1>c
    DEF BatchCommits, BatchGoes, LastCommit, Close, CountsBatch
  <2>3. job' \in [Jobs -> JobStates]
    BY <1>15, <1>a, <1>b, <1>c
    DEF BatchCommits, BatchGoes, LastCommit, Close, CountsBatch, JobStates
  <2>4. run' \in [Jobs -> 0 .. MaxFaults + 1]
    BY <1>15, <1>a, <1>b, <1>c
    DEF BatchCommits, BatchGoes, LastCommit, Close, CountsBatch
  <2>5. left' \in [Jobs -> SUBSET UNION {Parts[i] : i \in Jobs}]
    BY <1>15, <1>a, <1>b, <1>c
    DEF BatchCommits, BatchGoes, LastCommit, Close, CountsBatch
  <2>6. \A i \in Jobs : left'[i] \subseteq Parts[i]
    BY <1>15, <1>a, <1>b, <1>c
    DEF BatchCommits, BatchGoes, LastCommit, Close, CountsBatch
  <2>7. batch' \in [Batches -> BatchStates]
    BY <1>15, <1>a, <1>b, <1>c
    DEF BatchCommits, BatchGoes, LastCommit, Close, CountsBatch, BatchStates
  <2>8. /\ retries' \in [Jobs \cup Batches -> Nat]
        /\ \A i \in Jobs : retries'[i] <= JobRetries
        /\ \A c \in Batches : retries'[c] <= BatchRetries
    BY <1>15, <1>a, <1>b, <1>c
    DEF BatchCommits, BatchGoes, LastCommit, Close, CountsBatch
  <2>9. seen' \in [Tasks -> Rows]
    BY <1>15, <1>a, <1>b, <1>c, BatchCommitsRow
    DEF BatchCommits, BatchGoes, LastCommit, Close, CountsBatch
  <2>10. /\ refresh' \in RefreshStates /\ faults' \in 0 .. MaxFaults
         /\ commits' \in Nat /\ alone' \in Nat /\ repeats' \in Nat
         /\ loads' \in Nat /\ aloneLoads' \in Nat
    BY <1>15, <1>a, <1>b, <1>c
    DEF BatchCommits, BatchGoes, LastCommit, Close, CountsBatch,
        RefreshStates
  <2>11. RunInv'
    BY <1>15, <1>a, <1>b, <1>c, BatchCommitsRow
    DEF BatchCommits, BatchGoes, LastCommit, Close, CountsBatch
  <2> QED
    BY <2>1, <2>2, <2>3, <2>4, <2>5, <2>6, <2>7, <2>8, <2>9, <2>10, <2>11
<1>16. ASSUME NEW b \in Batches, BatchAcked(b) PROVE TypeOK' /\ RunInv'
  BY <1>16, <1>a, <1>b, <1>c
  DEF BatchAcked, BatchGoes, JobStates, BatchStates, RefreshStates
<1>17. ASSUME NEW b \in Batches, BatchRaises(b) PROVE TypeOK' /\ RunInv'
  <2>1. row' \in Rows
    BY <1>17, <1>a, <1>b, <1>c
    DEF BatchRaises, BatchGoes, BatchRetry, Close, Fault, Repeats
  <2>2. vectors' \subseteq Batches /\ counted' \subseteq Batches /\ swept' \subseteq Batches
    BY <1>17, <1>a, <1>b, <1>c
    DEF BatchRaises, BatchGoes, BatchRetry, Close, Fault, Repeats
  <2>3. job' \in [Jobs -> JobStates]
    BY <1>17, <1>a, <1>b, <1>c
    DEF BatchRaises, BatchGoes, BatchRetry, Close, Fault, Repeats, JobStates
  <2>4. run' \in [Jobs -> 0 .. MaxFaults + 1]
    BY <1>17, <1>a, <1>b, <1>c
    DEF BatchRaises, BatchGoes, BatchRetry, Close, Fault, Repeats
  <2>5. left' \in [Jobs -> SUBSET UNION {Parts[i] : i \in Jobs}]
    BY <1>17, <1>a, <1>b, <1>c
    DEF BatchRaises, BatchGoes, BatchRetry, Close, Fault, Repeats
  <2>6. \A i \in Jobs : left'[i] \subseteq Parts[i]
    BY <1>17, <1>a, <1>b, <1>c
    DEF BatchRaises, BatchGoes, BatchRetry, Close, Fault, Repeats
  <2>7. batch' \in [Batches -> BatchStates]
    BY <1>17, <1>a, <1>b, <1>c
    DEF BatchRaises, BatchGoes, BatchRetry, Close, Fault, Repeats,
        BatchStates
  <2>8. /\ retries' \in [Jobs \cup Batches -> Nat]
        /\ \A i \in Jobs : retries'[i] <= JobRetries
        /\ \A c \in Batches : retries'[c] <= BatchRetries
    BY <1>17, <1>a, <1>b, <1>c
    DEF BatchRaises, BatchGoes, BatchRetry, Close, Fault, Repeats
  <2>9. seen' \in [Tasks -> Rows]
    BY <1>17, <1>a, <1>b, <1>c
    DEF BatchRaises, BatchGoes, BatchRetry, Close, Fault, Repeats
  <2>10. /\ refresh' \in RefreshStates /\ faults' \in 0 .. MaxFaults
         /\ commits' \in Nat /\ alone' \in Nat /\ repeats' \in Nat
         /\ loads' \in Nat /\ aloneLoads' \in Nat
    BY <1>17, <1>a, <1>b, <1>c
    DEF BatchRaises, BatchGoes, BatchRetry, Close, Fault, Repeats,
        RefreshStates
  <2>11. RunInv'
    BY <1>17, <1>a, <1>b, <1>c
    DEF BatchRaises, BatchGoes, BatchRetry, Close, Fault, Repeats
  <2> QED
    BY <2>1, <2>2, <2>3, <2>4, <2>5, <2>6, <2>7, <2>8, <2>9, <2>10, <2>11
<1>18. ASSUME NEW b \in Batches, BatchDies(b) PROVE TypeOK' /\ RunInv'
  <2>1. row' \in Rows
    BY <1>18, <1>a, <1>b, <1>c DEF BatchDies, BatchGoes, Close, Fault, Repeats
  <2>2. vectors' \subseteq Batches /\ counted' \subseteq Batches /\ swept' \subseteq Batches
    BY <1>18, <1>a, <1>b, <1>c DEF BatchDies, BatchGoes, Close, Fault, Repeats
  <2>3. job' \in [Jobs -> JobStates]
    BY <1>18, <1>a, <1>b, <1>c
    DEF BatchDies, BatchGoes, Close, Fault, Repeats, JobStates
  <2>4. run' \in [Jobs -> 0 .. MaxFaults + 1]
    BY <1>18, <1>a, <1>b, <1>c DEF BatchDies, BatchGoes, Close, Fault, Repeats
  <2>5. left' \in [Jobs -> SUBSET UNION {Parts[i] : i \in Jobs}]
    BY <1>18, <1>a, <1>b, <1>c DEF BatchDies, BatchGoes, Close, Fault, Repeats
  <2>6. \A i \in Jobs : left'[i] \subseteq Parts[i]
    BY <1>18, <1>a, <1>b, <1>c DEF BatchDies, BatchGoes, Close, Fault, Repeats
  <2>7. batch' \in [Batches -> BatchStates]
    BY <1>18, <1>a, <1>b, <1>c
    DEF BatchDies, BatchGoes, Close, Fault, Repeats, BatchStates
  <2>8. /\ retries' \in [Jobs \cup Batches -> Nat]
        /\ \A i \in Jobs : retries'[i] <= JobRetries
        /\ \A c \in Batches : retries'[c] <= BatchRetries
    BY <1>18, <1>a, <1>b, <1>c DEF BatchDies, BatchGoes, Close, Fault, Repeats
  <2>9. seen' \in [Tasks -> Rows]
    BY <1>18, <1>a, <1>b, <1>c DEF BatchDies, BatchGoes, Close, Fault, Repeats
  <2>10. /\ refresh' \in RefreshStates /\ faults' \in 0 .. MaxFaults
         /\ commits' \in Nat /\ alone' \in Nat /\ repeats' \in Nat
         /\ loads' \in Nat /\ aloneLoads' \in Nat
    BY <1>18, <1>a, <1>b, <1>c
    DEF BatchDies, BatchGoes, Close, Fault, Repeats, RefreshStates
  <2>11. RunInv'
    BY <1>18, <1>a, <1>b, <1>c DEF BatchDies, BatchGoes, Close, Fault, Repeats
  <2> QED
    BY <2>1, <2>2, <2>3, <2>4, <2>5, <2>6, <2>7, <2>8, <2>9, <2>10, <2>11
<1>19. ASSUME RefreshReads PROVE TypeOK' /\ RunInv'
  BY <1>19, <1>a, <1>b, <1>c
  DEF RefreshReads, Open, JobStates, BatchStates, RefreshStates
<1>20. ASSUME RefreshMarksIndexing PROVE TypeOK' /\ RunInv'
  <2>1. row' \in Rows
    BY <1>20, <1>a, <1>b, <1>c, RefreshMarksIndexingRow
    DEF RefreshMarksIndexing, Commit
  <2>2. vectors' \subseteq Batches /\ counted' \subseteq Batches /\ swept' \subseteq Batches
    BY <1>20, <1>a, <1>b, <1>c DEF RefreshMarksIndexing, Commit
  <2>3. job' \in [Jobs -> JobStates]
    BY <1>20, <1>a, <1>b, <1>c DEF RefreshMarksIndexing, Commit, JobStates
  <2>4. run' \in [Jobs -> 0 .. MaxFaults + 1]
    BY <1>20, <1>a, <1>b, <1>c DEF RefreshMarksIndexing, Commit
  <2>5. left' \in [Jobs -> SUBSET UNION {Parts[i] : i \in Jobs}]
    BY <1>20, <1>a, <1>b, <1>c DEF RefreshMarksIndexing, Commit
  <2>6. \A i \in Jobs : left'[i] \subseteq Parts[i]
    BY <1>20, <1>a, <1>b, <1>c DEF RefreshMarksIndexing, Commit
  <2>7. batch' \in [Batches -> BatchStates]
    BY <1>20, <1>a, <1>b, <1>c DEF RefreshMarksIndexing, Commit, BatchStates
  <2>8. /\ retries' \in [Jobs \cup Batches -> Nat]
        /\ \A i \in Jobs : retries'[i] <= JobRetries
        /\ \A c \in Batches : retries'[c] <= BatchRetries
    BY <1>20, <1>a, <1>b, <1>c DEF RefreshMarksIndexing, Commit
  <2>9. seen' \in [Tasks -> Rows]
    BY <1>20, <1>a, <1>b, <1>c, RefreshMarksIndexingRow
    DEF RefreshMarksIndexing, Commit
  <2>10. /\ refresh' \in RefreshStates /\ faults' \in 0 .. MaxFaults
         /\ commits' \in Nat /\ alone' \in Nat /\ repeats' \in Nat
         /\ loads' \in Nat /\ aloneLoads' \in Nat
    BY <1>20, <1>a, <1>b, <1>c DEF RefreshMarksIndexing, Commit, RefreshStates
  <2>11. RunInv'
    BY <1>20, <1>a, <1>b, <1>c, RefreshMarksIndexingRow
    DEF RefreshMarksIndexing, Commit
  <2> QED
    BY <2>1, <2>2, <2>3, <2>4, <2>5, <2>6, <2>7, <2>8, <2>9, <2>10, <2>11
<1>21. ASSUME RefreshRecreates PROVE TypeOK' /\ RunInv'
  BY <1>21, <1>a, <1>b, <1>c
  DEF RefreshRecreates, JobStates, BatchStates, RefreshStates
<1>22. ASSUME RefreshCommits PROVE TypeOK' /\ RunInv'
  BY <1>22, <1>a, <1>b, <1>c, RefreshCommitsRow
  DEF RefreshCommits, LastCommit, Close, JobStates, BatchStates,
      RefreshStates
<1>23. ASSUME RefreshAcked PROVE TypeOK' /\ RunInv'
  BY <1>23, <1>a, <1>b, <1>c
  DEF RefreshAcked, JobStates, BatchStates, RefreshStates
<1>24. ASSUME RefreshRaises PROVE TypeOK' /\ RunInv'
  BY <1>24, <1>a, <1>b, <1>c
  DEF RefreshRaises, Close, Fault, JobStates, BatchStates, RefreshStates
<1>25. ASSUME RefreshDies PROVE TypeOK' /\ RunInv'
  BY <1>25, <1>a, <1>b, <1>c
  DEF RefreshDies, Close, Fault, JobStates, BatchStates, RefreshStates
<1>26. ASSUME DeleteKnowledgeBase PROVE TypeOK' /\ RunInv'
  BY <1>26, <1>a, <1>b, <1>c
  DEF DeleteKnowledgeBase, Fault, JobStates, BatchStates, RefreshStates, Rows
<1>27. CASE UNCHANGED vars
  BY <1>27, <1>a, <1>b, <1>c
  DEF vars, rowVars, jobVars, history, chunkHistory, docHistory
<1> QED
  BY <1>1, <1>2, <1>3, <1>4, <1>5, <1>6, <1>7, <1>8, <1>9, <1>10, <1>11,
     <1>12, <1>13,
     <1>14, <1>15, <1>16, <1>17, <1>18, <1>19, <1>20, <1>21, <1>22, <1>23, <1>24, <1>25, <1>26,
     <1>27
     DEF Next, JobStep, BatchStep, RefreshStep
-----------------------------------------------------------------------------
(* A batch is dispatched once. *)
LEMMA FreshStep == IInv /\ [Next]_vars => FreshInv'
<1> SUFFICES ASSUME IInv, [Next]_vars PROVE FreshInv'
  OBVIOUS
<1> USE DEF rowVars, jobVars, history, chunkHistory, docHistory
<1> USE DEF FreshInv, Unknown, Loading
<1>a. FreshInv /\ TypeOK /\ RunInv
  BY DEF IInv
<1>b. /\ run \in [Jobs -> 0 .. MaxFaults + 1] /\ faults \in 0 .. MaxFaults /\ MaxFaults \in Nat
      /\ job \in [Jobs -> JobStates] /\ batch \in [Batches -> BatchStates]
      /\ left \in [Jobs -> SUBSET UNION {Parts[j] : j \in Jobs}]
  BY <1>a, KnowledgeBaseAssumption DEF TypeOK
<1>c. \A j \in Jobs : job[j] = "queued" /\ row.exists => run[j] <= faults
  BY <1>a DEF RunInv
<1>d. \A b \in Batches : b[2] \in Runs
  BY DEF Batches
<1>1. ASSUME NEW j \in Jobs, StartIngestion(j) PROVE FreshInv'
  BY <1>1, <1>a, <1>b DEF StartIngestion, JobGoes
<1>2. ASSUME NEW j \in Jobs, JobReads(j) PROVE FreshInv'
  BY <1>2, <1>a, <1>b, <1>c, <1>d DEF JobReads, JobGoes, Open, Runs
<1>3. ASSUME NEW j \in Jobs, JobMarksIndexing(j) PROVE FreshInv'
  BY <1>3, <1>a, <1>b DEF JobMarksIndexing, JobGoes, Commit
<1>4. ASSUME NEW j \in Jobs, JobCounts(j) PROVE FreshInv'
  BY <1>4, <1>a, <1>b DEF JobCounts, JobGoes, LastCommit, Close
<1>5. ASSUME NEW j \in Jobs, NEW p \in Parts[j], JobDispatches(j, p)
      PROVE FreshInv'
  BY <1>5, <1>a, <1>b DEF JobDispatches, BatchGoes
<1>6. ASSUME NEW j \in Jobs, JobAcked(j) PROVE FreshInv'
  BY <1>6, <1>a, <1>b DEF JobAcked, JobGoes
<1>7. ASSUME NEW j \in Jobs, JobRaises(j) PROVE FreshInv'
  BY <1>7, <1>a, <1>b DEF JobRaises, JobGoes, Close, Fault
<1>8. ASSUME NEW j \in Jobs, MarkReads(j) PROVE FreshInv'
  BY <1>8, <1>a, <1>b DEF MarkReads, JobGoes, Open
<1>9. ASSUME NEW j \in Jobs, MarkCommits(j) PROVE FreshInv'
  BY <1>9, <1>a, <1>b DEF MarkCommits, JobGoes, LastCommit, Close
<1>10. ASSUME NEW j \in Jobs, Retry(j) PROVE FreshInv'
  BY <1>10, <1>a, <1>b DEF Retry, JobGoes
<1>11. ASSUME NEW j \in Jobs, MarkRaises(j) PROVE FreshInv'
  BY <1>11, <1>a, <1>b DEF MarkRaises, JobGoes, Close, Fault
<1>12. ASSUME NEW j \in Jobs, JobDies(j) PROVE FreshInv'
  BY <1>12, <1>a, <1>b DEF JobDies, JobGoes, Close, Fault
<1>13. ASSUME NEW b \in Batches, BatchReads(b) PROVE FreshInv'
  BY <1>13, <1>a, <1>b DEF BatchReads, BatchGoes, Open, BatchRetry
<1>14. ASSUME NEW b \in Batches, BatchUpserts(b) PROVE FreshInv'
  BY <1>14, <1>a, <1>b DEF BatchUpserts, BatchGoes
<1>15. ASSUME NEW b \in Batches, BatchCommits(b) PROVE FreshInv'
  BY <1>15, <1>a, <1>b
  DEF BatchCommits, BatchGoes, LastCommit, Close, CountsBatch
<1>16. ASSUME NEW b \in Batches, BatchAcked(b) PROVE FreshInv'
  BY <1>16, <1>a, <1>b DEF BatchAcked, BatchGoes
<1>17. ASSUME NEW b \in Batches, BatchRaises(b) PROVE FreshInv'
  BY <1>17, <1>a, <1>b
  DEF BatchRaises, BatchGoes, BatchRetry, Close, Fault, Repeats
<1>18. ASSUME NEW b \in Batches, BatchDies(b) PROVE FreshInv'
  BY <1>18, <1>a, <1>b DEF BatchDies, BatchGoes, Close, Fault, Repeats
<1>19. ASSUME RefreshReads PROVE FreshInv'
  BY <1>19, <1>a, <1>b DEF RefreshReads, Open
<1>20. ASSUME RefreshMarksIndexing PROVE FreshInv'
  BY <1>20, <1>a, <1>b DEF RefreshMarksIndexing, Commit
<1>21. ASSUME RefreshRecreates PROVE FreshInv'
  BY <1>21, <1>a, <1>b DEF RefreshRecreates
<1>22. ASSUME RefreshCommits PROVE FreshInv'
  BY <1>22, <1>a, <1>b DEF RefreshCommits, LastCommit, Close
<1>23. ASSUME RefreshAcked PROVE FreshInv'
  BY <1>23, <1>a, <1>b DEF RefreshAcked
<1>24. ASSUME RefreshRaises PROVE FreshInv'
  BY <1>24, <1>a, <1>b DEF RefreshRaises, Close, Fault
<1>25. ASSUME RefreshDies PROVE FreshInv'
  BY <1>25, <1>a, <1>b DEF RefreshDies, Close, Fault
<1>26. ASSUME DeleteKnowledgeBase PROVE FreshInv'
  BY <1>26, <1>a, <1>b DEF DeleteKnowledgeBase, Fault
<1>27. CASE UNCHANGED vars
  BY <1>27, <1>a, <1>b
  DEF vars, rowVars, jobVars, history, chunkHistory, docHistory
<1> QED
  BY <1>1, <1>2, <1>3, <1>4, <1>5, <1>6, <1>7, <1>8, <1>9, <1>10, <1>11,
     <1>12, <1>13,
     <1>14, <1>15, <1>16, <1>17, <1>18, <1>19, <1>20, <1>21, <1>22, <1>23, <1>24, <1>25, <1>26,
     <1>27
     DEF Next, JobStep, BatchStep, RefreshStep
-----------------------------------------------------------------------------
(* What a job counts alone is never lost, and no document is counted that *)
(* was not loaded.                                                         *)
LEMMA DocsStep == IInv /\ [Next]_vars => DocsKept'
<1> SUFFICES ASSUME IInv, [Next]_vars PROVE DocsKept'
  OBVIOUS
<1> USE DEF rowVars, jobVars, history, chunkHistory, docHistory
<1> USE DEF DocsKept, Loading
<1>a. DocsKept /\ TypeOK
  BY DEF IInv
<1>b. /\ job \in [Jobs -> JobStates] /\ seen \in [Tasks -> Rows]
      /\ loads \in Nat /\ aloneLoads \in Nat
      /\ Jobs \subseteq Tasks /\ Jobs \cap Batches = {} /\ Refresher \notin Jobs
      /\ row \in Rows /\ row.documents \in Nat
      /\ \A j \in Jobs : seen[j] \in Rows /\ seen[j].documents \in Nat
  BY <1>a, TasksAssumption DEF TypeOK, Tasks, Rows
<1>1. ASSUME NEW j \in Jobs, StartIngestion(j) PROVE DocsKept'
  BY <1>1, <1>a, <1>b DEF StartIngestion, JobGoes
<1>2. ASSUME NEW j \in Jobs, JobReads(j) PROVE DocsKept'
  BY <1>2, <1>a, <1>b DEF JobReads, JobGoes, Open
<1>3. ASSUME NEW j \in Jobs, JobMarksIndexing(j) PROVE DocsKept'
  BY <1>3, <1>a, <1>b, JobMarksIndexingRow
  DEF JobMarksIndexing, JobGoes, Commit, Rows
<1>4. ASSUME NEW j \in Jobs, JobCounts(j) PROVE DocsKept'
  <2>1. /\ row'.documents = IF Documents(j) = 0 THEN row.documents ELSE seen[j].documents + 1
        /\ seen' = [seen EXCEPT ![j] = NewRow]
    BY <1>4, <1>a, JobCountsRow
  <2>2. /\ job[j] = "count" /\ job' = [job EXCEPT ![j] = "dispatch"]
        /\ loads' = loads + Documents(j)
        /\ \/ aloneLoads' = aloneLoads
           \/ /\ aloneLoads' = aloneLoads + Documents(j)
              /\ \A i \in Jobs \ {j} : job[i] \notin Loading
        /\ Documents(j) \in {0, 1}
    BY <1>4 DEF JobCounts, JobGoes, Documents
  <2>3. aloneLoads' <= row'.documents /\ row'.documents <= loads'
    BY <2>1, <2>2, <1>a, <1>b
  <2>4. ASSUME NEW i \in Jobs, job'[i] \in Loading
        PROVE  aloneLoads' <= seen'[i].documents /\ seen'[i].documents <= loads'
    <3>1. i # j /\ job[i] \in Loading
      BY <2>2, <2>4, <1>b
    <3>2. seen'[i] = seen[i] /\ aloneLoads' = aloneLoads
      BY <2>1, <2>2, <3>1, <1>b
    <3> QED
      BY <2>2, <3>1, <3>2, <1>a, <1>b
  <2> QED
    BY <2>3, <2>4
<1>5. ASSUME NEW j \in Jobs, NEW p \in Parts[j], JobDispatches(j, p)
      PROVE DocsKept'
  BY <1>5, <1>a, <1>b DEF JobDispatches, BatchGoes
<1>6. ASSUME NEW j \in Jobs, JobAcked(j) PROVE DocsKept'
  BY <1>6, <1>a, <1>b DEF JobAcked, JobGoes
<1>7. ASSUME NEW j \in Jobs, JobRaises(j) PROVE DocsKept'
  BY <1>7, <1>a, <1>b DEF JobRaises, JobGoes, Close, Fault
<1>8. ASSUME NEW j \in Jobs, MarkReads(j) PROVE DocsKept'
  BY <1>8, <1>a, <1>b DEF MarkReads, JobGoes, Open
<1>9. ASSUME NEW j \in Jobs, MarkCommits(j) PROVE DocsKept'
  BY <1>9, <1>a, <1>b, MarkCommitsRow
  DEF MarkCommits, JobGoes, LastCommit, Close
<1>10. ASSUME NEW j \in Jobs, Retry(j) PROVE DocsKept'
  BY <1>10, <1>a, <1>b DEF Retry, JobGoes
<1>11. ASSUME NEW j \in Jobs, MarkRaises(j) PROVE DocsKept'
  BY <1>11, <1>a, <1>b DEF MarkRaises, JobGoes, Close, Fault
<1>12. ASSUME NEW j \in Jobs, JobDies(j) PROVE DocsKept'
  BY <1>12, <1>a, <1>b DEF JobDies, JobGoes, Close, Fault
<1>13. ASSUME NEW b \in Batches, BatchReads(b) PROVE DocsKept'
  BY <1>13, <1>a, <1>b DEF BatchReads, BatchGoes, Open, BatchRetry
<1>14. ASSUME NEW b \in Batches, BatchUpserts(b) PROVE DocsKept'
  BY <1>14, <1>a, <1>b DEF BatchUpserts, BatchGoes
<1>15. ASSUME NEW b \in Batches, BatchCommits(b) PROVE DocsKept'
  BY <1>15, <1>a, <1>b, BatchCommitsRow
  DEF BatchCommits, BatchGoes, LastCommit, Close, CountsBatch
<1>16. ASSUME NEW b \in Batches, BatchAcked(b) PROVE DocsKept'
  BY <1>16, <1>a, <1>b DEF BatchAcked, BatchGoes
<1>17. ASSUME NEW b \in Batches, BatchRaises(b) PROVE DocsKept'
  BY <1>17, <1>a, <1>b
  DEF BatchRaises, BatchGoes, BatchRetry, Close, Fault, Repeats
<1>18. ASSUME NEW b \in Batches, BatchDies(b) PROVE DocsKept'
  BY <1>18, <1>a, <1>b DEF BatchDies, BatchGoes, Close, Fault, Repeats
<1>19. ASSUME RefreshReads PROVE DocsKept'
  BY <1>19, <1>a, <1>b DEF RefreshReads, Open
<1>20. ASSUME RefreshMarksIndexing PROVE DocsKept'
  BY <1>20, <1>a, <1>b, RefreshMarksIndexingRow
  DEF RefreshMarksIndexing, Commit
<1>21. ASSUME RefreshRecreates PROVE DocsKept'
  BY <1>21, <1>a, <1>b DEF RefreshRecreates
<1>22. ASSUME RefreshCommits PROVE DocsKept'
  BY <1>22, <1>a, <1>b, RefreshCommitsRow DEF RefreshCommits, LastCommit, Close
<1>23. ASSUME RefreshAcked PROVE DocsKept'
  BY <1>23, <1>a, <1>b DEF RefreshAcked
<1>24. ASSUME RefreshRaises PROVE DocsKept'
  BY <1>24, <1>a, <1>b DEF RefreshRaises, Close, Fault
<1>25. ASSUME RefreshDies PROVE DocsKept'
  BY <1>25, <1>a, <1>b DEF RefreshDies, Close, Fault
<1>26. ASSUME DeleteKnowledgeBase PROVE DocsKept'
  BY <1>26, <1>a, <1>b DEF DeleteKnowledgeBase, Fault
<1>27. CASE UNCHANGED vars
  BY <1>27, <1>a, <1>b
  DEF vars, rowVars, jobVars, history, chunkHistory, docHistory
<1> QED
  BY <1>1, <1>2, <1>3, <1>4, <1>5, <1>6, <1>7, <1>8, <1>9, <1>10, <1>11,
     <1>12, <1>13,
     <1>14, <1>15, <1>16, <1>17, <1>18, <1>19, <1>20, <1>21, <1>22, <1>23, <1>24, <1>25, <1>26,
     <1>27
     DEF Next, JobStep, BatchStep, RefreshStep
-----------------------------------------------------------------------------
(* Who is to blame for "indexing". *)
LEMMA StatusStep == IInv /\ [Next]_vars => StatusInv'
<1> SUFFICES ASSUME IInv, [Next]_vars PROVE StatusInv'
  OBVIOUS
<1> USE DEF rowVars, jobVars, history, chunkHistory, docHistory
<1> USE DEF StatusInv, BlamedJob, BlamedRefresh, Adding
<1>a. StatusInv /\ TypeOK /\ FreshInv
  BY DEF IInv
<1>b. /\ job \in [Jobs -> JobStates] /\ seen \in [Tasks -> Rows] /\ batch \in [Batches -> BatchStates]
      /\ run \in [Jobs -> 0 .. MaxFaults + 1]
      /\ Jobs \subseteq Tasks /\ Batches \subseteq Tasks /\ Refresher \in Tasks
      /\ Jobs \cap Batches = {} /\ Refresher \notin Jobs \cup Batches
      /\ row \in Rows
  BY <1>a, TasksAssumption DEF TypeOK, Tasks
<1>c. \A j \in Jobs : job[j] \in Loading => Unknown(j, run[j])
  BY <1>a DEF FreshInv
<1>d. \A j \in Jobs : \A n \in Runs : n > run[j] => Unknown(j, n)
  BY <1>a DEF FreshInv
<1>e. MaxFaults \in Nat /\ \A b \in Batches : b[2] \in Runs
  BY KnowledgeBaseAssumption DEF Batches
<1>1. ASSUME NEW j \in Jobs, StartIngestion(j) PROVE StatusInv'
  BY <1>1, <1>a, <1>b, <1>c DEF StartIngestion, JobGoes, Loading, Unknown
<1>2. ASSUME NEW j \in Jobs, JobReads(j) PROVE StatusInv'
  BY <1>2, <1>a, <1>b, <1>c, <1>d, <1>e
  DEF JobReads, JobGoes, Open, Loading, Unknown, Runs
<1>3. ASSUME NEW j \in Jobs, JobMarksIndexing(j) PROVE StatusInv'
  BY <1>3, <1>a, <1>b, <1>c, JobMarksIndexingRow
  DEF JobMarksIndexing, JobGoes, Commit, Loading, Unknown, Rows
<1>4. ASSUME NEW j \in Jobs, JobCounts(j) PROVE StatusInv'
  BY <1>4, <1>a, <1>b, <1>c, JobCountsRow
  DEF JobCounts, JobGoes, LastCommit, Close, Loading, Unknown
<1>5. ASSUME NEW j \in Jobs, NEW p \in Parts[j], JobDispatches(j, p)
      PROVE StatusInv'
  BY <1>5, <1>a, <1>b, <1>c DEF JobDispatches, BatchGoes, Loading, Unknown
<1>6. ASSUME NEW j \in Jobs, JobAcked(j) PROVE StatusInv'
  BY <1>6, <1>a, <1>b, <1>c DEF JobAcked, JobGoes, Loading, Unknown
<1>7. ASSUME NEW j \in Jobs, JobRaises(j) PROVE StatusInv'
  BY <1>7, <1>a, <1>b, <1>c
  DEF JobRaises, JobGoes, Close, Fault, Loading, Unknown
<1>8. ASSUME NEW j \in Jobs, MarkReads(j) PROVE StatusInv'
  BY <1>8, <1>a, <1>b, <1>c DEF MarkReads, JobGoes, Open, Loading, Unknown
<1>9. ASSUME NEW j \in Jobs, MarkCommits(j) PROVE StatusInv'
  <2>1. /\ row'.status \in {row.status, "error"}
        /\ seen' = [seen EXCEPT ![j] = NewRow]
    BY <1>9, <1>a, MarkCommitsRow
  <2>2. /\ job' = [job EXCEPT ![j] = "retry"]
        /\ run' = run /\ batch' = batch /\ refresh' = refresh /\ counted' = counted
    BY <1>9 DEF MarkCommits, JobGoes
  <2>3. \A i \in Jobs : BlamedJob(i) => BlamedJob(i)'
    BY <2>1, <2>2, <1>b
  <2> QED
    BY <2>1, <2>2, <2>3, <1>a, <1>b
<1>10. ASSUME NEW j \in Jobs, Retry(j) PROVE StatusInv'
  BY <1>10, <1>a, <1>b, <1>c DEF Retry, JobGoes, Loading, Unknown
<1>11. ASSUME NEW j \in Jobs, MarkRaises(j) PROVE StatusInv'
  BY <1>11, <1>a, <1>b, <1>c
  DEF MarkRaises, JobGoes, Close, Fault, Loading, Unknown
<1>12. ASSUME NEW j \in Jobs, JobDies(j) PROVE StatusInv'
  BY <1>12, <1>a, <1>b, <1>c
  DEF JobDies, JobGoes, Close, Fault, Loading, Unknown
<1>13. ASSUME NEW b \in Batches, BatchReads(b) PROVE StatusInv'
  BY <1>13, <1>a, <1>b, <1>c
  DEF BatchReads, BatchGoes, Open, BatchRetry, Loading, Unknown
<1>14. ASSUME NEW b \in Batches, BatchUpserts(b) PROVE StatusInv'
  BY <1>14, <1>a, <1>b, <1>c DEF BatchUpserts, BatchGoes, Loading, Unknown
<1>15. ASSUME NEW b \in Batches, BatchCommits(b) PROVE StatusInv'
  <2>1. /\ row'.status = IF seen[b].status = "ready" THEN row.status ELSE "ready"
        /\ seen' = [seen EXCEPT ![b] = NewRow]
    BY <1>15, <1>a, BatchCommitsRow
  <2>2. /\ batch[b] = "commit" /\ batch' = [batch EXCEPT ![b] = "return"]
        /\ counted' = counted \cup {b}
        /\ job' = job /\ run' = run /\ refresh' = refresh
    BY <1>15 DEF BatchCommits, BatchGoes, CountsBatch
  <2>3. \A i \in Jobs : BlamedJob(i) /\ seen[b].status = "ready" => BlamedJob(i)'
    BY <2>1, <2>2, <1>b
  <2> QED
    BY <2>1, <2>2, <2>3, <1>a, <1>b
<1>16. ASSUME NEW b \in Batches, BatchAcked(b) PROVE StatusInv'
  BY <1>16, <1>a, <1>b, <1>c DEF BatchAcked, BatchGoes, Loading, Unknown
<1>17. ASSUME NEW b \in Batches, BatchRaises(b) PROVE StatusInv'
  BY <1>17, <1>a, <1>b, <1>c
  DEF BatchRaises, BatchGoes, BatchRetry, Close, Fault, Repeats, Loading,
      Unknown
<1>18. ASSUME NEW b \in Batches, BatchDies(b) PROVE StatusInv'
  BY <1>18, <1>a, <1>b, <1>c
  DEF BatchDies, BatchGoes, Close, Fault, Repeats, Loading, Unknown
<1>19. ASSUME RefreshReads PROVE StatusInv'
  BY <1>19, <1>a, <1>b, <1>c DEF RefreshReads, Open, Loading, Unknown
<1>20. ASSUME RefreshMarksIndexing PROVE StatusInv'
  BY <1>20, <1>a, <1>b, <1>c, RefreshMarksIndexingRow
  DEF RefreshMarksIndexing, Commit, Loading, Unknown, Rows
<1>21. ASSUME RefreshRecreates PROVE StatusInv'
  BY <1>21, <1>a, <1>b, <1>c DEF RefreshRecreates, Loading, Unknown
<1>22. ASSUME RefreshCommits PROVE StatusInv'
  BY <1>22, <1>a, <1>b, <1>c, RefreshCommitsRow
  DEF RefreshCommits, LastCommit, Close, Loading, Unknown
<1>23. ASSUME RefreshAcked PROVE StatusInv'
  BY <1>23, <1>a, <1>b, <1>c DEF RefreshAcked, Loading, Unknown
<1>24. ASSUME RefreshRaises PROVE StatusInv'
  BY <1>24, <1>a, <1>b, <1>c DEF RefreshRaises, Close, Fault, Loading, Unknown
<1>25. ASSUME RefreshDies PROVE StatusInv'
  BY <1>25, <1>a, <1>b, <1>c DEF RefreshDies, Close, Fault, Loading, Unknown
<1>26. ASSUME DeleteKnowledgeBase PROVE StatusInv'
  BY <1>26, <1>a, <1>b, <1>c DEF DeleteKnowledgeBase, Fault, Loading, Unknown
<1>27. CASE UNCHANGED vars
  BY <1>27, <1>a, <1>b, <1>c
  DEF vars, rowVars, jobVars, history, chunkHistory, docHistory
<1> QED
  BY <1>1, <1>2, <1>3, <1>4, <1>5, <1>6, <1>7, <1>8, <1>9, <1>10, <1>11,
     <1>12, <1>13,
     <1>14, <1>15, <1>16, <1>17, <1>18, <1>19, <1>20, <1>21, <1>22, <1>23, <1>24, <1>25, <1>26,
     <1>27
     DEF Next, JobStep, BatchStep, RefreshStep
-----------------------------------------------------------------------------
(* The steps that have to do with the chunks, and what all others leave    *)
(* alone.                                                                  *)
ChunkStep ==
  \/ \E j \in Jobs : \E p \in Parts[j] : JobDispatches(j, p)
  \/ \E b \in Batches : BatchStep(b) \/ BatchRaises(b) \/ BatchDies(b)
  \/ RefreshRecreates \/ RefreshCommits

Quiet ==
  /\ UNCHANGED <<vectors, batch, counted, swept, commits, alone, repeats>>
  /\ row'.chunks = row.chunks
  /\ \A b \in Batches : seen'[b] = seen[b]

LEMMA QuietOrChunkStep == TypeOK /\ [Next]_vars => Quiet \/ ChunkStep
<1> SUFFICES ASSUME TypeOK, [Next]_vars PROVE Quiet \/ ChunkStep
  OBVIOUS
<1> USE DEF Quiet, rowVars, jobVars, history, chunkHistory, docHistory
<1>a. /\ TypeOK /\ seen \in [Tasks -> Rows] /\ row \in Rows
      /\ Jobs \cap Batches = {} /\ Refresher \notin Batches /\ Batches \subseteq Tasks
  BY TasksAssumption DEF TypeOK, Tasks
<1>1. ASSUME NEW j \in Jobs, StartIngestion(j) PROVE Quiet
  BY <1>1, <1>a DEF StartIngestion, JobGoes
<1>2. ASSUME NEW j \in Jobs, JobReads(j) PROVE Quiet
  BY <1>2, <1>a DEF JobReads, JobGoes, Open
<1>3. ASSUME NEW j \in Jobs, JobMarksIndexing(j) PROVE Quiet
  <2>1. row'.chunks = row.chunks /\ \A b \in Batches : seen'[b] = seen[b]
    BY <1>3, <1>a, JobMarksIndexingRow
  <2> QED
    BY <1>3, <2>1 DEF JobMarksIndexing
<1>4. ASSUME NEW j \in Jobs, JobCounts(j) PROVE Quiet
  <2>1. row'.chunks = row.chunks /\ \A b \in Batches : seen'[b] = seen[b]
    BY <1>4, <1>a, JobCountsRow
  <2> QED
    BY <1>4, <2>1 DEF JobCounts
<1>5. ASSUME NEW j \in Jobs, JobAcked(j) PROVE Quiet
  BY <1>5, <1>a DEF JobAcked, JobGoes
<1>6. ASSUME NEW j \in Jobs, JobRaises(j) PROVE Quiet
  BY <1>6, <1>a DEF JobRaises, JobGoes, Close, Fault
<1>7. ASSUME NEW j \in Jobs, MarkReads(j) PROVE Quiet
  BY <1>7, <1>a DEF MarkReads, JobGoes, Open
<1>8. ASSUME NEW j \in Jobs, MarkCommits(j) PROVE Quiet
  <2>1. row'.chunks = row.chunks /\ \A b \in Batches : seen'[b] = seen[b]
    BY <1>8, <1>a, MarkCommitsRow
  <2> QED
    BY <1>8, <2>1 DEF MarkCommits
<1>9. ASSUME NEW j \in Jobs, Retry(j) PROVE Quiet
  BY <1>9, <1>a DEF Retry, JobGoes
<1>10. ASSUME NEW j \in Jobs, MarkRaises(j) PROVE Quiet
  BY <1>10, <1>a DEF MarkRaises, JobGoes, Close, Fault
<1>11. ASSUME NEW j \in Jobs, JobDies(j) PROVE Quiet
  BY <1>11, <1>a DEF JobDies, JobGoes, Close, Fault
<1>12. ASSUME RefreshReads PROVE Quiet
  BY <1>12, <1>a DEF RefreshReads, Open
<1>13. ASSUME RefreshMarksIndexing PROVE Quiet
  BY <1>13, <1>a, RefreshMarksIndexingRow DEF RefreshMarksIndexing, Commit
<1>14. ASSUME RefreshAcked PROVE Quiet
  BY <1>14, <1>a DEF RefreshAcked
<1>15. ASSUME RefreshRaises PROVE Quiet
  BY <1>15, <1>a DEF RefreshRaises, Close, Fault
<1>16. ASSUME RefreshDies PROVE Quiet
  BY <1>16, <1>a DEF RefreshDies, Close, Fault
<1>17. ASSUME DeleteKnowledgeBase PROVE Quiet
  BY <1>17, <1>a DEF DeleteKnowledgeBase, Fault, Rows
<1>18. CASE UNCHANGED vars
  BY <1>18, <1>a DEF vars
<1> QED
  BY <1>1, <1>2, <1>3, <1>4, <1>5, <1>6, <1>7, <1>8, <1>9, <1>10, <1>11,
     <1>12, <1>13,
     <1>14, <1>15, <1>16, <1>17, <1>18
     DEF Next, JobStep, RefreshStep, ChunkStep

(* What is counted has been stored. *)
LEMMA StoredStep == IInv /\ [Next]_vars => StoredInv'
<1> SUFFICES ASSUME IInv, [Next]_vars PROVE StoredInv'
  OBVIOUS
<1> USE DEF rowVars, jobVars, history, chunkHistory, docHistory
<1> USE DEF StoredInv
<1>a. StoredInv /\ TypeOK
  BY DEF IInv
<1>b. batch \in [Batches -> BatchStates] /\ vectors \subseteq Batches /\ counted \subseteq Batches
  BY <1>a DEF TypeOK
<1>1. ASSUME NEW j \in Jobs, NEW p \in Parts[j], JobDispatches(j, p)
      PROVE StoredInv'
  BY <1>1, <1>a, <1>b DEF JobDispatches, BatchGoes
<1>2. ASSUME NEW b \in Batches, BatchReads(b) PROVE StoredInv'
  BY <1>2, <1>a, <1>b DEF BatchReads, BatchGoes, Open, BatchRetry
<1>3. ASSUME NEW b \in Batches, BatchUpserts(b) PROVE StoredInv'
  BY <1>3, <1>a, <1>b DEF BatchUpserts, BatchGoes
<1>4. ASSUME NEW b \in Batches, BatchCommits(b) PROVE StoredInv'
  BY <1>4, <1>a, <1>b
  DEF BatchCommits, BatchGoes, LastCommit, Close, CountsBatch
<1>5. ASSUME NEW b \in Batches, BatchAcked(b) PROVE StoredInv'
  BY <1>5, <1>a, <1>b DEF BatchAcked, BatchGoes
<1>6. ASSUME NEW b \in Batches, BatchRaises(b) PROVE StoredInv'
  BY <1>6, <1>a, <1>b
  DEF BatchRaises, BatchGoes, BatchRetry, Close, Fault, Repeats
<1>7. ASSUME NEW b \in Batches, BatchDies(b) PROVE StoredInv'
  BY <1>7, <1>a, <1>b DEF BatchDies, BatchGoes, Close, Fault, Repeats
<1>8. ASSUME RefreshRecreates PROVE StoredInv'
  BY <1>8, <1>a, <1>b DEF RefreshRecreates
<1>9. ASSUME RefreshCommits PROVE StoredInv'
  BY <1>9, <1>a, <1>b DEF RefreshCommits, LastCommit, Close
<1>10. CASE Quiet
  BY <1>10, <1>a, <1>b DEF Quiet
<1> QED
  BY <1>a, QuietOrChunkStep, <1>1, <1>2, <1>3, <1>4, <1>5, <1>6, <1>7, <1>8,
     <1>9, <1>10
  DEF ChunkStep, BatchStep

(* A batch is counted a second time only if it was queued again. *)
LEMMA AgainStep == IInv /\ [Next]_vars => AgainInv'
<1> SUFFICES ASSUME IInv, [Next]_vars PROVE AgainInv'
  OBVIOUS
<1> USE DEF rowVars, jobVars, history, chunkHistory, docHistory
<1>a. AgainInv /\ TypeOK /\ FreshInv
  BY DEF IInv
<1>b. /\ batch \in [Batches -> BatchStates] /\ counted \subseteq Batches
      /\ commits \in Nat /\ repeats \in Nat
  BY <1>a DEF TypeOK
<1>c. /\ IsFiniteSet(counted) /\ Cardinality(counted) \in Nat
      /\ IsFiniteSet(Again) /\ Cardinality(Again) \in Nat
  BY <1>a, FS_Subset, FS_CardinalityType DEF AgainInv, Again
<1>f. commits + Cardinality(Again) <= Cardinality(counted) + repeats
  BY <1>a DEF AgainInv
<1>d. ASSUME counted' = counted, commits' = commits, repeats' = repeats, Again' \subseteq Again
      PROVE  AgainInv'
  <2>1. IsFiniteSet(Again') /\ Cardinality(Again') <= Cardinality(Again) /\ Cardinality(Again') \in Nat
    BY <1>c, <1>d, FS_Subset, FS_CardinalityType
  <2>2. Cardinality(counted') = Cardinality(counted) /\ IsFiniteSet(counted')
    BY <1>c, <1>d
  <2> QED
    BY <2>1, <2>2, <1>b, <1>c, <1>d, <1>f DEF AgainInv
<1>e. ASSUME NEW b \in Batches, counted' = counted, commits' = commits, repeats' = repeats + 1,
             Again' \subseteq Again \cup {b}
      PROVE  AgainInv'
  <2>1. /\ IsFiniteSet(Again \cup {b})
        /\ Cardinality(Again \cup {b}) \in {Cardinality(Again), Cardinality(Again) + 1}
    BY <1>c, FS_AddElement
  <2>2. IsFiniteSet(Again') /\ Cardinality(Again') <= Cardinality(Again \cup {b})
        /\ Cardinality(Again \cup {b}) \in Nat /\ Cardinality(Again') \in Nat
    BY <2>1, <1>e, FS_Subset, FS_CardinalityType
  <2> QED
    <3>1. Cardinality(counted') = Cardinality(counted) /\ IsFiniteSet(counted')
      BY <1>c, <1>e
    <3> QED
      BY <2>1, <2>2, <3>1, <1>b, <1>c, <1>e, <1>f DEF AgainInv
<1>1. ASSUME NEW j \in Jobs, NEW p \in Parts[j], JobDispatches(j, p)
      PROVE AgainInv'
  <2>1. counted' = counted /\ commits' = commits /\ repeats' = repeats
    BY <1>1 DEF JobDispatches
  <2>2. Again' \subseteq Again
    BY <1>1, <1>a, <1>b DEF JobDispatches, BatchGoes, FreshInv, Again
  <2> QED
    BY <2>1, <2>2, <1>d
<1>2. ASSUME NEW b \in Batches, BatchReads(b) PROVE AgainInv'
  <2>1. counted' = counted /\ commits' = commits /\ repeats' = repeats
    BY <1>2 DEF BatchReads
  <2>2. Again' \subseteq Again
    BY <1>2, <1>a, <1>b DEF BatchReads, BatchGoes, BatchRetry, Again
  <2> QED
    BY <2>1, <2>2, <1>d
<1>3. ASSUME NEW b \in Batches, BatchUpserts(b) PROVE AgainInv'
  <2>1. counted' = counted /\ commits' = commits /\ repeats' = repeats
    BY <1>3 DEF BatchUpserts
  <2>2. Again' \subseteq Again
    BY <1>3, <1>a, <1>b DEF BatchUpserts, BatchGoes, Again
  <2> QED
    BY <2>1, <2>2, <1>d
<1>4. ASSUME NEW b \in Batches, BatchCommits(b) PROVE AgainInv'
  <2>1. /\ batch[b] = "commit" /\ batch' = [batch EXCEPT ![b] = "return"]
        /\ counted' = counted \cup {b} /\ commits' = commits + 1 /\ repeats' = repeats
    BY <1>4 DEF BatchCommits, BatchGoes, CountsBatch
  <2>2. Again' = Again \ {b}
    BY <2>1, <1>b DEF Again
  <2>3. CASE b \in counted
    <3>1. b \in Again /\ counted' = counted
      BY <2>1, <2>3 DEF Again
    <3>2. IsFiniteSet(Again') /\ Cardinality(Again') = Cardinality(Again) - 1
      BY <2>2, <3>1, <1>c, FS_RemoveElement
    <3>3. Cardinality(counted') = Cardinality(counted) /\ IsFiniteSet(counted')
      BY <3>1, <1>c
    <3> QED
      BY <2>1, <3>2, <3>3, <1>b, <1>c, <1>f DEF AgainInv
  <2>4. CASE b \notin counted
    <3>1. Again' = Again
      BY <2>2, <2>4 DEF Again
    <3>2. IsFiniteSet(counted') /\ Cardinality(counted') = Cardinality(counted) + 1
      BY <2>1, <2>4, <1>c, FS_AddElement
    <3>3. Cardinality(Again') = Cardinality(Again)
      BY <3>1
    <3> QED
      BY <2>1, <3>2, <3>3, <1>b, <1>c, <1>f DEF AgainInv
  <2> QED
    BY <2>3, <2>4
<1>5. ASSUME NEW b \in Batches, BatchAcked(b) PROVE AgainInv'
  <2>1. counted' = counted /\ commits' = commits /\ repeats' = repeats
    BY <1>5 DEF BatchAcked
  <2>2. Again' \subseteq Again
    BY <1>5, <1>a, <1>b DEF BatchAcked, BatchGoes, Again
  <2> QED
    BY <2>1, <2>2, <1>d
<1>6. ASSUME NEW b \in Batches, BatchRaises(b) PROVE AgainInv'
  <2>1. /\ counted' = counted /\ commits' = commits
        /\ \A c \in Batches \ {b} : batch'[c] = batch[c]
        /\ batch'[b] \in {"queued", "gave_up"}
    BY <1>6, <1>b DEF BatchRaises, BatchRetry, BatchGoes, Repeats
  <2>2. CASE batch[b] = "return" /\ batch'[b] = "queued"
    <3>1. repeats' = repeats + 1
      BY <1>6, <2>2 DEF BatchRaises, Repeats
    <3>2. Again' \subseteq Again \cup {b}
      BY <2>1, <1>b DEF Again
    <3> QED
      BY <2>1, <3>1, <3>2, <1>e
  <2>3. CASE ~ (batch[b] = "return" /\ batch'[b] = "queued")
    <3>1. repeats' = repeats
      BY <1>6, <2>3 DEF BatchRaises, Repeats
    <3>2. batch'[b] = "queued" => batch[b] \in {"queued", "embed", "commit"}
      BY <1>6, <2>3 DEF BatchRaises
    <3>3. Again' \subseteq Again
      BY <2>1, <3>2, <1>b DEF Again
    <3> QED
      BY <2>1, <3>1, <3>3, <1>d
  <2> QED
    BY <2>2, <2>3
<1>7. ASSUME NEW b \in Batches, BatchDies(b) PROVE AgainInv'
  <2>1. /\ counted' = counted /\ commits' = commits
        /\ \A c \in Batches \ {b} : batch'[c] = batch[c]
        /\ batch'[b] \in {"queued", "gave_up"}
    BY <1>7, <1>b DEF BatchDies, BatchGoes, Repeats
  <2>2. CASE batch[b] = "return" /\ batch'[b] = "queued"
    <3>1. repeats' = repeats + 1
      BY <1>7, <2>2 DEF BatchDies, Repeats
    <3>2. Again' \subseteq Again \cup {b}
      BY <2>1, <1>b DEF Again
    <3> QED
      BY <2>1, <3>1, <3>2, <1>e
  <2>3. CASE ~ (batch[b] = "return" /\ batch'[b] = "queued")
    <3>1. repeats' = repeats
      BY <1>7, <2>3 DEF BatchDies, Repeats
    <3>2. batch'[b] = "queued" => batch[b] \in {"queued", "embed", "commit"}
      BY <1>7, <2>3 DEF BatchDies
    <3>3. Again' \subseteq Again
      BY <2>1, <3>2, <1>b DEF Again
    <3> QED
      BY <2>1, <3>1, <3>3, <1>d
  <2> QED
    BY <2>2, <2>3
<1>8. ASSUME RefreshRecreates PROVE AgainInv'
  <2>1. counted' = counted /\ commits' = commits /\ repeats' = repeats
    BY <1>8 DEF RefreshRecreates
  <2>2. Again' \subseteq Again
    BY <1>8, <1>a, <1>b DEF RefreshRecreates, Again
  <2> QED
    BY <2>1, <2>2, <1>d
<1>9. ASSUME RefreshCommits PROVE AgainInv'
  <2>1. counted' = counted /\ commits' = commits /\ repeats' = repeats
    BY <1>9 DEF RefreshCommits
  <2>2. Again' \subseteq Again
    BY <1>9, <1>a, <1>b DEF RefreshCommits, Again
  <2> QED
    BY <2>1, <2>2, <1>d
<1>10. CASE Quiet
  <2>1. Again' = Again
    BY <1>10 DEF Quiet, Again
  <2> QED
    BY <1>10, <2>1, <1>d DEF Quiet
<1> QED
  BY <1>a, QuietOrChunkStep, <1>1, <1>2, <1>3, <1>4, <1>5, <1>6, <1>7, <1>8,
     <1>9, <1>10
  DEF ChunkStep, BatchStep

(* What a batch counts alone is never lost, and no chunk is counted that   *)
(* no commit counted.                                                      *)
LEMMA ChunksStep == IInv /\ [Next]_vars => ChunksKept'
<1> SUFFICES ASSUME IInv, [Next]_vars PROVE ChunksKept'
  OBVIOUS
<1> USE DEF rowVars, jobVars, history, chunkHistory, docHistory
<1>a. ChunksKept /\ TypeOK
  BY DEF IInv
<1>b. /\ batch \in [Batches -> BatchStates] /\ seen \in [Tasks -> Rows]
      /\ Batches \subseteq Tasks /\ Refresher \notin Batches
      /\ commits \in Nat /\ alone \in Nat
      /\ row \in Rows /\ row.chunks \in Nat
      /\ \A b \in Batches : seen[b].chunks \in Nat
  BY <1>a, TasksAssumption DEF TypeOK, Tasks, Rows
<1> USE DEF ChunksKept, Adding
<1>1. ASSUME NEW j \in Jobs, NEW p \in Parts[j], JobDispatches(j, p)
      PROVE ChunksKept'
  BY <1>1, <1>a, <1>b DEF JobDispatches, BatchGoes
<1>2. ASSUME NEW b \in Batches, BatchReads(b) PROVE ChunksKept'
  BY <1>2, <1>a, <1>b DEF BatchReads, BatchGoes, Open, BatchRetry
<1>3. ASSUME NEW b \in Batches, BatchUpserts(b) PROVE ChunksKept'
  BY <1>3, <1>a, <1>b DEF BatchUpserts, BatchGoes
<1>4. ASSUME NEW b \in Batches, BatchCommits(b) PROVE ChunksKept'
  <2>1. /\ row'.chunks = seen[b].chunks + 1
        /\ seen' = [seen EXCEPT ![b] = NewRow]
    BY <1>4, <1>a, BatchCommitsRow
  <2>2. /\ batch[b] = "commit" /\ batch' = [batch EXCEPT ![b] = "return"]
        /\ commits' = commits + 1
        /\ \/ alone' = alone
           \/ /\ alone' = alone + 1
              /\ \A c \in Batches \ {b} : batch[c] \notin Adding
    BY <1>4 DEF BatchCommits, BatchGoes, CountsBatch
  <2>3. alone' <= row'.chunks /\ row'.chunks <= commits'
    BY <2>1, <2>2, <1>a, <1>b
  <2>4. ASSUME NEW c \in Batches, batch'[c] \in Adding
        PROVE  alone' <= seen'[c].chunks /\ seen'[c].chunks <= commits'
    <3>1. c # b /\ batch[c] \in Adding
      BY <2>2, <2>4, <1>b
    <3>2. seen'[c] = seen[c] /\ alone' = alone
      BY <2>1, <2>2, <3>1, <1>b
    <3> QED
      BY <2>2, <3>1, <3>2, <1>a, <1>b
  <2> QED
    BY <2>3, <2>4
<1>5. ASSUME NEW b \in Batches, BatchAcked(b) PROVE ChunksKept'
  BY <1>5, <1>a, <1>b DEF BatchAcked, BatchGoes
<1>6. ASSUME NEW b \in Batches, BatchRaises(b) PROVE ChunksKept'
  BY <1>6, <1>a, <1>b
  DEF BatchRaises, BatchGoes, BatchRetry, Close, Fault, Repeats
<1>7. ASSUME NEW b \in Batches, BatchDies(b) PROVE ChunksKept'
  BY <1>7, <1>a, <1>b DEF BatchDies, BatchGoes, Close, Fault, Repeats
<1>8. ASSUME RefreshRecreates PROVE ChunksKept'
  BY <1>8, <1>a, <1>b DEF RefreshRecreates
<1>9. ASSUME RefreshCommits PROVE ChunksKept'
  <2>1. /\ row'.chunks \in {0, row.chunks} /\ alone' = 0 /\ commits' = commits /\ batch' = batch
        /\ \A b \in Batches : seen'[b] = seen[b]
    BY <1>9, <1>a, <1>b, RefreshCommitsRow DEF RefreshCommits
  <2> QED
    BY <2>1, <1>a, <1>b
<1>10. CASE Quiet
  BY <1>10, <1>a, <1>b DEF Quiet
<1> QED
  BY <1>a, QuietOrChunkStep, <1>1, <1>2, <1>3, <1>4, <1>5, <1>6, <1>7, <1>8,
     <1>9, <1>10
  DEF ChunkStep, BatchStep
-----------------------------------------------------------------------------
(* The inductive invariant holds in every reachable state. *)
LEMMA Invariance == Spec => []IInv
<1>1. IInv /\ [Next]_vars => IInv'
  BY TypeStep, FreshStep, StoredStep, AgainStep, ChunksStep, DocsStep,
     StatusStep
  DEF IInv
<1> QED
  BY InitIInv, <1>1, PTL DEF Spec

(* ingestion.py, embeddings.py: the types; in particular the runs of a job *)
(* are bounded by the faults, and no task is retried more often than its   *)
(* max_retries.                                                            *)
THEOREM TypeCorrect == Spec => []TypeOK
<1>1. IInv => TypeOK
  BY DEF IInv
<1> QED
  BY Invariance, <1>1, PTL

(* embeddings.py:67, 120-124: whatever overlaps, fails, is retried, also   *)
(* after its commit, or is delivered again, a chunk that is counted was    *)
(* stored and was not taken away but by a refresh; and the count exceeds   *)
(* the batches counted by no more than the times one was queued again      *)
(* after its commit.                                                       *)
THEOREM ChunksCountedAreStored == Spec => []CountedIsStored
<1>1. IInv => CountedIsStored
  <2> SUFFICES ASSUME IInv PROVE CountedIsStored
    OBVIOUS
  <2>1. counted \subseteq vectors \cup swept
    BY DEF IInv, StoredInv
  <2>2. /\ row.chunks <= commits
        /\ commits + Cardinality(Again) <= Cardinality(counted) + repeats
        /\ IsFiniteSet(counted) /\ Again \subseteq counted
    BY DEF IInv, ChunksKept, AgainInv, Again
  <2>3. /\ Cardinality(Again) \in Nat /\ Cardinality(counted) \in Nat
        /\ row.chunks \in Nat /\ commits \in Nat /\ repeats \in Nat
    BY <2>2, FS_Subset, FS_CardinalityType DEF IInv, TypeOK, Rows
  <2> QED
    BY <2>1, <2>2, <2>3 DEF CountedIsStored
<1> QED
  BY Invariance, <1>1, PTL

(* ingestion.py:94, embeddings.py:122: updates of the counts are lost when *)
(* sessions overlap, but never what a session counted alone, whatever      *)
(* overlaps, fails, is retried or is deleted later; and a count never      *)
(* shows more than was counted.                                            *)
THEOREM CountsAreKept == Spec => []CountsKept
<1>1. IInv => CountsKept
  BY DEF IInv, ChunksKept, DocsKept, CountsKept
<1> QED
  BY Invariance, <1>1, PTL

(* ingestion.py:55, embeddings.py:123, 158-171: who left a knowledge base  *)
(* at "indexing": a job of which no batch was embedded, or a refresh.      *)
THEOREM WhoLeftIndexing == Spec => []LeftIndexing
<1>1. IInv => LeftIndexing
  <2> SUFFICES ASSUME IInv, Settled, row.status = "indexing", refresh # "failed"
               PROVE  \E j \in Jobs : Fruitless(j)
    BY DEF LeftIndexing
  <2>1. PICK j \in Jobs : BlamedJob(j)
    BY DEF IInv, StatusInv, BlamedRefresh, Settled
  <2>2. counted \subseteq Batches
    BY DEF IInv, TypeOK
  <2>3. \A p \in Parts[j] : <<j, run[j], p>> \in Batches => <<j, run[j], p>> \notin counted
    BY <2>1 DEF BlamedJob
  <2>4. job[j] \in {"done", "gave_up"}
    BY <2>1 DEF BlamedJob, Settled
  <2> QED
    BY <2>2, <2>3, <2>4 DEF Fruitless
<1> QED
  BY Invariance, <1>1, PTL

(* A part is in the collection once for each of the runs of its job, and   *)
(* each of these but the first follows a failure or a death.               *)
CopiesFollowFaults ==
  \A b \in vectors : b[2] \in 1 .. run[b[1]] /\ run[b[1]] <= faults + 1

(* ingestion.py:84, 31-32: a run gives its chunks new ids, so a retry      *)
(* stores beside what an earlier run has stored.  The duplicates are       *)
(* bounded by what went wrong: a part is in the collection once for each   *)
(* run of its job at the most, and a job that nothing disturbs has one     *)
(* run, however often its batches are retried.                             *)
THEOREM CopiesFollowTheFaults == Spec => []CopiesFollowFaults
<1>1. IInv => CopiesFollowFaults
  <2> SUFFICES ASSUME IInv, NEW b \in vectors
               PROVE  b[2] \in 1 .. run[b[1]] /\ run[b[1]] <= faults + 1
    BY DEF CopiesFollowFaults
  <2>1. b \in Batches
    BY DEF IInv, TypeOK
  <2>2. b[1] \in Jobs /\ b[2] \in Runs
    BY <2>1 DEF Batches
  <2>3. ~ (b[2] > run[b[1]])
    BY <2>1, <2>2 DEF IInv, FreshInv, Unknown, StoredInv
  <2>4. run[b[1]] \in Nat /\ run[b[1]] <= faults + 1
    BY <2>2 DEF IInv, TypeOK, RunInv
  <2> QED
    BY <2>2, <2>3, <2>4, KnowledgeBaseAssumption DEF Runs
<1> QED
  BY Invariance, <1>1, PTL
=============================================================================
