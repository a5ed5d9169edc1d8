# NeuralCore in TLA+

TLA+ modules for the parts of NeuralCore whose correctness depends on the order
in which things happen: the workflow runner, the agent runtime, the agent
scheduler, the A2A message queue, the A2A transport with request and reply, the
A2A registry, the filling of a knowledge base, and the stored memory of an
agent. TLC checks them on small instances; TLAPS proves their safety
properties, and the refinement of the workflow runner, for every value of the
constants. Paths below are relative to `src/`; `PROJECT.json` maps every
definition to the lines it models.

## 1. The system

NeuralCore is a FastAPI backend (`backend/`), a Rust extension
(`rust_engine/`) and a front end. The backend is a set of asyncio processes and
Celery workers that share PostgreSQL and Redis; within one process coroutines
interleave at every `await`, and between processes everything in Redis and the
database is shared.

| Component | State it keeps | Operations | Interacts with |
|---|---|---|---|
| Workflows (`backend/workflows`) | steps of a template; per run the sets `completed_ids`, `failed_ids`, the step outputs | `add_step`, `build`, `run` in rounds, `execute_step` | agent steps call the agent runtime |
| Agent runtime (`backend/agents/runtime`) | one JSON document per agent in Redis; checkpoints; the in-process event queue; the agent's row | `initialize`, `start`, `pause`, `complete`, `fail`, `increment_step`, `record_tool_call`, `emit`, `run` | model gateway, tools, the database |
| Agent scheduler, manager (`scheduler.py`, `agent_manager.py`) | a heap of tasks, a semaphore, a table of running tasks | `submit`, `start`, `stop`, dispatch loop | creates the runs of the runtime |
| Agent communication (`backend/agents/communication`) | sorted-set inboxes in Redis | `send`, `receive`, `route`, `send_task` | agents |
| A2A queue (`backend/a2a/channels/queue.py`) | a sorted set, processing keys | `enqueue`, `dequeue`, `ack`, `nack`, consumers | callbacks of agents |
| A2A transport, broker, channels | inboxes, dead letters, subscriptions | `send`, `receive`, polling, publish/subscribe, `request_response` | registry |
| A2A registry and discovery | records and index sets with times to live | `register`, `heartbeat`, `deregister`, `find`, pruning | broker |
| Memory (`backend/memory`) | lists, sorted sets and documents in Redis, rows, vectors | store, recall, evict | agents |
| Ingestion tasks (`backend/task_queue/tasks`) | status and counters of a knowledge base | ingest, embed, refresh, clean up; Celery retries | database, vector stores |
| Rust engine (`rust_engine/src`) | LRU/LFU caches, an HNSW index | `get`, `insert`, `remove`, `clear`; `add`, `search`, `delete` | embedding tasks through the FFI |
| Quotas, billing (`backend/multitenancy`, `backend/billing`) | counters in Redis, subscriptions and invoices in the database | `check`, `consume`; renew, cancel, webhooks | API requests |
| API, auth, services | sessions, tokens, rows | request handlers | all of the above |
| The rest (loaders, chunking, retrieval, graphs, gateways, training, monitoring, ...) | none of its own, or one caller | sequential transformations and clients | - |

Where it is hard:

- *Interleaving.* Almost all shared state is read, changed in memory and
  written back with an `await` in between and without a lock: the agent's
  document, the session memory, registry records, `chunk_count`. Queues and
  inboxes are read and emptied by two separate commands.
- *Failure.* A run can be cancelled at any `await` (a workflow step's timeout,
  `AgentScheduler.stop`, the end of the process); Redis may raise anywhere.
- *Ordering.* Steps of a round finish in any order; retries overtake.
- *Limits and liveness.* Iteration caps, retry caps, the bounded event queue,
  the semaphore, the loop that must end although steps will never be ready.

The hazards, line by line, are in `PROJECT.json`, each with the properties that
watch it, or the reason none does yet.

What makes the components correct, in short: a step reads the complete outputs
of what it depends on and the verdict of a run is truthful (workflows); a run
is bounded, counted, can be paused and leaves a truthful status (runtime); a
message is neither lost nor given up early nor tried for ever (queue); a reply
that belongs to its request, no path that hands a message over twice, silence
after a close (transport); who is alive can be found,
who is gone cannot (registry); admission and priority (scheduler); a status and
counters that match what was stored (ingestion); rows and vectors that agree, a
bounded number of episodes (memory).

## 2. Modules

| Module | What it is |
|---|---|
| `DagExecution` | abstract: what running a dependency graph promises |
| `WorkflowRunner` | builder, runner, engine and executor; implements `DagExecution` |
| `WorkflowRunnerProofs` | theorems about it |
| `AgentRuntime` | run, lifecycle, state manager, event bus, checkpoint |
| `AgentRuntimeProofs` | theorems about it |
| `AgentScheduler` | admission, priority heap, dispatch loops, semaphore, stop |
| `AgentSchedulerProofs` | theorems about it |
| `A2AQueue` | the persistent queue, its consumers and their failures |
| `A2AQueueProofs` | theorems about it |
| `A2ATransport` | inboxes, publish/subscribe, pollers and listeners, direct channels, `request_response` |
| `A2ATransportProofs` | theorems about it |
| `A2ARegistry` | records and index with expiry, heartbeats, health check, lookups |
| `A2ARegistryProofs` | theorems about it |
| `KnowledgeBase` | a knowledge base's row and vectors under ingestion, embedding and refresh tasks |
| `KnowledgeBaseProofs` | theorems about it |
| `AgentMemory` | rows and vectors of an agent's memory under concurrent database sessions |
| `AgentMemoryProofs` | theorems about it |
| `MC*` and `*.cfg` | instances for TLC |

Operators whose comment begins "Faulty variant" are not part of the model: each
is a plausible slip in the definition that follows it, and is there to
demonstrate that a property notices it (`mutants` in `PROJECT.json`).

### WorkflowRunner

State: the builder's step list (`index` gives the position in
`template.steps`, `size` its length, `depends_on`), the local variables of
`WorkflowRunner.run` (`completed_ids`, `failed_ids`, `batch_results`), where
each step of the round is (`waiting` for the semaphore or `running`), and two
observations: `inputs[s]`, the outputs visible to `s` when it started, and
`status`. An output is opaque; a step is remembered by its outcome.

Actions: `AddStep` and `Build` (builder), `SelectRound` (`get_ready_steps` and
the creation of the round's tasks), `StartStep` and `SkipStep` (the semaphore
is entered; a condition that is false returns before the first `await`, so it
never occupies a slot across a step), `FinishStep` (the handler returns, raises
or times out), `MergeRound` (the loop after `gather`), `Finish`. A condition is
evaluated on outputs, so both results are possible for a step that has one.
Tasks enter an `asyncio.Semaphore` in the order in which `gather` created them.

`retry_count` of a step is stored by the builder and used by nobody; a template
that is not made by the builder is not validated. Neither is modelled: the
model's templates are those the builder accepts.

### AgentRuntime

A process is a run of the agent or a caller of `AgentLifecycleManager.pause`;
`pos[p]` says in which operation it is and which awaited step comes next. Every
change of the document is `Load` and `Save` with anything in between; without a
document an update does nothing more. Then come the database call (`UpdateDb`)
and the event (`Emit`, which waits while the bus is full). `Initialize`
replaces the document. `CanContinue` is the loop condition; `LlmError`,
`LlmToolCalls` and `LlmText` are what a request may come to; each tool call is
two events and an update; `SaveCheckpoint` stores the state object that
`initialize` returned. `Abort` is a cancellation or an exception at any await.
`Deliver` is the bus's own task, which takes an event from the queue.

Nothing in the program starts the bus that `get_event_bus` returns (only
`tests/test_agents.py:47` starts one of its own), so `Deliver` may happen or not and
nothing is assumed of it. A run waits once the queue is full, which `RunEnds`
says in so many words: a run ends, or is blocked by the full queue, and nothing
else keeps it from ending.

`docs/architecture.md:541` says a checkpoint "serializes the complete agent state ...
task progress". It does not: what `SaveCheckpoint` stores beside the messages so
far is the state object that `initialize` returned (`runtime.py:104`), so its step
is 0 whatever was done (`checkpoint` shows it). Nothing in the program loads a
checkpoint, so no property is stated of it.

Left out: the agents row (these classes write it in a transaction of the
caller that they do not commit), tool results and message texts, `expire` of
the document (each save renews it), `set_variable` and `delete` (no caller).
`pause` has no caller in the repository either, but is a public operation of
the class and the reason for `can_continue`; the HTTP endpoints that pause,
resume and stop an agent write the database only and do not meet the run.
A checkpoint is three commands of which the last two only maintain an index.

### AgentScheduler

One manager and one `run_agent` call per agent: `Refuse` and `Submit` follow
the count of the rows that say "running" (between the count and the push onto
the heap the coroutine does not wait for anything but the answer, on the
session that all of the manager's objects share). `Start` creates a loop task
and forgets the one before; a loop's turn is `Dispatch` (pop, create the task,
which joins the semaphore's queue) or `LoopEnds`; a turn with an empty heap
changes nothing. `stop` is one step if there is no loop left to wait for
(`StopAtOnce`) and otherwise two, with anything in between: `StopLoop` and
`StopTasks`. A cancelled task takes no further step, so `CancelTasks` ends it
at once; its agent's row stays as it is. `Enter` is the semaphore, which serves
tasks in the order they were created. Of a run there are the two changes of its
row (`RowChanges`), `Return` after them and `Raise` at any time. The heap
compares priorities only, so among equals any is first. What is left out:
`get_agent_state` and `send_message_to_agent`, which do not touch the scheduler,
and pausing, which is `AgentRuntime`'s.

`PriorityOrder` is what priorities really mean: a loop turn comes every 50 ms
whatever the semaphore's state, so a backlog sits in the semaphore's queue and
not in the heap, and an urgent task waits for all that came to that queue before
it. `docs/architecture.md` promises no more than "priority-based scheduling"
(and "fair-share scheduling across tenants", of which there is no code).

### A2AQueue

A member of the sorted set is a message with its `retry_count`, the only field
two copies of a message differ in; adding a member twice leaves one. A consumer
reads up to `concurrency` members (`Read`), removes them (`Remove`, whether or
not another consumer did), opens them one by one (`Open`, or `Discard` of an
expired one, or `OpenFails` when `setex` raises), and runs all their callbacks
together (`Gather`). A callback returns or raises; `Ack` may raise too, and is
inside the `try`, so the message goes back (`AckFails`); `Nack` puts back or
gives up; `NackFails` ends the consumer while its other tasks go on; `Stop` is
a cancellation, the end of the process, or an error in `dequeue`.
`ExpireQueue` and `ExpireProcessing` are Redis's. Scores are not modelled: with
the ten seconds `dequeue` looks ahead every member is due, and which of them
are read is left open, a superset of what the order by score allows.

### A2ATransport

A message to an agent is added to its inbox and published (`Add`, `Publish`):
two commands, so it comes by two paths, and a callback may see it twice. What
an agent has is two tasks per inbox. The poller is `PollRead`, `PollRemove` (the
second command; the expired go to the dead letters) and `PollAgain`; the
listener hears what is published while it is subscribed (`Listening`).
`HandOver` calls the callbacks subscribed at that moment, `EndCallback` is the
end of one, with a reply to a request or without, `Gathered` the end of the
last; a message nobody is subscribed for is gone. A channel opens, and closes
in the three steps of `stop` with an `await` between them (`Close`,
`StopPoller`, `DropSubscriptions`); a task that died earlier makes `stop` raise
and leave the rest. `request_response` reads the sender's inbox, removes what it
read, and drops everything that is not its reply (`RequestStep`).

Scores are left open (any members, in any order), time is nondeterministic
(`Expire`, deadlines, the expiry of an inbox). A command to Redis that is on its
way when its task is cancelled is carried out at once or not at all. Left out:
broadcast and fan-out, which are independent sends, and the cut of the dead
letters.

### A2ARegistry

One index stands for all of them: each works alike and on its own. Time comes
in ticks (`Tick`); agents that are not `slow` do their commands without time
passing, and sleep `Interval`. `Announce` to `ExpireIndex` is a registration,
`Wake`, `Get`, `Set` a heartbeat (which writes back the record it read, with a
new time), `Stop` to `StopDelete` the deregistration, `BeatFails` an exception
the loop survives, `Crash` and `Hang` what the code cannot prevent. The health
check lists all agents, looks at each (`CheckAgent`), then deregisters those it
had found stale, one after another; a lookup reads the index and then the
records.

Two facts of the code that the model makes visible. The time to live of a record
equals the health check's threshold, so the check finds a record stale only when
a `SET` came late. And heartbeats renew the record but not the index: 240
seconds after the last registration of a type, agents that are alive are no
longer found by it (although `docs/architecture.md`, line 575, promises to "find all agents
that can perform a specific task type"), which is why `FreshIsFindable` ends with `IndexTtl`.

### KnowledgeBase

`seen[t]` is the row as the session of task `t` read it; a commit (`Write`)
changes the columns whose value differs from that, and no others. A job
(`JobReads` to `JobAcked`) marks the row, loads, counts documents and dispatches
its batches; a batch (`BatchReads` to `BatchAcked`) stores its vectors and then
adds to the chunk count it read; a refresh drops and recreates the collection.
Every task may raise, die before it was acknowledged and be delivered again
(`acks_late`), or be killed at its time limit. It may raise before its commit or
*after the commit was applied* (the answer of the database is lost, the session's
close raises, the soft time limit strikes): `BatchRaises`, `MarkRaises`,
`RefreshRaises`. Whatever is raised is tried again (`Retry`), so a batch that was
counted may be counted once more. A chunk gets a new id in every run of its job,
so a batch is known by job, run and part. Queueing a retry and acknowledging the
task that raised are one step: a worker that dies in between is not modelled.

The counts are therefore not exact, and the properties say how far off they may
be. `CountedIsStored`: whatever is counted was stored, and the count exceeds the
chunks counted by no more than the times a task was queued again after its commit
(`repeats`). `CountsKept`: a session that writes back a count it read loses what
was counted in between, but what a session counted alone (`alone`, `aloneLoads`) is
kept, and no count shows more than all commits together added (`commits`, `loads`).
Nor is ingestion idempotent, as `docs/ingestion.md:41` has it: chunks get fresh ids,
nothing an earlier ingestion stored is removed, and the counts are added to
(`knowledge_base_reingest`).

What the model shows and no property forbids: a source without documents leaves
the knowledge base at "indexing"; when marking the error raises, the retry after
it is never reached; a deletion of the row leaves the vectors. `LeftIndexing`
names the first, and the failed refresh, as the only ways to be left at
"indexing". Two more, outside it: the embedding cache is asked with one argument
too few, so a batch always embeds, and nothing in the program queues a refresh
(it is a registered task and can be sent by name).

### AgentMemory

Requests in sessions of their own: `RecordEpisode` counts, `SelectVictims` and
`Evict` make room, `Commit` adds; `StoreLongTerm` flushes its row, embeds, and
commits at the end of the request, `MemoryWrite` commits first and embeds
afterwards without a session; a store in `Plain` asks for no vector
(`also_embed=False`) and skips the embedding. `DeleteAgentMemory` deletes the rows,
the episodes and the collection. A row is seen by others once it is committed, and
a DELETE waits for rows another open session has deleted (`gone`). `RollBack` is
any exception that nothing catches, `CommitRaises` one that comes after the commit
was applied. Which episodes are least important is left open.

`SemanticMemory.store` asks whether there is a collection and then creates it
(`LookUpCollection`, `CreateCollection`), so a second store may create it as well.
What that does depends on the vector store, so it is a constant: it may always
raise (`EmbeddingRaises`), and `SecondCreate` says whether it may also keep the
collection ("keeps", `pgvector.py:68`) or put an empty one in its place ("empties",
`faiss.py:97-107`). In the last case a vector may vanish although nothing failed and
nothing was deleted; `Mirrored` excuses exactly the stores that were embedded while
another was about to do that. An upsert into a collection that is gone may raise
or make it, as Elasticsearch does.

`EpisodesBounded` holds for any pool and any size of an eviction. `peak` is the most
recordings that overlapped so far, `lapsed` the number of evictions that found none
of the rows they had chosen. As long as `peak` is no more than an eviction takes
rows (`Evicted`, 10), the episodes stay below the limit plus `peak`. The pool allows
30 sessions by default; once more than 10 recordings overlapped, every eviction that
came too late may let the memory grow by one, for good, and the bound says so.

`vectors` are the ids recorded in the collection that all requests share. That
leaves out two things of FAISS: each process answers from the copy it once loaded
(`faiss.py:42-44`), so several workers undo each other's changes, and an index that
has to be trained is not, by upserts of one vector.

## 3. Runs

| Run | Bounds | States | Shows |
|---|---|---|---|
| `workflow_runs` | 4 steps, one with a condition, 2 in parallel | 93,429 | `TypeOK`, `InputsComplete`, `RoundIsIsolated`, `VerdictSound`, `RunEnds`, and `ImplementsDag` (refinement) |
| `agent_runs` | 1 run, 2 pausers, 3 iterations, 2 errors in a row, 2 tool calls, bus of 1 | 377,149 | `TypeOK`, `IterationBudget`, `StepsCounted`, `PauseHonoured`, `NoGhostRun`, `RunEnds` |
| `agent_two_runs` | 2 runs, no pauser, 2 iterations | violation | `IterationBudget` fails |
| `agent_scheduler` | 2 runs of different priority, 3 starts, 2 stops, 1 agent admitted, 1 task at a time | 263,665 | `TypeOK`, `OnePlace`, `StopIsFinal`, `PriorityOrder`, `Served` |
| `agent_scheduler_limit` | 2 runs, limit 1, 2 tasks at a time | violation | `ConcurrencyLimit` fails |
| `a2a_queue` | 1 message, 2 consumers, 2 retries, 2 at a time | 90,533 | `TypeOK`, `NothingLost`, `NotGivenUpEarly`, `AttemptBound`, `Settles` |
| `a2a_queue_crash` | 1 message, 1 consumer | violation | `Persistent` fails |
| `a2a_transport` | 2 agents that ask each other, 3 callbacks, 3 events, poll 2, reply poll 1 | 413,657 | `TypeOK`, `OncePerPath`, `ClosedIsSilent`, `NothingLost`, `AnswerWasEarned`, `TimeoutIsHonest` |
| `a2a_registry` | 2 agents, 1 lookup, 5 events, times 1, 2, 3 | 1,689,233 | `TypeOK`, `TimelyIsKnown`, `FreshIsFindable`, `StoppedIsGone`, `DeadIsForgotten` |
| `knowledge_base` | 2 jobs (one batch, empty source), a refresh, 1 retry each, 1 failure or death | 1,994,409 | `TypeOK`, `CountedIsStored`, `CountsKept`, `LeftIndexing` |
| `knowledge_base_reingest` | 2 jobs of one source, no failure | violation | `Replaced` fails |
| `agent_memory` | 3 episodes, 3 stores (one plain), a deletion, 2 sessions, 1 entry, 1 evicted, 1 request that fails | 765,957 | `TypeOK`, `EpisodesBounded`, `Mirrored` |

Why these bounds are enough to be interesting. Four steps contain every shape a
small graph can have (chain, fork, join, diamond, two components), with more
ready steps than slots. Three iterations leave room for a pause before, between
and after increments, and two pausers for a pause that overwrites a pause; a
bus of one place makes every announcement block. Two runs and one slot are
enough for one to overtake, to be overtaken or to be refused; three starts and
two stops give loops that were replaced, loops that outlive a stop because of a
start right after it, and two stops that wait at once. One message with two consumers
gives up to several copies of it with different retry counts, in the queue and
in both consumers' batches; other messages only take places in a batch, and
the theorems cover any number of them. `attempts` is counted up to
`AttemptsCap` (`max_retries + 2`), one more than any property needs;
`MaxToolCalls` bounds the tool calls of one response.

Two agents that ask each other give requests and replies that cross in one
inbox, and an inbox with two readers; the two channels of one agent are needed
for one to close while the other opens, and three events for a request, a
channel and a fault. Times of 1, 2 and 3 ticks keep the order of the three
constants, with one heartbeat that may be missed; five events are two
registrations, a fault, a check and a lookup. One batch and one run that is
retried already overlap: the retried run's batch meets the first one's, which
may be delivered again; the second job, of an empty source, is the one that
leaves "indexing", and overlaps with the first on the other column. Two
sessions let two stores create the collection at once, and two recordings choose
the same row: with one row to an eviction, three episodes then go through both
cases of `EpisodesBounded` (no overlap, and more overlap than an eviction takes
rows) and reach two, one past the limit. That the term `lapsed` is needed takes a
fourth episode; with it and without the stores TLC finds three episodes after one
eviction that came too late, and the bound is proved for all. `MaxFailed` caps the
requests that fail as a whole; an embedding and the removal of a collection may
fail any number of times. `MaxEvents`, `MaxFailed` and `MaxFaults` cap what the
environment does, not what the code does; the theorems hold for every value of
them.

`CHECK_DEADLOCK FALSE` in every run but `a2a_registry` (there time goes on):
runs end, consumers stop, and nobody must start another.

Violations are disagreements between a document and the code, found while
modelling; `findings` quotes the document:

- `agent_two_runs`: "atomic state transitions with optimistic locking"; there is
  no lock, and two runs of an agent (two agent steps in one round of a
  workflow, or two calls of `run_agent`) overwrite each other's step count.
- `agent_scheduler_limit`: "Enforces concurrency limits per tenant"; the limit is
  compared with the agents that run when a run is submitted, not when it begins
  (and with those of one project, and never with those of other managers).
- `a2a_queue_crash`: "persistence and acknowledgment semantics"; a message is
  removed before it is recorded as being processed.
- `knowledge_base_reingest`: "Re-ingesting the same document is safe; it replaces
  the previous version"; the text is in the collection twice, and counted twice.

### Fairness

`WorkflowRunner`: weak fairness of the runner's coroutine and of each step
(the event loop resumes what is ready; `wait_for` ends every handler); nobody
has to finish building. `AgentRuntime`: weak fairness of each run's and each
pauser's next await, and nothing of `Deliver`; requests and tools are assumed to
return or raise, nothing has to be cancelled or paused. `AgentScheduler`: weak
fairness of each loop, of the semaphore, of each run (it ends, as `RunEnds` of
`AgentRuntime` has it unless its bus's queue is full for good) and of a stop that
waits; nobody has to call anything. `Served`
is about finitely many submissions: an endless stream of urgent ones, faster
than the loop's turns, would keep another in the heap. `A2AQueue`: weak fairness of
each consumer with its tasks and of the producer's second command; callbacks
are assumed to end (the code sets no time limit), and nothing has to be
enqueued, started, stopped, to fail or to expire. No strong fairness is used.

The other four modules state safety only and assume no fairness: their tasks may
stop anywhere, which is what the properties have to survive.

## 4. Proofs

Theorems are of the form `Spec => []P`, `Spec => [][A]_vars` or `Spec => Dag!Spec`,
from the named assumptions on the constants only. Three are weaker and say so:
`CountIsRight` is for a single run of the agent, `IterationCap` and
`CountIsNeverShort` for behaviours in which no two runs overlap
(`Spec /\ []OneAtATime`).

**WorkflowRunnerProofs** (`RunnerAssumption`: finitely many steps, a positive
limit). `IInv` = `TypeOK`, `GraphInv` (the template is closed under
dependencies and acyclic once built), `PartitionInv` (waiting, running,
finished and decided steps are disjoint), `DepsInv` (all steps of a round have
their dependencies in `completed_ids`), `InputsInv` (what a step of the round
read is `decided`, which a round does not change) and `StatusInv`. `DepsInv` is
what makes it inductive: `InputsComplete` alone says nothing of a step that is
still waiting. `VerdictIsSound` needs no induction on the graph: the steps left
out that are not below a failure would form a set in which each depends on
another, a cycle. `Refinement` maps each action to a step of `DagExecution` or
to a stutter; that a verdict comes only when nothing can start is `StatusInv`.

What the abstract execution promises is proved of it and carried over by the
refinement: `DependenciesComeFirst`, `VerdictsMean`, `StepsGoForward`. Their
invariant is `DagInv`; the hard part is that a run which reports "failed" has a
step that failed, and no set of steps that only wait for each other.
`AcyclicByConstruction` is from `PositionInv` (positions in the template are
distinct, and dependencies come earlier): a set in which every step depends on
another has a first step, which depends on nothing in it. So the cycle test of
`build()` never fires for what `add_step` let through.
`RoundsGoOn` and `RunsComeToAnEnd` are what `RunEnds` needs besides fairness:
in a round there is always a step to take (the first of those that wait, one
that runs, or the merge), and each action lessens `Work`, so that a run of *n*
steps is over after at most 4*n* + 1 of them.

**AgentRuntimeProofs** (`RuntimeAssumption`: among others, finitely many runs).
For any number of runs, at the same time or not, and of pausers:
`TypeCorrect`; `NothingLeftRunning`, from the fact that whoever writes
"running" is a run that still has to write a final status; `PauseIsHonoured`;
and `RunsLeadOn`. `PauseInv` counts requests and the runs that are bound
for one because they have passed the loop condition: once the document says
"paused" nobody joins them, and each leaves with one request. `Rank` is a
measure of the way through one iteration; every step of a run lessens it, begins
the next iteration, or ends the run. A run that is alone has `max_iterations` of
these (`IterationCap`), so at most (`max_iterations` + 1) * (4 * tool calls + 21)
steps. When runs overlap the number of iterations is not bounded: one of two
may for ever write back a step count it read before the other's increments
(`record_tool_call`).

`IterationCap` and `CountIsNeverShort` are for runs that do not overlap, any
number of them, with the pausers of one run still at work in the next. Their
invariant `InTurn` says that a live document, and a live copy the run is about to
save, counts at least the requests of the run that is at work. It holds because a
pauser's old copy, when saved, makes the status "paused", which only a run could
undo, and only with a copy it loaded before the pause. The count may be too high
(a pauser of an earlier run puts back the count of that run, and `start` makes
it live again), so that `CountIsRight`, equality, is for a single run. With two
runs that overlap the cap fails (`agent_two_runs`).

**AgentSchedulerProofs** (`SchedulerAssumption`). For any agents, priorities,
limits and calls of `start` and `stop`: `IInv` = `TypeOK`, `OnePlace`, `RestInv`
(a scheduler that is not running is at rest or some `stop` is still going to
cancel its tasks) and `OrderInv`. `PriorityOrder` is about a step; what makes it
inductive is `OrderInv`, the same statement for every pair in the semaphore's
queue and for the heap behind it: when the minimum of the heap joins the queue,
whoever in the queue has lower priority was there when it was submitted.
`Strong` adds `RowInv` (whose row was changed has begun) and `LoopInv` (while the
scheduler is running, the loop it knows is alive; a `stop` waits only for a loop
that was cancelled). From it come `RunsBeginOnce`, a property of every step;
`RowsTellWhoRuns`, which says what the rows do tell about the limit, where the
documented one fails (`agent_scheduler_limit`); and `NobodyIsStranded`, what
`Served` needs besides fairness.

**A2AQueueProofs** (`QueueAssumption`). For any messages and consumers: `IInv` =
`TypeOK`, `StageInv` (a task about to put its member back may retry it, one
about to acknowledge has been handled), `LossInv` (`NothingLost`, copy by copy)
and `TriedInv` (no member's `retry_count` is ahead of the callbacks on its
message). `OneConsumerBound` adds, as long as a single consumer was ever
started, that a message has at most one member in one place and its
`retry_count` is the number of callbacks (`SingleInv`); `OneConsumerOneCopy` is the
first half of that.

**A2ATransportProofs** (`TransportAssumption`). For any agents, requests,
callbacks and read limits: `IInv` = `TypeOK`, `MessageInv` (whatever somebody
holds was sent to him), `CallbackInv` (a callback that runs is of that agent and
was given that message), `ReplyInv` (a reply exists only after its callback was
given the request, and is not sent twice by it), `OnceInv` (a message a path has
handed over is nowhere left on that path), `ChannelInv` (a subscription, a
listener and a poller each have a channel of the agent in a state that will
still end them), `NothingLost` and `WaitInv` (`TimeoutIsHonest` for every
request that has no answer yet). `OnceInv` is the heart: what the poller holds
it has not removed yet, or is no longer in the inbox, and a member is put in an
inbox once. From the same facts, with an invariant of its own (`LetterInv`):
no callback is called with another agent's message (`OnlyTheAddresseeIsCalled`),
and a dead letter has left its inbox for good (`TheDeadLettersAreDead`); where a
request reads the same inbox as the poller, both may have read a message before
one of them buries it, and the poller may hand it over.

**A2ARegistryProofs** (`RegistryAssumption`: heartbeats come more often than
records expire, and records expire before the index). `IInv` = `TypeOK`,
`CheckInv`, `AliveInv` (`RecordInv` and `IndexInv`, agent by agent: what a
command has written, and how much of its time is used up), `EndInv` (a stopped
agent has no record, a dead one none beyond its time) and `LookupInv` (who had
stopped when a lookup began is not found). `TimelyIsKnown` and `FreshIsFindable`
speak of agents between heartbeats; the invariant has to follow them from the
first command of their registration.

**KnowledgeBaseProofs** (`KnowledgeBaseAssumption`, `TasksAssumption`). For any
jobs, batches, retries and faults: `IInv` = `TypeOK`, `RunInv` (the runs of a
job are bounded by its failures), `FreshInv` (a batch is dispatched once),
`StoredInv` (a batch about to be counted has been stored), `AgainInv` (the batches
that may be counted a second time were each queued again after their commit),
`ChunksKept` and `DocsKept` (what an open session read is no less than what was
counted alone and no more than what was counted) and `StatusInv` (who is to blame
for "indexing"). `CountsKept` is a statement about the row; what makes it inductive
is the same statement about what each open session will write back.
`CopiesFollowTheFaults` bounds the duplicates that retried jobs leave in the
collection.

**AgentMemoryProofs** (`AgentMemoryAssumption`). For any requests, limits, sessions
and behaviour of a second create: `IInv` = `TypeOK`, `PlaceInv`, `StoreInv` (what is
in the rows and in the vectors at each stage of a store, also in the middle of a
deletion), `RiskInv` (while a store may put an empty collection in place of another,
every vector there is belongs to an excused store) and `CountInv`.
`EpisodesBounded` has two cases. While `peak <= Evicted` it is from `RoomInv`:
`After(Q)`, what the episodes would be if exactly the adders of `Q` committed, is in
bounds for *every* set `Q` of those that add. A single adder cannot be counted on
to make room, because another may delete the rows it chose, or it may roll back;
every set of them can, as long as one eviction takes as many rows as recordings
overlap. Otherwise it is from `AccountInv`: the episodes and the recordings about to
commit one without having deleted a row (`Unmatched`) are together accounted for by
the limit, the overlap and the evictions that came too late.

Only model-checked: `RunEnds` (both), `Served`, `Settles` and the violations;
liveness under fairness is out of the prover's reach. Of the first three a safety
half is proved: a measure that every step lessens, or that somebody can always
go on. `Settles` has none: with several consumers a member multiplies, and the
model counts attempts up to a cap only. Every other property of a passing run is
proved.

## 5. Plan and what is left

Done, in this order: workflows, runtime, scheduler, queue, transport, registry,
knowledge base, memory; a theorem for every safety property the runs check;
then theorems beyond the runs: the abstract execution's promises, measures that
bound runs, runs that follow each other, several runs under a pause, and what
stays true of duplicates and dead letters whatever overlaps.

Left, and worth doing next: the index of the registry that expires under agents
that are alive, as a disagreement with its documentation; the workflow
executor's handlers of agent and tool steps, composed with `AgentRuntime`; the
cleanup tasks beside the request handlers whose rows they delete.

Not modelled, and why:

- *Rust vector index.* No part of the backend calls its functions: it serves the
  command line and benchmarks, one call at a time under a lock. What is left is a
  sequential approximation, and no invariant states its quality.
- *Rust caches.* Their steps on the map, the order and the size are separate, but
  the program reaches them only through functions that hold the interpreter lock.
- *Quotas, session memory.* A counter that is checked and then incremented, and
  a document that is read and written back: the first has no caller, of the
  second no document promises more.
- *Agent communication (`agents/communication`).* A second copy of the inboxes and
  the request/reply loop of A2A, on the same commands.
- Clients of external services, text and number crunching, request handlers
  without state of their own, cryptography, training, the front end.

`PROJECT.json` lists each with its reason.
