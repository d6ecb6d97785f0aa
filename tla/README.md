# A verification development for flycanon

flycanon is a repository of operational knowledge behind an HTTP service: documents
are ingested, chunked, embedded and indexed; knowledge items with a version chain are
written by people or proposed by a language model and accepted by people; questions
are answered from what is stored. The service is asynchronous Python (asyncio) over
PostgreSQL, an event bus and an object store, and runs as any number of replicas. Its
correctness rests on what happens between two `await`s: each repository call is a
transaction of its own, no service holds a lock across two of them, and everything
else is done with guarded UPDATEs, UNIQUE constraints and conventions about order.

This directory models those protocols in TLA+, checks them with TLC on small instances
and proves the most important properties with TLAPS for all instances. Paths below are
relative to `src/src/flycanon/` unless they begin with `docs/`.

## 1. Inventory

| Component | State | Operations | What is hard | What makes it correct |
|---|---|---|---|---|
| Asynchronous ingest jobs (`core/services/sources/async_ingest_service.py`, `models/repositories/ingest_job_repository.py`) | `canon_ingest_jobs`, `canon_ingest_job_events`, requests on the bus | `submit_async`, `process`, `mark_running/succeeded/failed`, `reclaim_stuck`, `sweep_stuck_jobs` | at-least-once fan-out delivery, leases that run out under a live handler, crashes, a sweep that selects and then updates | one outcome per claim, by the last claimant only; announcements agree with what was settled; bounded retries; every accepted job ends |
| Ingest worker pool (`core/services/workers/ingest_worker.py`) | semaphore, in-flight tasks, stop flag | dispatch, guarded handler, drain | cancellation anywhere in a handler; the timeout; unbounded waiting tasks | a cancelled handler leaves a job that recovers; the drain ends |
| Canonical knowledge (`core/services/knowledge/knowledge_service.py`, `models/repositories/knowledge_repository.py`) | `canon_knowledge_items`, `canon_knowledge_versions` | create, update, supersede, retire | several writers, column-wise merges of stale rows, deaths between version and item | one writer per version number, no gaps, one live version, item and version agree, retired is final |
| Candidates (`core/services/consolidation/candidate_service.py`, `models/repositories/candidate_repository.py`) | `canon_candidates` | propose, accept, reject | two reviewers at once; the decision commits before the knowledge write | at most one version per candidate; an accepted one has a version |
| Source intake (`core/services/sources/intake_service.py` and the source and chunk repositories) | `canon_sources`, originals in the object store, `canon_chunks` | submit, replace, remove | four stores without a common transaction; parallel submits of the same bytes | same bytes, same source; ingested means searchable; removed leaves nothing |
| Retrieval index (`core/services/retrieval/index_service.py`, `pgvector_store.py`) | `canon_chunk_vectors` | replace / remove for a source, search, drop a set | vectors are reachable only through chunk rows | every chunk has its vector, no vector without a chunk |
| Embedding sets and reindexing (`core/services/embeddings/embedding_sets.py`, `reindex_service.py`) | `canon_embedding_sets`, the workspace's pointer, the run's cursor | ensure, create, activate, rollback, drop, run, resume, catch up | a walk over a table that is being written; a switch of three transactions | the set that serves is complete, is never dropped, and is the one marked active |
| Job progress stream (`web/controllers/jobs_controller.py`) | a cursor per client | poll events, poll status, disconnect, reopen | two reads that are not one snapshot; event ids are drawn before the commit | nothing behind the cursor is missing; a client that reopens has everything |
| Idempotency (`web/conventions/idempotency.py`, `redis_idempotency.py`) | recorded responses, capped and timed | lookup, record | two requests with one key; eviction; restarts | a retry within the time to live of a record runs nothing again |
| Rate limiting and agent tokens (`core/services/auth/`) | a bucket per token, in the process or in Redis | verify, consume, revoke | members that coincide; a bucket dropped while it is used | no more than the limit in a window |
| Conversations (`core/services/conversations/conversation_service.py`) | turns with a UNIQUE index | append a turn | three attempts; the history is read before the model answers | turns are numbered without gaps; an answer is rarely thrown away |
| Conflict detection (`core/services/quality/conflict_detector.py`) | candidates, relations | detect | find-then-insert without a constraint; a foreign key | a confirmed conflict is in the inbox |
| Staleness detection (`core/services/quality/stale_detector.py`) | none in effect | score | it would cache its score in an item it read earlier | it samples chunks that have an embedding, and none has: the line is not reached (section 8) |
| Workspaces and purge (`web/controllers/workspaces_controller.py`, `core/services/workspaces/purge_service.py`) | every table of a workspace | create, update, close, purge | purges, ingests and crashes at once; several stores | what was there and could be found is gone; a purge reports its own work |
| Retrieval and rank fusion (`core/services/retrieval/retrieval_service.py`, `fusion.py`, `reranker.py`) | none | search | a search is a dozen reads of a corpus that changes | what it returns was there and fitted; better chunks stay ahead |
| RLM answers (`core/services/query/rlm/session.py`, `client.py`) | a transcript, a budget | run, nested run, forced answer | sandboxed code that hangs, dies, or calls on and on | a well-formed transcript; an end |
| RLM sandbox (`core/services/query/rlm/sandbox/`) | a child process, a pipe | open, exec, serve, close | late frames, frames of other blocks, deadlines | no child outlives its session |
| RLM page cache (`core/services/query/rlm/page_cache.py`) | a bounded map with time to live | get, put, evict | shared by concurrent sessions | bounded; keyed by content |
| Chunking (`core/services/ingestion/chunker.py`) | none | chunk, pack, split | an overlap at or above the budget; sizes that meet it | chunks cover the text in order; an end |
| Reads, adapters, language model calls, web layer, wiring, SDKs, migrations | none that other components see | | | not modelled, see section 8 |

How they interact. The web layer calls the services. `submit_async` writes the job row
and publishes `IngestSourceRequested`; the bus hands it to a slot of the worker pool,
which runs `process`, which calls the source intake and settles the row; the scheduler
calls the sweep every minute; the progress stream polls what `process` appends. The
intake writes sources, chunks and, through the index, vectors under the workspace's
active embedding set. The consolidator proposes candidates; accepting one calls
create or update of the knowledge service. All shared state is in the database; the
only shared state within a process is the worker's semaphore, the in-process limiter and
idempotency store, and the caches. An operator's `flycanon reindex` fills another embedding
set while ingests write to the active one; a purge calls the intake's `remove` for each
source; a search reads what all of these write.

## 2. Modules

| Module | Models | Uses |
|---|---|---|
| `ClaimLedger` | abstract: what leases promise | |
| `IngestJobs` | asynchronous ingest, worker slots, bus, sweep | `ClaimLedger` |
| `IngestJobsProofs` | theorems about `IngestJobs` | |
| `VersionLog` | abstract: a single-writer log per knowledge item | |
| `Knowledge` | knowledge items, versions, candidate decisions | `VersionLog` |
| `KnowledgeProofs` | theorems about `Knowledge` | |
| `SourceIntake` | submit, replace and remove over four stores | |
| `SourceIntakeProofs` | theorems about `SourceIntake` | |
| `EmbeddingSets` | embedding sets, reindexing, activate, rollback, drop | |
| `EmbeddingSetsProofs` | theorems about `EmbeddingSets` | |
| `JobProgress` | the worker pool, the rows its handlers write, the stream a client polls | |
| `JobProgressProofs` | theorems about `JobProgress` | |
| `RlmSession` | an answer of the recursive engine and its sandboxes | |
| `AgentRequests` | tokens, rate limiting and idempotency in front of a command | |
| `AgentRequestsProofs` | theorems about `AgentRequests` | |
| `Workspaces` | the row of a workspace, its purges, and the submits and replaces they meet | |
| `Retrieval` | one search, with rank fusion | |
| `Conversations` | posts to one conversation | |
| `QueryProofs` | theorems about `RlmSession`, `Conversations` and `Retrieval` | |
| `ConflictScan` | conflict detection | |
| `Chunking` | the chunking of a document | |
| `ServicesProofs` | theorems about `Workspaces`, `Chunking` and `MCServices` | `AgentRequestsProofs`, `QueryProofs` |
| `MCIngestJobs`, `MCKnowledge`, `MCSourceIntake`, `MCEmbeddingSets`, `MCJobProgress`, `MCConflictScan`, `MCChunking` | instances for TLC | one each |
| `MCServices` | one instance of each of the six services that share nothing | `RlmSession`, `AgentRequests`, `Workspaces`, `Retrieval`, `Conversations`, `Chunking` |
| `MCLiveness` | the instances in which something has to happen in the end | `IngestJobs`, `Knowledge` |

In all of them an action is what the code does between two `await`s on the database,
the bus, the object store or the pipeline. A definition named `...Mutant...` is the
following definition with a plausible bug; no action uses one: each shows that the
property it is paired with in `PROJECT.json` depends on that piece of the code.

### IngestJobs

`status`, `attempts`, `errorCode` are the columns of `canon_ingest_jobs`;
`expired[j]` stands for the clock: `started_at` is older than the lease. `trail[j]` is the
set of stages in `canon_ingest_job_events`. `requested` is what the bus still owes, and
each worker slot has a place in `process` (`pc`), its job, its `lease_attempts` and the
outcome it has settled. `ledger`, `announced`, `runs` and `owner` are history variables.

`SubmitRow` ... `SubmitPublish` are `submit_async`; `Deliver` to `FireWebhook` are the
dispatcher and `process`, in the order of the code. `Claim` is the UPDATE of
`mark_running`; it also chooses the poison-job path, because the guard is evaluated on
the returned row without another `await`. `MarkSucceeded`, `MarkFailed` and `GiveUp`
share `HoldsLease`, the WHERE clause with `expected_attempts`; if it matches no row
the handler bows out. `StepRaises` is the `except Exception` branch, which also runs
when it is the audit row of a committed success that cannot be written. `HandlerDies`
is a crash, the handler timeout and the drain: `CancelledError` passes the branch.
The sweep is `SweepSelect` and `SweepUpdate` (two statements of one transaction at read
committed) and one `SweepRepublish` per row after the commit.

`ClaimLedger` says the same without workers or a sweep: fresh claim numbers, at most one
outcome per number, settled only while the claim is open, each channel used at most
once. `LedgerSpec` is `IngestJobs` with `token <- attempts` and `open` the running rows.

### Knowledge

`item`, `version` and `candidate` are the three tables; `version` is a function on
`<<item, number>>` because of the UNIQUE constraint. Each call has a place (`pc`), its
request, `mine` (the row `get_item` returned) and `seen` (the row the SELECT of
`session.merge` returned). `upsert_item` is two steps, `MergeRead` and `MergeWrite`:
the flush writes the columns that differ from `seen`, so columns somebody else has changed
in the meantime may survive or be put back. `upsert_version_status` is also a merge,
but only the status can differ and nobody else writes it to anything but `superseded`,
so it is one step (`Demote`). `accept` claims the decision (`Decide`), runs the steps of
create or update, and then `Finalise`. A request that is refused on its first read
changes nothing and is left out, except in `accept`, where the candidate has been
used up by then (`AcceptReads`). `CallDies` ends a call anywhere.

`VersionLog` is the log the versions implement: `pointer` is `current_version`, `log`
the stored numbers; an append is possible only when the log and the pointer agree.

### SourceIntake

`row`, `object`, `chunks` and `vectors` are the four stores. The chunks one request
emits are one element (an *emission*: source, content, number of the request): the code
inserts, indexes and deletes them together, and their ids are fresh uuid4s, which is
what the number stands for. `Submit` to `Answer` follow `IntakeService.submit` (the
pre-check by SHA-256, the original, the INSERT, the second lookup after an
`IntegrityError`, the chunks, the index) and `replace`; `Remove` to `DeleteRow` follow
`remove`: `DeleteRead` and `DeleteRow` are the SELECT of `session.merge` and the DELETE of the repository's `delete`,
between which another call may delete or merge the row. `Clear`/`Fill` are the DELETE and the commit of one transaction: at read
committed the DELETE sees what is committed by then. `entangled` marks the sources
that were replaced or removed twice at once, about which less is promised. The key of an original ends in the
extension of the file name; a replacement is taken to keep it (section 5 has what follows when it does not).

### EmbeddingSets

`sets` is `canon_embedding_sets`, `pointer` the workspace's `active_embedding_set_id`,
`vectors` the pairs of a set and a chunk, `stamp` the model column of a chunk. `Bind` to
`DeleteChunk` are what an ingest or a removal does to them, with `Mint` and `PointAtMinted`
for the first set of a workspace. `CreateSet` to `MarkReady` are `reindex_service.run`: it
walks the chunks by id in batches behind a cursor, may be throttled or killed, is resumed
from its row, and ends in a catch-up over chunks whose stamp is not its model. `Activate`
and `Rollback` share the three transactions of a switch, `DropSet` has two. `due`, `left`,
`condemned`, `reopened`, `into` and `raced` are history: what a set must hold, when it left
service, and which of the overlaps that the code does not guard against have taken place:
`raced` once two operations that act on the pointer, or on a set it may name, were in flight
at once (`Movers`), `reopened` for a set whose run was resumed and that no activation has
settled since.

### JobProgress

One process and one job: `task` has a place for each delivery, `pool` says whether the worker
runs, stops or has stopped, `Acquire` waits for the semaphore. A handler is its claim, two progress events and its
guarded settlement; `IngestJobs` has the rest of it. `Flush` draws an event's id and `Commit`
makes it visible, because `list_events` filters by id and the two can come in another
order. `HandlerTimesOut` is `asyncio.wait_for`; `Stop`, `Drained` and `DrainTimesOut` are
`stop`. The client is `ListEvents`, `SendEvent`, `ReadStatus` and its own `Disconnect` and
`Open` with the cursor it has. `ReopenCompletes` is about a client that was told the end and
opens the stream again: with that stream's first listing it has everything that was there
when the end was first told. `list_events` reads at most 200 events at a time; a job here has
fewer, so the limit is left out.

### RlmSession

A session per depth, `0` the root. The parent is synchronous, so the deepest session is the
one that runs. `CallModel` chooses any number of code blocks or a final answer; `Exec`,
`Frame` and the serving actions are the parent's loop over the pipe; `ChildAsks`,
`ChildFinishes` and `ChildExits` let the code in the sandbox send any sequence of frames,
hang or die. `Rlm` starts a session one level down or, where `Flat` says so, becomes a plain
call.

### AgentRequests

A request arrives at one host, is charged by its limiter, looks up its key (`Lookup`), runs
and records. `backend` says whether the limiter and the store are in the process or in Redis.
`TryTake` is the deque of a host (`bucket`): the timestamps at its head that are older than the
window are popped (`Popped`), and the call is admitted if fewer than the limit are left.
`RunScript` is the Lua script over the sorted set (`stamps`, and `touched` for its EXPIRE), which
Redis runs as one step; two calls with one timestamp are one member. In both the timestamp is the `time.monotonic()`
of the host that serves the call (`Clock`), and `Skew` says by how much these differ. A restart empties
deque and store, the in-process store is capped; in Redis entries are shared and expire. `Slot`, `Room` and
`Stored` are the order in which responses are kept and evicted. `admitted`, `recorded` and
`missed` are history: when calls were admitted, which response is still owed to a retry, and the responses a
request did not find although they were.

### Workspaces

`Create`, `Update` and `CloseRow` write the row of the workspace. `Submit` and `Replace` begin a write, which then takes
one step per store (`StoreOriginal` to `IndexChunks`) or dies: one write at a time, and as many as
`MaxEvents` allows; the races between two writes are those of `SourceIntake`. `Purge` to `Announce` are the purge with
each step of `IntakeService.remove` on its own, so that another purge, a write or a
crash may come between any two. `ListChunks` and `Unindex` are the listing of the chunks and the deletion of their
vectors, `FindRow` and `DeleteRow` the SELECT of `session.merge` and the DELETE. `Sweep` is the single transaction that
deletes every other row of the scope, chunks included. Of an emission there is its source and the number of the write
it comes from.

History: `owed[a]` is what the purge `a` could find when it began (`Reach`): originals through their rows, vectors
through their chunks. `late` are the sources a write worked on while a purge ran, `shared` those whose row two purges
were about to delete at once, `miscounted` those whose removal a purge counted although it deleted no row.
`opened` and `told` count the openings of the workspace and the announcements of its end.

### Retrieval

An index may return any of its chunks in any order (`Rankings`); what happens to the
rankings is the code's. `FuseRanking` adds one of them to the scores of reciprocal rank fusion, in
exact arithmetic: `Unit` stands for 1 and is a multiple of every denominator. `Fuse` orders the chunks
by score and, like Python's sort, leaves equals in the order in which they came up
(`CameUpBefore`), and cuts. `Fetch`, `Hydrate` and `Filter` drop chunks and leave the others in
their order (`Kept`, which has one element); `Rerank` puts what the provider returns in front of the
rest and cuts again. `ChangeRows` and `ChangeFit` may come between any two of them. The fusion is one
synchronous call in the code; that the corpus may change between its steps adds only behaviours
with a change before or after it, for the fusion reads nothing of the corpus.

### Conversations

`ReadTurns`, `Answer`, then at most three times `Number` (the highest index plus one) and
`Insert`, which fails when somebody else has the index. `overtaken` collects those.

### ConflictScan

The items are listed, paired in order, and each pair is judged, looked up, queued and
linked. `database` is one of two: PostgreSQL checks the foreign key of a candidate,
SQLite as the repository opens it does not.

### Chunking

`_pack_section` and `_split_by_chars`, a turn of a loop at a time, for every setting and
document of the instance. Of a text there is its length; a piece is the sequence of spans
it joins, so that what is missing, repeated or out of order can be told. Each span has its place in
the piece (`Joined`), so that the length of a piece is where its last span ends (`LengthOf`); `bufLen` is
the code's own count of it, by which it decides what fits.

### MCServices and MCLiveness

The six services above (from `RlmSession` on, `ConflictScan` excepted) share no state, and none is
large alone; `MCServices` extends them all. `service` is chosen in `Init` and says whose turns they are; the variables of the
others keep an initial value. The reachable states are those of the six instances side by
side (a disjoint sum, not a product), so the run says of each what a run of its own would
say. `MCLiveness` does the same for `IngestJobs` and `Knowledge`, in instances without symmetry and
under their fairness.

## 3. Runs

| Run | Instance | States | Shows |
|---|---|---|---|
| `ingest_safety` | 1 job, 2 slots, `MaxAttempts` 2, handlers may outlive their lease, one crash, one loss, one duplicate | 226 570 | a claim settles one outcome, by the last claimant; announcements were settled; the pipeline runs at most `MaxAttempts` times; the feed backs the header; `ClaimLedger` is implemented |
| `liveness` | 2 jobs, 2 slots, `MaxAttempts` 1, one crash, one duplicate, no loss; 1 item, 1 candidate, 2 calls, 4 requests, one death | 215 361 | an accepted job ends; a stored version becomes current unless a call died |
| `knowledge_safety` | 2 items, 1 candidate, 2 calls, 5 requests, one death | 965 579 | versions have one writer; tables agree; one live version; one version per candidate; `VersionLog` is implemented |
| `knowledge_resurrected` | as `knowledge_safety`, no deaths | refuted | an update puts a retired item back |
| `knowledge_wedged` | 1 item, one death | refuted | an item no update can get through to |
| `intake_safety` | 3 sources, 2 contents, 2 calls, 4 requests, one fault | 992 951 | same bytes, same source; ingested is indexed; removed leaves nothing |
| `intake_leftovers` | 2 sources, no faults | refuted | vectors of replaced chunks outlive their source |
| `embedding_sets` | 3 sets, 2 models, 2 chunks, 1 ingest, 1 operator, 3 commands, one kill or throttle | 5 278 037 | a set that can be served is complete; the active set is the served one; a rollback offers the one before; the served set is not dropped |
| `job_progress` | 2 deliveries, 1 or 2 slots, one lease that runs out, one reopened stream | 612 146 | the client's feed has no unexplained gap; nothing is left when the worker has stopped; nothing hangs |
| `services` | see `MCServices` | 2 379 153 | transcripts are well formed, sandboxes are closed and answers end; retries run once within the limits; a purge erases; a search returns what is there in a sound order; answers are kept; a text is covered by its chunks |
| `conflict_unqueued` | 3 items, 2 scans, one update | refuted | on PostgreSQL a confirmed conflict is never queued |
| `chunking_endless` | one paragraph, a budget of 4, overlaps up to 5 | refuted | a long paragraph is split for ever |

Why the bounds are enough. In `IngestJobs` all contention is between two holders of one
row; two slots give a stale holder and a current one, three claims (`ClaimBound`) let a
lease be lost twice and reach the poison path with `MaxAttempts` 2. `ClaimBound` stops
leases from running out, never a claim. The liveness run has two jobs and two slots so that
jobs compete for slots and for the sweep's limit of one; `ClaimBound` 6 is above what its
single crash, duplicate and attempts ceiling can use up, so it does not stop anything
there. In `Knowledge`
two calls and five requests cover create, update, a second update in conflict, a
transition in between, and a successor; two items are needed to supersede one by the
other. In `SourceIntake` four requests cover submit, replace, remove and a submit of the
same bytes; three sources let two submits race while a third id is fresh. Symmetry is used
only where no liveness property is checked; sources, contents, items, calls and slots are
interchangeable. No `CHOOSE` breaks it: the one in `Holder` has at most one witness, by the
UNIQUE index.

In `EmbeddingSets` three commands cover create, activate and then a rollback, a drop or a
resume, and `MaxIds` lets sets and chunks share four ids, so that three sets go with one
chunk and two sets with two: the cursor of a batch of one then has a chunk before and one
behind it. In `JobProgress` two deliveries give a stale handler and a current one, which
is what makes ids and commits disagree; with one slot the second waits for the slot that a hung
intake holds (the initial states of `MCJobProgress` choose between one and two). In `services`: two levels of sessions with a budget of
two give a plain call, a nested session and calls beyond the budget; three requests under a limit of
two with one slot in the store give a refusal, an eviction and a replay; four events in a
workspace are a submit, a replace and two purges at once, or a submit, two purges and a crash, or a row
opened twice under two purges, over pages of one source; three chunks of which two are fetched give a cut at each stage; four
posts are the fewest of which one can lose three times; paragraphs of 1, 3, 5 and 9 with a budget
of 6 are packed, overflow, seed the next piece and are split.

The instance of the agent requests has one host: with several the in-process stores are
independent copies, and what several hosts share in Redis is a budget only if their clocks show the
same (section 5); the theorem of section 6 is about any number of hosts and clocks.

`CHECK_DEADLOCK FALSE` in `ingest_safety` and `liveness`: when all jobs are settled or stranded
nothing is left to do. So it is in `job_progress` (the worker has stopped and the client is
gone), in `services` (an answer, a search, a post is over), in `conflict_unqueued` and in
`chunking_endless`. `Knowledge`, `SourceIntake` and `EmbeddingSets` have an explicit `Rest` that is
enabled only when all calls are answered, so TLC does look for calls that are stuck.

## 4. Fairness

`IngestJobs`: a handler and a request that can go on do so (the event loop resumes a
coroutine whose await is answered); a request the bus holds is delivered when a slot is
free (the semaphore is first come, first served); time passes, so a lease without a
live handler runs out; the `@scheduled` sweep runs every minute and publishes what it
committed. No fault and no submission is fair: nothing has to be lost, nobody has to submit.
All of it is weak fairness. `EventuallySettled` is checked without lost requests
(`MaxLosses = 0`), because with one it is false (section 5), and without overruns,
because a handler that always outlives its lease loses it for ever.

`Knowledge`: a call that is being served goes on. Arrivals and deaths are not fair.

`JobProgress`: a free slot goes to a waiting task, the timers of a handler and of the drain
fire, the poll loop goes on while it is connected: the event loop and its timers. No step of
a handler is fair, the intake may never return; this is what `NothingHangs` is about.

`RlmSession`: the thread of the parent goes on. A model call ends because its client has a
timeout and six attempts (`client.py:263-286`), a read from the sandbox because it has a
deadline (`executor.py:211`). Nothing is assumed of the child.

The other modules state safety only.

## 5. Findings

Each is a run of its own that TLC refutes.

1. `RetiredIsFinal`. `update` checks `retired` on a row it read first and merges its status
   over a transition committed meanwhile.
2. `ConflictIsTransient`. A call that dies between `add_version` and `upsert_item` leaves a
   version that every later update conflicts with; the documented remedy (re-read and
   re-submit) never succeeds.
3. `RemovedIsUnindexed`. `replace` does not delete the vectors of the chunks it drops, and
   `remove` finds vectors through the chunks of today: the old ones, with their text, stay.
4. `ConfirmedIsQueued`. `_record_candidate` stores the id of a knowledge item in
   `source_id`, a foreign key to `canon_sources`: PostgreSQL refuses the row and the
   error ends the scan. SQLite, where the tests run, does not check it.
5. `ForwardProgress`. `_split_by_chars` promises forward progress "when overlap >= budget", but
   corrects the cursor only when it is 0. `config.py` allows a chunk of 128 tokens and an overlap
   of 150 (the default): a paragraph longer than the two together is then split for ever.

The models also show the following. No run is kept for them; the properties are stated
so that they do not depend on them.

- The sweep demotes a job that was claimed or settled between its SELECT and its UPDATE by
  id (`async_ingest_service.py:447` against `ingest_job_repository.py:232`).
- A job the sweep put back to `queued` is stranded when its publish is lost: nothing sweeps
  queued rows (`docs/async-ingest.md:153`).
- A candidate whose decision is committed before the knowledge call refuses stays accepted
  without a version (`candidate_service.py:186` against `candidate_status.py:22`).
- A served set that is resumed with `--no-activate` is `ready` and can be dropped
  (`reindex_service.py:702`, `:710`).
- A source that arrives between the last page and the sweep of a purge loses its chunks, and
  its vectors can no longer be found (`purge_service.py:152`).
- The vectors of chunks that a `replace` dropped (finding 3) survive a purge of the whole workspace as well, for
  it finds vectors through the chunks of today (`index_service.py:161`).
- Two purges that have both passed the SELECT of `session.merge` (`source_repository.py:176`) both delete the row: the
  second DELETE matches none, SQLAlchemy only warns, and both add one to `sources_removed` (`purge_service.py:139`),
  where the docstring says that "every counter is what THIS call erased" (`purge_service.py:47`).
- A `replace` under a file name with another extension stores the original under another key and overwrites
  `object_store_key` (`intake_service.py:720-751`): the earlier original is never deleted.
- A purge that dies between `close_if_open` and the publish loses `WorkspaceDeleted`: the
  retry finds the row closed (`purge_service.py:160`).
- `closed` is not checked by any write to the workspace (`workspace_status.py:25`).
- The RLM budget is per session: nested sessions start with a fresh one, the whole tree
  exceeds what `config.py:377` and `docs/deployment.md:148` call the total (`session.py:228`).
- Replicas that share a budget in Redis stamp their calls with their own `time.monotonic()`
  (`agent_token_service.py:369`), whose zero is the boot of the machine: a host whose clock is ahead makes the
  script drop the others' calls as old, and one that is behind never sees its own expire. `BudgetHolds` says of
  Redis what it does only for clocks that show the same (`SameClock`); without that condition six steps of two hosts
  exceed the limit.
- A key used again for another body gets the old answer, where
  `docs/operations-runbook.md:69` and `docs/security-model.md:382` promise a 409.
- Two scans on SQLite queue the same conflict twice.

## 6. Proofs

TLAPS proves the following for every set of jobs, slots, items, candidates, calls, sources,
embedding sets, operators, deliveries, requests, hosts, posts, searches, texts and purges, and for every value of
the bounds.
The assumptions are the named ones of the modules: the placeholder `None` is not an element
of the sets; limits and bounds are naturals, and batches, pages and concurrency are not 0; in
`EmbeddingSets` there are finitely many ids of sets and of chunks (`SetsAssumption`,
`ChunkAssumption`), so that a clock later than every earlier one exists; in `RlmSession` the
settings are ones `config.py` accepts; in `Workspaces` a page holds at least one source. In `AgentRequests`
(`RequestAssumption`) a limit and a cap are at least one, and clocks differ by any integer; in `Retrieval`
(`SearchAssumption`) the chunks are finitely many and `Unit` is a multiple of every `RrfK + rank`; in `Chunking`
(`ChunkingAssumption`) a budget and a paragraph are at least one character long. TLC evaluates each of them.

Each argument has the same form: an inductive invariant that contains the property, a lemma
per kind of step, and a temporal step. In most of them the type invariant is stronger than
`TypeOK`, because a step of a busy call indexes the tables with the call's request.

`IngestJobsProofs`
- `TypeCorrect`: `TypeInv` adds `BusyHandles` (a busy slot handles a job, an announcing one
  has settled).
- `SettledOnce`, `AnnouncedSettled`, `BroadcastAudited`, `LastClaimantSettles`: from `IInv`
  (`BroadcastAudited` is about a property that no run checks on its own).
  Its core is `LeasesDistinct`: handlers past their claim hold numbers that were given
  out, no two of one job hold the same one, and the holder of the row's number is its last
  claimant. It needs `CurrentUnsettled` (nothing is settled yet under the number of a
  running row) to conclude that a second outcome under one number is impossible, and
  `AnnouncerSettled`, `AnnouncedSoFar` and `PublisherAudited` to follow a handler from the
  UPDATE to its last message. The steps fall into four kinds (quiet, claim, settle,
  announce), one lemma each.
- `RunsBounded`: from `RunsCounted`. The bound on the runs alone is not inductive, for several
  handlers may have passed the guard before one of them enters the pipeline. Each claim
  within the ceiling is worth one run: the runs and the handlers that wait for theirs are
  together no more than the claims, and no more than the ceiling.
- `TrailAhead`: from `StageReached`, the events a handler has written at each place.
- `ImplementsLedger`: `Spec => LedgerSpec`, every step a step of `ClaimLedger` or a stutter,
  using `IInv` for "the announcement is new" and "the claim is open".

`KnowledgeProofs`
- `TypeCorrect`: with `CallShape` (what a call's request and rows are at each place). The
  lemma `RowColumns` is about the column-wise merge: merging rows gives a row.
- `ImplementsLog`: from `LogInv`. `VersionsFollow`: what is stored is `1 .. current` or one
  more. `ReadersBehind`: a call that has read an item holds a stored version that is not
  ahead. `WritersAlone`: at most one call is between `add_version` and the end of its
  merge, and the version it read is still the current one. The UNIQUE constraint thus acts
  as a lock on the item, taken by the INSERT and released by the merge; when its holder
  dies it is never released, which is finding 2.
- `MaterialisedOnce`: from `CandInv`. `CallsOwnCandidates`: the candidate a call works on is
  accepted, is no other call's, has no version before the call stored one and that one
  afterwards. `claim_decision` establishes it and nothing else can.
- `ItemMirrorsVersion`, `VersionSucceeds`: from `SuccessionInv` on top of `LogInv`.
  `WritersKnow`: nobody else makes an item live while a call holds its log, and what that call
  is about to demote or announce is behind the pointer. `WritersOwe`: as long as no call has
  died, whatever is missing is what some call is about to do. The steps are of two kinds:
  `Forward` (pointers advance, versions stay) and `Plain` (the call owes nothing after it).

`SourceIntakeProofs`
- `TypeCorrect`: with `CallOK`, what a call holds at each place, and `UsedInv`, rows are of
  sources that were handed out.
- `SameBytes`: from `BytesInv`. `Distinct` is the UNIQUE index; `SubmitInv` says that a submit is alone
  with its source until its row is inserted, and that the row has its bytes from then on;
  `AnswerInv` the same of every answer. An answer found by the lookup after an
  `IntegrityError` agrees with the others through `Distinct`.
- `Indexed`: from `IndexInv`: an ingested source without chunks, and a chunk without its vector,
  have a call that is about to put that right.
- `RemovedGone`: from `RemovalInv`: a source that no two calls shared has in each of the four
  stores exactly what its one call has left there at its place.

`EmbeddingSetsProofs`
- `TypeCorrect`: with `MadeInv` (the model of a set never changes), `IngestOK`, `CommandOK`.
- `CompleteWhenServed`: from `CompleteInv`. A stamp names a model and not a set, so `StampInv`
  says that a chunk stamped with a set's model is covered by the set (when it is the only one of
  its model), and `WalkOK` what a run's cursor and batch stand for, in the scan and in the
  catch-up; together they give that a finished catch-up has covered what it was owed.
- `ServedSetIsKept`, `OneActiveSet`: from `ServedInv`. Unless two movers overlapped, at most one
  operation is between the first and the last of its transactions (`Solo`); then the set a
  switch read is the pointer still (`SwitchOK`), a set under construction is known to its run alone
  (`Private`), and the status of a set and the pointer differ only by what the one mover is
  about to write (`PointerOK`, `ActiveOK`, `DropOK`).
- `RollbackIsToThePrevious`: from `RollbackInv`: among the sets no switch is at work on, the
  order of `retired_at` is the order in which they left service, and the set a switch is about
  to retire left last. It needs the clock to be later than everything it has stamped.

`JobProgressProofs`
- `TypeCorrect`: with the ids that were drawn, the outcome a handler is about to settle, and
  that what was received has a newest event.
- `StopLeavesNothing`: from `DrainInv`: while the worker stops, everything in flight is awaited.
- `StreamSkipsNothing`: from `StreamInv`: the page is ahead of the cursor, and what is neither
  received nor on the page although it is behind something that is was committed late.
- `ReopenedIsComplete`: from `EndInv`, the same of the listing that was under way or follows.

`AgentRequestsProofs`: `RequestTypeCorrect`, `BudgetIsHeld` and `RetriesOnce`, from `RequestInv`.
- A deque drops only what has become old, and time goes on: `EndOf` says that it holds the last
  calls the host admitted, as its clock showed them, and that the dropped ones are out of every window that is
  still to come. When a call is admitted, those of its window are thus in the deque, fewer than
  the limit (`Popping`, `WindowGrows`). For Redis, `SetIsWindow` says it of the set, whose members
  are the timestamps of the window as long as the clocks show the same; that EXPIRE may remove the whole set is
  covered by `touched`.
- `OnRecord`: a recorded response is in the slot of its key, until it has lived its time, was evicted or went with
  its process; `SlotsSound`: a key has one slot, and what is in it has run. Eviction is the hard step: the first
  slot goes, the others move up, and the slot of the key that is stored may be the one that goes.

`QueryProofs`, `RlmSession`: `TypeCorrect`, `NoChildIsLeft` and `TranscriptHolds`, all from `IInv`.
`StackInv`: sessions form a stack, each waiting for the one below. Per session, `Counted`
(results are those of the first so many blocks), `Sandboxed` with `WireShape` (where a
session has a child, and which frames may be in the pipe: only the last one is not a `final`,
and all are of the block at hand) and `Transcribed` (when the model is called
every block has its result, in between those before the block at hand). That a late frame answers no
wrong block is `WireShape`; the transcript alone is not inductive without it.

`QueryProofs`, `Conversations`: `TalkTypeCorrect` and `AnswersKept`, from `TalkInv`: the indexes are `1 .. n`
(`Numbered`), a post's number was the next one when it was read (`Reads`), whoever overtook it
is stored (`Passed`), and it has failed no oftener than it was overtaken, so that the third
failure means three stored posts (`Tries`).

`QueryProofs`, `Retrieval`: `SearchTypeCorrect`, `HitsLive` and `BetterAhead`, from `SearchInv`.
- `Asked`: how many rankings there are and how many may still come.
- `Corpus` and `HitsSound`: what was read in the table was there, and hits have no repetition. The reranker is the
  step that could break it: its answer is as long as its window, and then holds the same chunks as the head that it
  replaces (`Replaced`), or as long as `TopK`, and then nothing else is returned (`Returned`).
- `Scored`: a chunk that is before another in each ranking that has been added has no lower score, because the weight of
  a rank falls (`Antitone`, by the laws of integer division). The chunk may have the same score, by rankings that have
  neither, or by division; then it also came up first (`SortedOrder`). `InFront`: every later step keeps the
  order of what it keeps (`PrefixKeeps`, `KeptKeeps`). The floats of the code keep it as well: a larger weight is no
  smaller when it is rounded, and rounded addition is monotone.

`ServicesProofs`, `Workspaces`: `WorkspaceTypeCorrect`, `PurgeIsComplete` and `PurgeReports`, from `PurgeInv`.
`PurgeErases` speaks of purges at their end; each earlier place has its part. `WriteInv`: chunks have their row, a
write that a purge meets is `late`, and its emission has a name nothing owed has. `Owing`: while a purge is on its way,
what it owes can still be found or is late, so that nobody takes the row from under an original or the chunk from under
a vector. `RowErased` is why: a call past `Unindex` has left no vector that has a chunk, one past
`EraseOriginal` no original, and one at the DELETE has a row that is there or shared. `ScopeErased`: past
the last page only late rows are left. `StaysErased` says once for all what a step must leave to the purges it is
not a step of (`Allows`), and each action is shown to do so. `ToldOnce`: the announcements that were made or are about
to be are no more than the times the row was opened.

`ServicesProofs`, `Chunking`: `ChunkTypeCorrect` and `TextCovered`, from `ChunkInv`. `Measured`: `bufLen` is the length of
what waits. `Waiting`: what waits is of one section and one span of each paragraph. `InTextOrder`: the next piece begins
after the last one; for a seed this holds because it is the proper end of a span, and in `_split_by_chars` because the
overlap is below the budget, which is where finding 5 comes in. `Coverage`: what was passed is in a
piece or waits; no step drops a span (`SpansStay`).

`ServicesProofs`, `MCServices`: `BehavesAsEach`, a behaviour of the instance is one of each service, so that all
theorems about them hold of it, and `TypesCorrect`, its `TypesOfAll`.

What the attempts found. `Answered` of `RlmSession` was a `CASE` whose arms overlapped, so that it had
no determined value where two of them held; it follows the order of the code now.
In `EmbeddingSets`, `ActiveIsServed` and `ServedIsKept` were not true of two operators under the
earlier `raced` and `reopened`, which the one operator of the run does not show: a drop and a switch,
and a run that marks its set while another run of the same set is under way, count as
overlaps now. `ServedIsKept` says in return that even a resumed set, once activated, is kept.
`ReopenCompletes` did not say where in the reopened stream it holds; it does now.
In `Workspaces`, `PurgeErases` first promised more than a purge can keep; TLC refutes it for rows, originals and
vectors alike if `late` is not excepted, and `ReportsOwnWork` if `shared` is not.
A filter is defined by recursion, about which nothing can be proved here; therefore `AgentRequests` has its deque and its sorted set in place of a filter over the calls,
`Retrieval` adds a ranking at a time, and `Chunking` keeps `buf_len` as the code does: each came out nearer to the
source than the filter or fold it replaces. Writing the deque with the timestamps the code writes showed
that `BudgetHolds` had taken the clocks of the hosts to be one.

## 7. Only model-checked

- Liveness (`EventuallySettled`, `StoredVersionBecomesCurrent`, `NothingHangs`, `AnswerEnds`):
  fairness and ENABLED are out of the prover's reach.
- Every invariant and every action property of the passing runs is proved.
- The refuted properties are, of course, not provable.

## 8. Not modelled

Language model prompts and parsing (consolidation, answering, metadata, PII), file
loaders, price tables, object store and URL adapters, the web layer's error mapping, DTOs, SDKs, migrations: no state of their own, or the state of something
outside. `propose` of candidates: one INSERT; the model starts with proposed candidates.
Multi-tenancy: every query is scoped by tenant and workspace, and the models are of one
scope. The clock: leases are a flag that time sets. Bodies, tags, citations, actors, audit
payloads: data no property tells apart. In `SourceIntake` the embedding set is fixed.

The RLM page cache: planned; its keys are hashes of the content, so it cannot be stale. The staleness detector compares
embeddings and would cache its score with `upsert_item`, one more merge of a row read earlier; but it reads
`chunk.embedding` (`stale_detector.py:136`), a column `KnowledgeChunkRow` no longer has, so that it samples nothing and
returns before that line. Relations, taxonomy, diff, provenance: single
statements and reads. Scopes, allowlists and expiry of a token are cases in which a request
is refused; embeddings, similarities and relevance are choices of the environment. Redis and
PostgreSQL are modelled as what the code relies on: one script or statement is one step.

## 9. Plan

Done: all modules of section 2, with the abstract specifications `ClaimLedger` and
`VersionLog` and their implementation theorems. Still to model, in this order:

1. `PageCache`: the bounded cache with concurrent sessions.
2. Several writes at once under a purge: `Workspaces` has one at a time, `SourceIntake` has several but no purge.

Proofs: every safety property of the runs is proved; the liveness properties are out of the prover's reach.
