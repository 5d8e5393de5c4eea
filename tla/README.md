# Verification of the local RAG system

TLA+ models of the parts of this repository whose correctness depends on interleavings, failures
and boundaries, the TLC runs that check them on small instances, and theorems that TLAPS proves
for all instances. Paths are relative to the repository root, which the mapping in `PROJECT.json`
calls `src/`.

## 1. Inventory of the system

Two processes and some command line tools share a Qdrant collection, a SQLite file of fingerprints,
a SQLite file of users, and an Ollama server.

| Component | Source | State | Operations |
|---|---|---|---|
| Watcher | `indexer/watcher.py` | the observer's snapshots and event queue, the directories it watches, `IndexWorker._queue` and its unfinished tasks, the worker's local variables, progress of `main` | validate mounts, clean up, scan, schedule, watch, handle created / modified / deleted, take a path and index it, stop |
| Ingestion of one file | `ingest/index_documents.py`, `ingest/cleanup_stale.py` | the points of each path in Qdrant, `_collection_ensured` | `ensure_collection`, `index_file`, `_upsert_chunks`, `delete_document`, `remove_indexed_document`, `cleanup_stale` |
| Fingerprint store | `indexer/fingerprint_store.py`, `common/sqlite_store.py` | table path -> SHA-256 | get, upsert, delete, list, clear |
| Chunkers | `ingest/chunkers.py` | none (pure) | `chunk_text`, `chunk_markdown`, `chunk_python` |
| Maintenance tools | `ingest/reset_collection.py`, `ingest/purge_ignored.py` | the two stores | drop the collection, clear the fingerprints, purge ignored paths |
| Request capacity | `web/api_server.py`, `api/query_rag.py`, `api/ollama_client.py` | asyncio semaphore, executor, one cancel event per request, generation slots | acquire, submit, time out, disconnect, answer, release, retry |
| Retrieval | `api/retrieval.py`, `api/embed.py` | per request | branches, fusion, de-duplication, reranking |
| Stream bridge | `web/api_server.py` | one queue per stream | send, drain, end |
| Rate limiter | `web/rate_limit.py` | time stamps per address | check, sweep |
| Users and sessions | `web/user_store.py`, `web/auth.py`, `manage_users.py` | tables of users and sessions; logins that wait for bcrypt | add, remove, login, validate, logout, purge |
| Web UI, schemas, settings, logging, evaluation scripts | `web/static`, `web/schemas.py`, `settings.py`, `common`, `scripts` | none worth a model | see `PROJECT.json` |

**How they interact.** In the watcher one thread per watched directory (watchdog's emitter) compares
snapshots and puts events in a queue; the observer's thread takes them and calls `WatchHandler`,
which either deletes from both stores itself (`on_deleted`) or puts a path in the worker's queue; the
worker thread hashes the file, compares with SQLite, reads the file again, writes to Qdrant (upsert,
then delete the old version) and then to SQLite. `main` runs `cleanup_stale` and `initial_scan` in the
main thread before the observer starts. No lock covers a path, and no transaction covers both stores.
In the API a coroutine acquires a permit, hands the job to a thread, and may stop waiting while the job
goes on; the permit is released by a callback of the job's future, and the job is told to stop by a
`threading.Event`.

**What is hard.** The order of the steps of three threads on the same path; a file that changes between
two reads; what a crash or a failed call between two store calls leaves; a bind mount that breaks while
events wait; a handler that gives up while its job goes on; permits that arrive too late; retries and
waits that race with cancellation; text boundaries. The list in `PROJECT.json` under `hazards` has each
of them at its line.

**What makes the components correct.**

- *Watcher and ingestion*: the two stores agree on what is indexed; replacing a document never leaves
  a moment without it; a fingerprint is never recorded over points of several editions; a restart brings the stores in
  line with the files; while it runs the watcher follows the files; an outage of a mount removes nothing.
- *Capacity*: permits and slots are neither lost nor doubled; a request that has ended gives back its
  permit; no work is begun for nobody, and what was begun stops.
- *Chunkers*: no word is lost, order is kept, repetition and length are bounded, code blocks stay whole.
- *Watched directories*: nothing excluded is touched, every directory asked for is watched or known to be
  missed, a restart catches up. *Shutdown*: it ends and loses no path.
- *Stream bridge*: pieces in order, no answer cut short without a notice, the origin of an answer told.
- *Rate limiter*: never more than the limit in any window, and forgetting changes no decision.
- *Sessions*: a session ends with its user's password, for no other user's reason, and never comes back.
- *Tools and collection*: whatever is reset or purged, nothing is taken for indexed that is not; a collection
  of the wrong layout is refused.
- *Retrieval*: the fusion ranks as defined, and a failure is not reported as "nothing found".

## 2. Modules

| Module | What it is |
|---|---|
| `IndexPipeline` | the watcher process with both stores; one step per call that touches the disk or a store |
| `DocumentIndex` | abstract specification: what the search side may rely on, per document |
| `IndexClaims` | a statement of the repository's documents that the code does not keep |
| `MCIndexPipeline` | constants for TLC |
| `IndexPipelineProofs` | theorems about `IndexPipeline` and `DocumentIndex` |
| `RagCapacity` | permits, threads, cancel events and generation slots of the API |
| `MCRagCapacity`, `RagCapacityProofs` | constants for TLC; theorems |
| `CollectionSetup`, `MCCollectionSetup` | `ensure_collection` and the maintenance commands; constants for TLC |
| `Chunkers`, `MCChunkers` | the chunkers as functions on token sequences; all short documents for TLC |
| `IngestProofs` | theorems about `CollectionSetup` and `Chunkers` |
| `WatcherThreads`, `WatcherThreadsProofs` | life and end of the watcher's threads; theorems |
| `WatchScope`, `MCWatchScope`, `WatchScopeProofs` | which directories are scanned and watched while the tree changes; a tree for TLC; theorems |
| `RagStream`, `RagStreamProofs` | one streamed answer, from the thread to the last SSE chunk; theorems |
| `AnswerStream` | abstract specification: what a streamed answer promises its reader |
| `Retrieval` | `retrieve_best`: searches, the loops of the fusion, reranker, failures |
| `Sessions`, `SessionsProofs` | users, sessions, login and `manage_users.py`; theorems |
| `TokenLife` | abstract specification: a session token lives once |
| `RateLimit`, `MCRateLimit` | the limiters with their sweeps; limits for TLC |
| `SlidingWindow` | abstract specification: a limiter that forgets nothing |
| `ApiProofs` | theorems about `RateLimit`, `SlidingWindow` and `Retrieval` |

### IndexPipeline

| Variable | In the program |
|---|---|
| `disk`, `offline` | the user's files; required mounts that show an empty directory |
| `snapshot`, `events` | watchdog's `DirectorySnapshot` as the difference of each path to it; its `EventQueue` |
| `dispatcher` | the observer's thread inside `on_deleted`: before `delete_document`, before `delete_hash` |
| `queue`, `worker` | `IndexWorker._queue`; the local variables of `_index_if_changed` and `index_file` |
| `boot` | `main()`: down, `cleanup_stale`, `initial_scan`, watching |
| `points`, `fingerprint` | the collection (one element per upsert: all its chunks share one `index_version`); the SQLite table |
| `suspect` | history: paths whose stores an overlap, failure or crash touched |
| `missed` | history: renamed paths, and paths whose change was let go because their mount looked broken; until they are hashed again |
| `torn` | history: paths whose text was last read after the file had changed under the hash |
| `budget` | what may still happen |

Actions by thread: the user (`Write`, `Replace`, `Delete`, `Rename`, `MountChange`), the observer
(`TakeSnapshot`, `Poll`, `PollRename`), the dispatcher (`OnCreatedOrModified`, `OnDeleted`,
`DispatcherDelete`, `DispatcherForget`), the worker (`HashFile`, `CompareHash`, `ReadLostFile`,
`ReadUnindexable`, `ReadText`, `UpsertPoints`, `DeleteStale`, `RecordHash`, `SkipDelete`, `SkipForget`),
the main thread (`Start`, `CleanupPath`, `CleanupForget`, `BeginScan`, `ScanPath`, `BeginWatch`), and
what goes wrong (`DispatcherFails`, `WorkerFails`, `ReadFails`, `CleanupFails`, `Crash`). A failed call
may have been applied or not. A crash loses everything but the disk and the stores.

Abstractions: a digest is the content itself; embedding is part of the upsert step (it touches no shared
state); a required mount holds only indexable files and has `require_non_empty`, so that it looks broken
exactly when it shows no file; watchdog is modelled from its use: events of a poll come path by path, an
event equal to the last queued one is dropped, a rename in one directory is one moved event.
`ensure_collection` is taken to have succeeded (it is the subject of `CollectionSetup`).

### DocumentIndex

For each document the set of editions that a query can find, and the edition that is about to take over.
Steps: `Add` an edition, `Retire` the older ones in favour of the fresh one, `Withdraw` all, `Abandon`.
`IndexPipeline` implements it (`ImplementsDocumentIndex`) with `index` = the editions among the points of
each path and `fresh` = what the worker has upserted and not yet cleaned up behind.

### CollectionSetup

`layout`, `payload` and `documents` are the collection: missing, of the layout before BM25, or hybrid; its
payload indexes; the paths with points. `tracked` are the paths with a fingerprint. The watcher has its
`phase`, its copy of the config (`accept`), `ensured` (`_collection_ensured`), the queue, the worker's `task`
and the loop of `cleanup_stale` (`removal`); `operator` is the command that runs in a container of its own.
`CheckCollection`, `CreateCollection` and `CreatePayloadIndex` are the calls of `ensure_collection`;
`DeletePoints` and `Forget` the two calls every removal makes. Every call can fail, applied or not, and
both processes can die between two calls.

Assumed of the operator, who follows the README: one command at a time, and a reset only while the watcher
is stopped (the code does not enforce it: `_collection_ensured = False` in `reset_collection` changes the
flag of its own process). Purges and `cleanup_stale` run next to the watcher. Files appear and
disappear while neither runs; edits of a file are the choice of `TakePath` whether the hash has changed. Within
one file the steps of `IndexPipeline` are folded: upsert and stale delete are one step here.

### RagCapacity

A request has a `handler` (the coroutine: new, waiting, granted, awaiting, or how it ended) and a `job`
(none, queued, a place in the thread's code, returned, settled). `waiters` and `permits` are
`asyncio.Semaphore`, `backlog` the executor's work queue, `slots` the threading semaphore of
`ollama_client`, `cancelled` the set of events that are set. A `chat` posts through `post_with_retry`, a
`stream` posts once and streams, a `retrieve` never generates and has no cancel event. Time is abstract:
a timeout may come at any moment its timer runs. `late` counts posts after the cancel event. `warmup` is the `generate()` of
`_warm_models`, which runs beside the first requests, if it is configured, and takes a slot like them (`WarmUp`).

### Chunkers

A text is a sequence of tokens: a character, a space, a newline, a blank line, a header mark, a fence
line that can or cannot close a block. Each token carries its place, so chunks can be compared with the
document. The nodes of a Python syntax tree are an input. `IndexFile` splits a document and strips the
chunks, as `index_file` does. Each loop of the code is a recursive function of the number of its turns, with
the body of the loop as an operator (`AddSplit`, `AddPart`, `AddParagraph`, `EmitNode`), so that the proofs can speak of
what holds after each turn.

### WatcherThreads

`main` is where `main()` is between the scan and its last join, `queue` and `unfinished` are the
`queue.Queue` with the count `join()` waits for, `observer` and `worker` the two threads. `Index` is one
indexing: it returns, or `p.exists()` raises in front of the `try` of `_index_if_changed` and the thread
dies after its `task_done`. Every submission has a name of its own. Indexing itself is `IndexPipeline`'s.

### WatchScope

`tree` is what is on the disk, `docs` the state of each directory's documents (a directory stands for the
file in it), `roots` and `todo` the walk of `initial_scan` or of the scheduling loop, `watches` the emitters,
`behind` the difference of the disk to their snapshots. Under an entry with `exclude_dirs` each directory has
an emitter of its own; an emitter whose directory vanishes ends for good (`EmitterEnds`). A directory that vanishes during the
startup is passed over if it is gone before the walk asks what it is (`SkipVanished`); if it goes after that, or had been
scheduled, the exception ends `main()`, which Docker starts again (`StartupFails`). `early` and `late` are history: what changed, and
which directories were made, while nobody was looking.

### RagStream and AnswerStream

`job` is the thread's place in `_run`, `ask_stream_sync` and `stream_generate`; `queue` is the
`asyncio.Queue` together with the callbacks of `call_soon_threadsafe` that fill it; `reader` is the
generator chain of the response up to `[DONE]`; `cancelled` the event that timeout, disconnect watcher and
`finally` share. `AnswerStream` knows what was said, what was shown, and how the response ended.
`RagStream` implements it with `whole` = the pipeline said everything, `closed` = `[DONE]` was sent, and all endings
that carry a notice (error, timeout, no capacity) as one. The thread's errors, the timer (which may fire
just as an item arrives), a client that leaves, and a server that shuts down may come at every step.

### Retrieval

One run of `retrieve_best`: each stage succeeds with any list, or its service fails (`LookUpFilenames`, `Embed`,
`VectorRecall`, `KeywordRecall`, `Rerank`). The loops of `_fuse` take one step per chunk: `list` and `at` say where they
stand, `seen` is the set of that name, `fused` and `score` are the dict (its keys in the order of insertion).
`SkipChunk` is the `continue`, `CountText` the rest of the body, `NextList` the next turn of the outer loop, `SortFused` the
sort and the cut behind them. `sorted` is taken by its contract (`Sortings`): a permutation with the higher first that keeps
the order of equals. A score is an exact fraction: the code adds at most two floating point numbers per text, so it can
differ in the order of texts whose sums differ by less than a rounding error. The properties compare the dict with fractions built from ranks. The
reranker's grades are any function.

### Sessions and TokenLife

`hashes` and `sessions` (with `user`, `expires`) are the two tables, `login` the requests between
`get_hash` and `create_session`, which wait for bcrypt in a thread; `manage_users.py` runs in another
process, so any of its commands may fall in between. A password is known by the number of the hash
it would match. `TokenLife`, the abstract specification, lets a token be issued once, be live, and be over.

### RateLimit and SlidingWindow

`stamps` are `_rate_buckets` and `_login_rate_buckets`, `wakeup` the sleep of each sweep task, `served`
the history that `SlidingWindow` decides by. A check and a sweep hold the lock without an await, so each is
one step.

## 3. Runs

| Run | Instance | What it shows |
|---|---|---|
| `pipeline_one_file` | 1 file, contents x, y and the unindexable z, 2 edits (write, replace, delete), 1 failed call, 1 crash | `TypeOK`, `StoresAgree`, `NoSearchGap`, `ImplementsDocumentIndex`, `RestartReconciles`, `WatchKeepsUp` |
| `pipeline_mounts` | 2 files behind one required mount, 1 edit (rename too), 2 outages | `StoresInv`, the inductive invariant of the proofs, `OutageSparesDocuments`, and `WatchKeepsUp` with renames and outages |
| `capacity` | a chat, a stream, a retrieval; 2 permits, 2 threads, 1 slot, 1 retry; with and without the warm-up | `PermitsConserved`, `SlotsConserved`, `CancelStopsPosts`, `AbandonedStartsNothing`, `AbandonedReturns` |
| `collection` | 2 files below 2 roots, 2 filters; 3 commands, 1 change of files or config, 1 fault; old or missing collection at first | `TrackedIsSearchable`, `PointsHavePayloadIndexes`, `OldLayoutKept`, `ResetRebuilds` |
| `chunks` | every canonical document: text and Python up to 6 tokens, Markdown up to 5, Markdown prose up to 10; window 2, overlap 1, maximum 5 | `CoversInOrder`, `SharesAtMostOverlap`, `FitsMaximum`, `CodeBlocksWhole` |
| `threads` | 3 submissions | `ExitLosesNothing`, `ShutdownEnds` |
| `scope` | a watch path with a nested and an excluded directory, one without `exclude_dirs` with one below; 3 changes, 1 crash | `NothingExcluded`, `WatchCovers`, `WatchedIsFollowed`, `RestartCatchesUp` |
| `stream` | up to 3 texts, both modes | `ToldWhereFrom`, `ImplementsAnswerStream`, `StreamEnds` |
| `retrieval` | 3 texts and the empty one, lists up to 3, `RERANK_K` 2, limits 1 and 3, 2 grades | `FusedByRank`, `AgreementWins`, `EmptyIsNotFailure` |
| `sessions` | 2 users, 2 tokens, a login in the air, 3 hashes, expiry after 2 of 3 ticks | `SessionsFollowPassword`, `TokensLiveOnce`, `EndsForAReason` |
| `limiter` | 1 address, 2 requests and 1 login per window of 3, 7 ticks | `WindowBound`, `BucketsExpire`, `ForgettingIsSafe` |
| `claim_authoritative` | 1 file | a statement of the repository, refuted (section 6) |

**Bounds and why they are enough.** All interference in the pipeline is about one path: the threads,
stores and the queue treat paths independently, so one file shows every interleaving of two edits, a
failure and a crash; two edits are needed for a change between two reads that is then reverted, one
failure and one crash for every half-done pair of store calls (a crash during the recovery of a failure
is included). The second file is there for what paths share: the queue, the dispatcher, a mount, a rename.
Five versions are more than the upserts the budget allows, so `UnusedVersions` never runs out. In the
capacity run three requests on two permits make one wait; two threads on one slot make one
poll; requests are reused, so every sequence of requests is covered; `attempt`, `late` are bounded by the
code itself. Three commands are enough to stop the watcher, reset and
purge, or to reset twice; one fault interrupts a reset or a purge half way; of two files one may be filtered out. The chunk sizes are chosen so that pieces below, at and above each limit occur within the
length of the documents; prose needs ten tokens for the miscounted blank paragraphs to matter.
Three submissions put one path in the worker's hands, one in the queue and one with the observer. The tree
has every kind of directory (root, nested, excluded, below a recursive watch), and three changes remove, make
and write again. An answer of three texts can be ahead of its reader by several items; the
length of an answer is the model's bound (`MaxTexts`), which the loop of `stream_generate` does not have: the safety theorems
hold for any length, and `StreamEnds` assumes an end. Lists of three texts with `RERANK_K` 2 and limits on both sides of it make each cut bite.
Two tokens, one login and three hashes let a login span a removal and a new password while another
session is live; the theorems cover more. Buckets share nothing but the sweep, which treats each by itself, so one address shows all; seven ticks
are two windows and a bit, enough for stamps to expire, sweeps to fall between, and the limit to be reached again.

**Deadlock.** The pipeline, collection and scope runs say `CHECK_DEADLOCK FALSE`: when the budget is used up and
all threads are idle, the watcher waits for changes that no longer come. A chunked document, a retrieval, a stream whose
loop is closed and a watcher that has exited are at their end. The other runs check for deadlock.

**Properties worth a comment.**

- `StoresAgree` exempts a path while a thread is between its two calls, and suspect paths: those where a
  call failed, a crash interrupted a pair of calls, or `on_deleted` ran while the worker was publishing the
  same path. A path stops being suspect when the worker next reads its text undisturbed.
- `RestartReconciles` starts from *any* state the failures left and needs no further disturbance.
- `WatchKeepsUp` starts from fingerprints that have caught up, since the code does not notice changes between the scan
  and the first snapshot (section 6). It speaks of fingerprints and of points: a point holds what the file holds. It
  exempts, by name, three kinds of path: `suspect` ones; `missed` ones, which are both names of a rename, a deletion that
  `on_deleted` took for a broken mount, and a queued path that the worker looked up while its mount was broken (if the
  mount is back before the next poll, nothing submits the path again); and, for the points only, `torn` ones, whose
  text is not the one that was hashed. A `missed` path counts again once it is hashed, a `torn` one once hash and text agree.
  Both exemptions are needed: without either TLC finds a counterexample. The first run has reverted edits, failures and
  crashes, the second renames and outages.
- `RestartReconciles` speaks of fingerprints only: a torn path stays wrong over a restart.
- `AbandonedStartsNothing` leaves out `/v1/retrieve`: `retrieve_best` takes no cancel event, so a retrieval whose handler has
  given up runs on, with its permit, until its own timeouts end it. A stream that has retrieved goes on to the wait for a
  slot, which the event ends; `CancelStopsPosts` covers the one post that may slip through.
- `AbandonedReturns` is checked with as many threads as permits. The settings do not check this: with fewer threads, jobs
  could wait in the executor behind a stream that is still wanted and never ends.
- `ImplementsAnswerStream` takes the end of Ollama's data for the end of the answer, as `stream_generate` does: a
  connection that closes cleanly before the line with `done` counts as whole (`api/ollama_client.py:168`).
- `StreamEnds` assumes that the answer is finite. Only the wait for one item is bounded
  (`web/api_server.py:361`): while Ollama sends a piece in time, however slowly, an open stream goes on.
- `TrackedIsSearchable` exempts what `suspect` names: removals cut short, points purged while the worker
  was about to record them, and all that was tracked at a `--vectors-only` reset or an interrupted one.
  `ClearHashes` ends every suspicion.
- `PointsHavePayloadIndexes` says with `unfinished` what the code lacks: a collection whose
  creation was interrupted passes the check of `ensure_collection` for ever and never gets its payload indexes.
- `ResetRebuilds` starts from a reset that cleared the fingerprints too. After `--vectors-only` the watcher may
  never come up: `cleanup_stale` deletes from the missing collection, raises, and Docker restarts it (`CleanupRaises`).
- `OutageSparesDocuments` speaks of steps taken while the mount is broken. If the mount is back before the
  queued events are handled, `on_deleted` finds it non-empty and deletes documents of files that
  exist; they come back with the events of the next poll.
- `ExitLosesNothing` speaks of an orderly exit; Ctrl-C during the scan or a signal loses the queue, which the
  next scan makes up for (`RestartReconciles`). `ShutdownEnds` names the one way to hang: a dead worker with
  paths behind it.
- `WatchCovers` says exactly which directories the watcher does not follow: those made after the start under a
  path with `exclude_dirs`, and those below a watch path that was itself made late.
- `SessionsFollowPassword` does not say that a session's login checked the current password: a login
  that waits for bcrypt while the password changes is issued its session afterwards (section 6).
- `NothingExcluded`, like the code, takes the configuration as fixed; a changed one is the subject of
  `CollectionSetup`.
- `FitsMaximum` holds although `_split_oversized_markdown_section` counts too little (the separator after blank
  paragraphs at the head of the buffer): `index_file` strips exactly those. Without the strip
  the property fails.

## 4. Fairness

`IndexPipeline`: weak fairness of the observer per path (it polls on a timer), of the dispatcher, the
worker and the main thread (running threads; Docker's restart policy starts the container again). User
steps, failures, outages and crashes have none. `RagCapacity`: weak fairness of the step after a permit
was granted, of the future's callback, and of each thread, *except* a stream that nobody cancelled:
Ollama may stream tokens for ever. Every other wait of a thread has a timeout in the code (embedding, slot,
post, next bytes). Timeouts of handlers, disconnects and arrivals have no fairness.
`CollectionSetup`: weak fairness of the watcher's main thread (Docker restarts it unless it was stopped) and worker; none of
the operator, the user and the failures. `WatcherThreads`: weak fairness of each thread, since every call of an indexing has a timeout or
goes to a local store; none of Ctrl-C and events. `WatchScope`: weak fairness of the startup and of the
emitters' polls, which run on timers. `RagStream`: weak fairness of the event loop with its timers only:
a stream of a finite answer must end even if the thread hangs in Ollama. The warm-up has no fairness. `Retrieval`, `Sessions` and `RateLimit` state no liveness.

## 5. Proofs

Assumptions: `PipelineAssumption` (contents, `Absent` and `None` are distinct, mounts are sets of paths),
`CapacityAssumption` (finitely many requests; positive limits). `CollectionAssumption`
(finitely many paths, filters and roots are sets of them), `ThreadsAssumption` and `SessionsAssumption` (names apart),
`ChunkAssumption` (a positive window; the nodes of a syntax tree come in order and within the
file, and one may begin on the last line of the one before), `StreamAssumption`, `TreeAssumption` and `EntriesAssumption` (the directories form a tree; watch paths do
not overlap), `RateAssumption` (positive limits and window) and `RetrievalAssumption` (`RECALL_K`, `RERANK_K` and the limits are positive). Nothing bounds the number of files, contents, versions, requests, permits, threads,
directories, users, tokens, logins in the air, addresses, texts, or the length of an answer or a result list.

| Theorem | Argument |
|---|---|
| `IndexPipelineProofs!TypeCorrect` | inductive; one lemma per actor |
| `RecordsOneEdition` | a part of `StoresInv`: the record step is reached only through `DeleteStale`, and only the worker adds points |
| `StoresInvariant`, `StoresAlwaysAgree` | `StoresAgree` is not inductive: a deletion must know that it left no points, an upsert that its points are still there when the hash is recorded. `StoresInv` adds the start order of the threads (`StartOrder`) and what holds between two calls (`StoresInStep`) |
| `ReplacesWithoutGap` | from `StoresInv`: when the stale delete runs, the new point is there or the path was withdrawn |
| `OutagesSpareDocuments` | from `StoresInv`: below a broken mount every path looks absent and the mount empty, so no guard of a removal holds |
| `PipelineImplementsIndex` | refinement; needs in addition that the worker's version belongs to its own content (`OwnEdition`) |
| `FreshStaysThere` | inductive in `DocumentIndex`; the refinement carries it over to the pipeline |
| `RagCapacityProofs!TypeCorrect` | with `QueueInv` (only waiting requests are queued, each once) and `JobInv` (no job before submission) |
| `PermitsAreConserved`, `SlotsAreConserved` | each step adds or removes one holder; `ReleaseCount` says that `release` makes one more permit or one more holder |
| `NobodyIsWorkedFor` | `ToldInv`: a job that has not returned behind a handler that has ended has its cancel event set |
| `PostsStop` | `LateInv`: a late post sets the job on a path that cannot post again |
| `IngestProofs!TypeCorrect` | of `CollectionSetup`: inductive; one lemma per actor |
| `TrackedStaysSearchable`, `OldLayoutStays` | from `CollectionInv`: which state of the collection each point of `ensure_collection` can meet, that a reset meets no watcher, and that a path about to be recorded has points or is suspect |
| `PointsAreIndexed` | `PayloadInv`: while indexes are being created there are no points |
| `EveryWordInOrder` | each splitting keeps the places of the words (`Ink`), and no text of its result begins or ends before another (`Renders`). One lemma per turn of a loop (`AddSplitMerging`, `AddPartCollecting`, `BufferedBuffering`, `EmitNodeRenders`), one per loop, then one per chunker |
| `ChunksFit` | hypothesis `Room`: the maximum has room for a window, its overlap and a separator, as 2000 has for 500 and 100 (`settings.py:137-146` checks less). A window longer than `ChunkSize` is what was kept of the one before and a single split (`Closed`); of a Markdown buffer the size is counted right from its first word on (`Holding`), and what is in front of it is stripped (`Slack`) |
| `CodeBlocksStayWhole` | no header lies in a code block (`BlockUncut`), two tokens without a cut between them are in one part (`SpansJoint`), and stripping and packing keep together what is in one text (`StripJoins`, `MergeJoins`) |
| `ChunksShareLittle` | the places of the blanks count too (`Places`). What a window keeps of the one before is not longer than the overlap, and with the split that did not fit it was too long (`Turned`). So neighbours share at most the overlap, those that share anything are too long together to be packed into one chunk later, and what a chunk shares with any later one its neighbour has as well (`Linked`). The splitters and the loops keep that (`Chained`), and packing and stripping turn it into the bound for any two chunks (`PackShares`, `StripShares`) |
| `WatcherThreadsProofs!ThreadsInvariant`, `TypeCorrect`, `SentinelStaysLast`, `NothingIsLost` | `ThreadsInv` relates the count of `queue.Queue` to the queue and the worker's hands (`Counted`), every submitted path to where it is (`Accounted`), and the stage of `main` to what can still follow (`ObserverFirst`, `Emptied`): `join()` returns only when nothing is left, and the observer has ended before |
| `WatchScopeProofs!ScopeInvariant`, `TypeCorrect`, `ExcludedStaysOut`, `WatchesCoverScope`, `WatchedStaysFollowed` | `ScopeInv` says of both walks that a directory asked for has been visited, or the walk is still going to a directory above it, or it came too late; the tree lemmas show that the walk of an entry goes towards every directory it asks for and into nothing else |
| `SessionsProofs!SessionsInvariant`, `TypeCorrect`, `SessionsAreYounger` | `HashOrder`: hashes grow, so a login that still waits cannot have read a younger one than its user has |
| `TokensAreUsedOnce`, `SessionsEndForAReason` | refinement of `TokenLife` and action property, from `SessionsInv` |
| `RagStreamProofs!StreamInvariant`, `TypeCorrect`, `OriginIsTold` | `StreamInv`: while somebody reads, what was shown followed by the queue is what was said followed by the marks of the thread (`InOrder`); what was said is known at each stage (`Says`); the pipeline stops half way only behind a reader who left (`StoppedForGone`) |
| `StreamImplementsAnswer`, `AnswersAreWhole` | refinement of `AnswerStream` from `StreamInv`, and what the abstract specification means: the response is a prefix of what was said, whole if closed without a notice |
| `ApiProofs!LimiterInvariant`, `ForgettingChangesNothing` | `LimiterInv`: requests pass in the order of time (`Chronological`), a stamp that is gone is out of the window for good (`KeepsRecent`), so the limiter of the code decides like `SlidingWindow` (`ActiveIsRecent`) |
| `NoWindowIsOverfull` | `WindowBound` is proved of `SlidingWindow` and holds of the limiter as both decide alike: times never decrease, so if a request is recent all after it are, and `MaxRequests` of them would fill the window (`PassIsFar`) |
| `BucketsAreForgotten` | `SweptInTime`: a bucket has a stamp younger than two windows at the next sweep, which comes within one |
| `RetrieveInvariant` | `LoopInv`, the invariant of the two loops: the dict lists the texts read so far once each, `score` is what their ranks in the lists read so far give (`ScoreSoFar`), `seen` is what was read of the current list. A text new to a list has the number of texts seen as its rank (`RankAtFirst`) |
| `FusionIsByRank` | behind the loops `score` is `Fraction` (`AllRead`); a sorting lists nothing behind a lower one (`SortingOf`), so what the cut leaves out is no better than what it keeps |
| `EmptyMeansNothingFound` | from the two before: without candidates nothing was offered, and only the lookup and the keyword search may have failed |
| `AgreementOutranks` | two ranks up to 61 outweigh any one (`TwoOutweighOne`); the theorem has the hypothesis `RecallK <= RrfK + 1`, since from 62 on a tie is possible. `RECALL_K` is 15 unless the environment says otherwise, and `settings.py` does not check it |

The theorems on the chunkers are by induction over the turns of the loops. The library's induction theorems take a
predicate as a parameter, which no prover here can instantiate; `InductTo` states the principle for a set instead, and is proved
from the least element of a well-founded order. In the same way the `...Loop` lemmas show that the functions the model
defines recursively exist and satisfy their equations.

Model-checked only: the liveness properties (`RestartReconciles`, `WatchKeepsUp`, `AbandonedReturns`, `ResetRebuilds`,
`ShutdownEnds`, `RestartCatchesUp`, `StreamEnds`), as TLAPS does not reason about fairness here. Every invariant and every
action property of a passing run is a theorem.

## 6. Where the repository says something else

`claim_authoritative` is a `violation` run with its quotation in `PROJECT.json`: the fingerprint store is not
the list of all indexed files, as a deletion that overlaps with the indexing of the same file leaves points
without a fingerprint. `FingerprintsAreAuthoritative` is the statement, in `IndexClaims`.

The models show other places where the text promises more than the code does. The properties above exempt these
behaviours by name or speak of what comes before and after them:

- `src/ingest/index_documents.py:135`: a failed stale cleanup is "retried on next poll". A poll submits changed
  files only, so both editions stay until the file changes or the watcher restarts (`DeleteStale` failing in `WorkerFails`).
- `src/indexer/fingerprint_store.py:4`: unchanged files are skipped "since last indexing". Hash and text come from two
  reads (`HashFile`, `ReadText`): a write in between records the old hash over the new text, and a file that is reverted is skipped.
- `src/context/operations/INGESTION.md:13` and `src/indexer/watcher.py:4`: the watcher keeps folders in sync. Changes
  between the scan of a file and the first snapshot, renames (`PollRename`: no handler), and directories
  made later under a path with `exclude_dirs` (`WatchCovers`) are not followed until a restart; nor is a change that the
  worker looks at while its mount is away for less than a poll (`HashFile`).
- `src/ingest/cleanup_stale.py:26`: `accessible_roots` prevents mass deletion "when a bind mount is temporarily empty".
  An emptied mount exists, so a mount that breaks after the validation loses its documents (`CleanupPath`).
- `src/context/operations/INGESTION.md:31`: plain text is cut in windows of 500 characters. The pieces kept
  as overlap are not checked against the window together with the next piece, so a chunk may be longer; `FitsMaximum`
  and `SharesAtMostOverlap` say what holds.
- `src/README.md:497`: changes of users "take effect immediately". A login that read the old hash and waits for
  bcrypt is issued a valid session after the new password is set (`EndLogin` after `Add`).
- `src/indexer/watcher.py:105`: `stop()` drains the queue, then stops the thread. Behind a dead worker it waits for ever (`ShutdownEnds`).

## 7. Not modelled, and why

- *Symbolic links to directories* in watch paths, and filenames extracted from a question: data, read from
  outside and handed on unchanged.
- *The lifespan of the API*: opening and closing the executor, the warm-up of the embedding model and the reranker, and
  `close_session` once per thread touch no permit and no slot (the warm-up's generation does, and is in `RagCapacity`);
  `RagCapacity` and `RagStream` start behind it, and `Shutdown` in `RagStream` is what a stream sees of its end.
- *Request schemas and response formats*: stateless. *Settings and path patterns*: read once, string matching;
  their values are the constants. *Logging, timing, the client singletons*: no state that a property is about.
- *The browser code*: rendering and one request at a time. *Evaluation scripts*: offline measurements.

Assumptions that bound what the runs and theorems mean: the event loop is not late in `RateLimit` (a task whose sleep is over
runs before the clock goes on); the wall clock of the sessions does not go backwards; watch paths
do not overlap and each directory holds one indexable file in `WatchScope`; the operator runs one command at a time, with the
watcher stopped for a reset (`CollectionSetup`).

What would come next: a composition of `RagCapacity` with `RagStream` in which several streams share permits and
each has its queue.
