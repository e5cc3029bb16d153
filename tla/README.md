# Verification of the AI Core Engine

TLA+ models, model-checking runs and machine-checked proofs for the AI Core Engine: the MCP
server of `mcp`, and the memory layer, caches, graph builders, ingestion services, backup tools,
query orchestrator and review gate of `src`. Paths below are relative to the repository; `MAN` is
`src/MemoryLayer/memory/working_memory/manager.py`, `SRV` is `mcp/core/mcp_server.py`, `EPH`
is `src/MemoryLayer/memory/ephemeral_sandbox.py`, `BKG` is
`src/HybridRAG/code/KG/build_knowledge_graph.py`, `IS` is
`src/IngestionPipeline/ingestion_service.py` and `RLM` is
`src/HybridRAG/code/querier/rlm_orchestrator.py`.

1. [The system](#1-the-system): components, state, operations, interactions, hazards
2. [The models](#2-the-models): which module models which part, and how it corresponds to the code
3. [The runs](#3-the-runs): what each checks, its bounds, fairness
4. [Findings](#4-findings)
5. [The proofs](#5-the-proofs)
6. [What is not modelled](#6-what-is-not-modelled) and [the plan](#7-the-plan)

## 1. The system

`SRV` registers the MCP tools; `mcp/app.py` runs the server and an APScheduler
`BackgroundScheduler` beside it. One process (a pod) therefore has

- the asyncio event loop, which runs the tools: a handler is interrupted only where it awaits;
- the scheduler thread, which runs the session reaper every two minutes;
- worker threads: `asyncio.to_thread` and executors for parsers, Neo4j, Qdrant and embeddings,
  and the thread pool of a batch ingestion.

`mcp/k8s` scales the process from one pod to five behind a service with ClientIP affinity. The
pods share Redis, PostgreSQL, Neo4j and Qdrant; sandboxes, caches, rate limits, job records and
metrics are each pod's own.

| Component | State | Operations | Hard behaviour | What makes it correct |
|---|---|---|---|---|
| Working-memory sessions (`MAN`, `session.py`) | sessions in Redis or process memory | create, load, store, retrieve, extend, context, close, purge | every operation loads, changes and saves a whole session without lock or version; two clocks of expiry | confirmed writes last to the end or TTL; ended sessions are gone; a live one is taken by nothing else |
| Session tools and reaper (`SRV`, `mcp/app.py`) | the adapter, the gauge `ACTIVE_SESSIONS`, the audit row `sessions_meta` | session_start/store/retrieve/end, build_context, the reaper job | reaper thread between any two commands; a failing step of several | a server looks like an atomic session service |
| Ephemeral sandbox (`EPH`) | a graph and a vector store per session, temporary files | sandbox_upload, sandbox_clear, session_end, traceability pull, boundary resolution | three awaits with the sandbox object in hand; one temporary directory per session | destroyed is gone; answered is loaded; edits shadow production |
| Search cache (`src/Configuration/cache_service.py`) | LRU tier, semantic tier, configuration | lookup, store, invalidate by module, clear, refresh, stats | await between lookup and store; ingestion threads invalidate the tiers one by one | no answer older than the last invalidation; sizes; like answers like |
| Ingestion service and jobs (`IS`, `batch_ingestion.py`) | job records, buffered writes | ingest_file/module, batch_ingest, the module event | failing queries and parsers, relationships flushed before their nodes, workers on one module | what a finished job counts is stored; what is written is announced; every job ends, a batch after its modules |
| Incremental ingestion (`incremental_ingestion.py`) | the baseline, its state file | detect_changes, commit_state, reset_state | crash while the file is written, files changing between hashing and processing | every change is reported and processed in the end |
| Review gate (`ReviewGate/confidence.py`, `result_processors.py`) | the sink's lists; tables of responses, reviews, feedback and failures; patterns | evaluate, submit feedback, complete a review, process results, override | worker threads over one sink, six writes to three stores of which any may fail, a foreign key, stores wired by hand | nothing unverified passes as AUTO; reviews have their evidence; what is answered is kept |
| Backup and restore (`src/IngestionPipeline/backup`) | dumps on disk and in S3 | snapshot, cleanup, restore | ingestion during a dump, failing uploads, batches in any order, lost commits | a dump is the graph; a restore is the dump or reports errors; a lost dump is reported |
| Semantic memory, few-shot library, node sets | patterns in Qdrant, nodes in Neo4j | store, index, count uses, scope | a counter that is read and written back | a pattern that counts as stored is there |
| Domain session adapter, session manager, context builder | none of their own worth a model | legacy facade | - | - |
| Query routing, hybrid traversal (`EPH`) | reads sandbox and production | routing of a query, several hops over both graphs | a search that crosses from one graph to the other | what was uploaded is found, what it replaced is not |
| Search, knowledge intelligence | none | retrieval and ranking | degraded stages return partial results | - |
| Recursive query orchestrator (`RLM`, `context_builder.py`, `token_manager.py`) | a plan and answers; the shared client and its token | plan, searches, synthesis | budgets that overflow, retries, one token and client for all threads | whole answers within the window, contexts within their budgets, keeping the best; every call has a valid token; every run ends |
| Knowledge-graph builders (`BKG`, `incremental_tracker.py`) | the code graph, hashes stamped on its files | build, skip, cascade delete, cross-module links | one transaction per step, a run that dies between two, builders that delete what others link to | what is going to be skipped is complete; nothing is left over |
| Pipelines, retrieval stores, parsers | files and Cypher | batch scripts | data | - |
| Connectors (Polarion, Jama, Jenkins, Bitbucket) | an HTTP client | requests with retry | token refresh inside a retry loop | every attempt is made; no retry of what succeeded |
| Neo4j access, service container | pooled and lazy singletons | get | constructed by two threads | one instance |
| Authentication, rate limiting | keys, per-pod windows | authorize, check | per-pod memory, truncated keys | the limit |
| Server shell, observability | configuration, metrics | - | - | - |

How they interact: a session id ties a session to its sandbox (`session_end` destroys it; an
upload requires the session); ingestion tells the cache by a callback
(`on_module_ingested`, `SRV` 1257) when a module is done; searches read what ingestion writes to
Neo4j and Qdrant, without a transaction over both; the review gate writes to semantic memory;
the audit rows of sessions, reviews and jobs are written through to PostgreSQL and read by no
code path that decides anything.

`PROJECT.json` lists every component with its status, and under `hazards` each place where the
code is hard to test, with the properties that would catch it going wrong or the reason why none
does yet.

## 2. The models

One module per component states its operations as actions; `MC*` modules and `.cfg` files
instantiate it for TLC; `*Proofs` modules extend it with theorems. Definitions called
"Variant" in the comments are plausible bugs in the operation beside them: each property is
shown to fail when its operation is replaced by the variant.

### SessionStore: sessions, their tools and the reaper

One step is one command to the backend (KEYS, GET, SETEX, DEL), one audit write or one gauge
update. That is the granularity at which the reaper thread and other pods come in between.

| Model | Code |
|---|---|
| `store[l][s]` | the session at location `l` (Redis, or the pod's own memory) under id `s` |
| `backend[p]`, `ChooseBackend` | `_get_session_manager`: a ping at first use fixes the backend for the life of the process |
| `pc`, `job`, `calls`, `reg`, `pend`, `purged` | what a thread does: its request, the adapter calls it has left, the object it holds, what its purge has listed and deleted |
| `Script`, `Recover` | the handlers, as lists of adapter calls, and what is left of one when a call raises |
| `ListIds`, `LookAt`, `Reap`, `Count` | `purge_expired_sessions`, run by the reaper and before every adapter call |
| `Load`, `DropExpired`, `Modified`, `Save` | load, expiry check, change and save |
| `SaveMeta`, `CloseMeta`, `Metric` | the audit row, the gauge |
| `Tick`, `Seconds`, `Written` | time; `max(1, int(remaining_seconds))` of SETEX, so that the key of a session may go up to a second early or outlive it |
| `RedisError`, `Restart` | a command raises; a process dies and its memory with it |

Payloads are the set of keys that have been stored. `gen` numbers the sessions started under one
id, in the role of `created_at`; `acked` and `ended` are history. A handler occupies the event
loop from start to end, since none of the session handlers awaits.

`SessionContract` is the abstract service: a client asks, and the one live session of an id is
started, written, cleared, ended or expires, in one step each. `SessionStoreImplements` maps
the stored, unexpired sessions of one server to it. The map is what makes the proof obligation
interesting: a purge, an expired session saved back, and the two steps of `session_end` must
all be invisible.

### SandboxUploads: uploads, awaits and the shared directory

An upload runs alone between two awaits. Those are the parser thread for each document, the
traceability pull from Neo4j and the boundary pull; at each, other uploads, `sandbox_clear`,
`session_end` and the session's TTL may come in.

| Model | Code |
|---|---|
| `table[s]`, `box[u]` | `SandboxManager._sandboxes`; the sandbox object that upload `u` created |
| `held[u]` | the object the handler keeps over its awaits |
| `tmp[s][f]` | the file `f` of the session's temporary directory |
| `Upload`, `OpenBox` | the session check, `create_sandbox`, the first document materialised |
| `ParseFile`, `ParseDone` | the parser thread; the handler resumed: error, next document, pull or ingestion |
| `Pull`, `Pulled`, `LoadProd` | `pull_neighbors` (depth 1) and `load_prod_nodes`, or nothing when Neo4j fails |
| `Define`, `DropDeleted` | `ingest_parsed`: nodes, shadowing and stubs; deletion of production functions the file no longer has |
| `Embed`, `Fits` | `remove_by_metadata`, then one `add_chunks` per function until the limit raises |
| `Resolve`, `Rewire` | `resolve_boundary` |
| `Answer` | every return, with the `finally` that removes the directory |
| `Destroy` | `destroy_sandbox`, from `sandbox_clear` and `session_end` |

The documents of an upload are those that are parsed. The code skips a document that is empty, lies outside
the directory or is larger than 10 MB (`SRV` 3168, 3172, 3183) with a log line at most: the upload is
answered ok, and only its `files_ingested` tells. "What was answered is loaded" is about the others.
A document is a file and the functions it defines with the names they call; the text of a node
is the upload that wrote it, and a chunk is a function of a file. Where a document exceeds the limit, its
first functions are in: `CHOOSE` stands for the order they have in the file. `said` records what the last ingested document says of each
function, `born` and `opened` when an upload was accepted and a box created.

`HybridTraversal` extends it by the reader that several hops need: `Visited` and `BoundaryHits` are the
search of `traverse` in the sandbox's graph (whoever is visited at a number of hops is visited at the
least), `Continued` is `_continue_in_prod`. `get_neighbors` does not await (on Python 3.12 neither does the
timeout around it), so an answer is a function of one state of the uploads.

### SearchCache: two tiers, one await, ingestion threads

| Model | Code |
|---|---|
| `lru`, `sem`, `touches` | the tiers; the order of insertion and use that eviction follows |
| `graph[m]` | the version of module `m` that the backends would return |
| `LruHit`, `SemanticHit`, `Miss` | the lookup of `search_database`, with expiry on the way |
| `Read`, `StoreLru`, `StoreSemantic` | the awaited search, then the two insertions |
| `InKey`, `InText`, `LruWithout`, `SemWithout` | `invalidate_by_module`: the LRU tier takes keys that hold the module between colons, the semantic tier keys that hold its name anywhere |
| `Ingest`, `IngestedLru`, `IngestedSemantic` | an ingestion thread writes, then its callback removes from one tier after the other |
| `Publish` | an ingestion that fails after it has written, or an offline pipeline: no callback |
| `Clear`, `RefreshConfig`, `Stats` | the other cache tools |

The key of the LRU tier is a string that joins workspace, module filter, alpha and query by colons (`SRV`
1575); as a record it cannot be mistaken for another, so colons in the name of a workspace or a module are
excluded (one in the query cannot be mistaken, since it comes last). `near` is the relation "similarity reaches the threshold" of a configuration, any relation at
all; embeddings are not modelled. The two lookups of one search are one step: what a thread
removes between them could as well have been removed before.

### GraphBuild: builders that skip, delete and link

The builders of `BKG` are run by hand, one after the other. A run parses its files, hashes them,
compares the hashes with those stamped on the file nodes, deletes what hangs on stale files, writes
nodes and relationships and stamps the hashes at the very end. Each of these is a transaction of
its own, and each is a step: files change, and the program dies, between any two of them.

| Model | Code |
|---|---|
| `disk[f]`, `stamp[f]` | the names a file defines; `_content_hash` of its node (the content stands for its hash) |
| `elements`, `definedIn`, `uses`, `accessing` | function and register nodes; `SRC_/SFR_DEFINED_IN`; `SRC_CALLS` and `SRC_ACCESSES_SFR`; nodes with `register_accesses` |
| `Start`, `Skip`, `Plan`, `PlanForced` | parsing, `IncrementalTracker._plan_files`, `no_changes` and `is_first_run`, `--force` |
| `DeleteChildren`, `DeleteFiles` | `cascade_delete_source`, `cascade_delete_sfr`: two transactions |
| `HashRest` | files that did not count as changed are hashed late |
| `CreateNodes`, `IngestCrossModule`, `CreateDefinedIn`, `DropUses`, `CreateUses`, `Stamp` | `build` of either builder, in this order |
| `ClearModule` | `_do_clear_module` |
| `Edit`, `Crash` | a file changes; the run dies |

`disturbed`, `layered` and `orphaned` are history: the builds that were cut short or whose files changed
under them; the files that were built over what was there, linked by a run that died before it stamped
them, or changed while a run had them; and the files of which nodes stay that hang on no file. A function
is one name in one file, batches are merged per kind of write, and a module has one register header.

### Ingestion: jobs, the batch writer and the module event

Every call of `IS` runs in a thread, `batch_ingest` has a pool beside. The four functions of `SRV` that make
these calls by `asyncio.to_thread` are no longer registered as tools (2626-2741, `# @mcp.tool()  # Removed`):
what is modelled is the service as they, its tests and scripts use it. A step is a parse,
one query, one pipeline or one callback, with what the thread does up to the next of them.

| Model | Code |
|---|---|
| `thread[a]` | the locals of `ingest_file`, `ingest_module` and `batch_ingest`, with the writer's two buffers as positions in what the parser found |
| `jobs` | the last job of each kind a thread has worked on, in `IngestionJobTracker` |
| `Parse`, `Complete`, `EndFileJob` | `ingest_file` with its exception |
| `Write` | `add_node`, `add_relationship` and the flush of the buffer that has become full |
| `Exit` | `__exit__`: both buffers, after an exception too; `_write_to_kg` swallows it |
| `BeginModule`, `Discover`, `NextFile`, `CompleteModule`, `PipelineEnds` | `ingest_module`, with or without ILLD |
| `BatchIngest`, `TakeModule`, `Collect`, `CompleteBatch` | `batch_ingest` and its pool |
| `Announce` | `_fire_module_ingested`, which is what lets `SearchCache` invalidate |

`unannounced` and `aborted` are history. All nodes have one label; `overwrite` is off. An exception of the callback
is logged and changes nothing for the thread (`IS` 463-468), so that what is announced may still not have
been invalidated.

### Incremental: detect, process, commit

No code of the repository calls `IncrementalIngestionManager`; the caller is the one its docstring
shows, and marked external. Files change and are committed to git at any time; the processing fails;
the program dies, also between truncating and filling its state file.

| Model | Code |
|---|---|
| `state`, `pending`, `file` | `_state`, `_pending_state`, the state file (`Nothing` when torn) |
| `Detect`, `Walk`, `HashFile`, `Report` | `detect_changes`: HEAD, the walk, a pool that hashes file by file, the comparison with git's paths |
| `Process`, `ProcessFails`, `NoChanges` | the caller |
| `CommitState`, `Save`, `Crash`, `Reset` | `commit_state` with `write_text`; `load` of what is there; `reset_state` |

`disturbed` is history again: files that changed between their hash and the commit, and deleted
files whose baseline was lost.

### Backup: snapshots, cleanup, restores

One profile and one command at a time, while the server writes to both stores. A step is one call of
Neo4j, Qdrant or S3, or one page of a scroll.

| Model | Code |
|---|---|
| `nodes`, `mark`, `rels`, `points` | Neo4j with its internal ids, `_dump_id` and relationships; the collections of Qdrant |
| `dumps`, `files` | the statements of each `.cypher` file; which dumps and exports are on disk and in S3 |
| `Snapshot`, `Streamed` | `_dump_profile` with APOC: the file is the first row that the export streams, in the format of cypher-shell, with no `_dump_id` |
| `DumpLabel`, `DumpRels`, `Prefixes` | the fallback, label by label and then the relationships; a failed write leaves a part of the file |
| `Discover`, `BeginExport`, `Scroll`, `ExportFails` | `export_profile`, page by page |
| `Upload`, `CleanUp` | `snapshot_profile` and `main` with `--cleanup` |
| `Restore`, `ClearGraph`, `CommitBatch`, `RollBack`, `LoseAnswer`, `RunAlone`, `NextPhase` | `restore_neo4j`: phases, batches that workers take in any order, and their statements one by one after a failure |
| `RunIndexes` | the statements that are none of the others, one by one: index statements, of which `DROP INDEX IF EXISTS FOR` is not Cypher and fails once for each label |
| `RunForeign` | the same for the file of APOC, of which every statement is of this kind: some fail, others create what they stand for |
| `ListExports`, `BeginCollection`, `DeleteCollection`, `CreateCollection`, `UpsertBatch`, `CollectionFails` | `restore_qdrant` |
| `Server` | what ingestion does to both stores meanwhile; ids are given again after a deletion |

Of index statements only their failures are there; a node has one label. `quiet`, `stayed`, `kept` and `lost`
are history.

### ContextBuilder and Orchestrator: a run of the recursive orchestrator

`ContextBuilder` states `context_builder.py` as operators: `Build` deduplicates, shares the budget
among the slots, gives what slots do not use to others, fills each by relevance and caps the whole.
Sorting is stated by what it yields (`InOrder`), not by a procedure, so that it can be proved about.
`Orchestrator` composes it with one worker thread per request, the shared OpenAI client under its
lock, and the token with its five minutes of buffer.

| Model | Code |
|---|---|
| `token`, `life`, `client`, `lock` | the token in the environment and the state of each token; the client's token; `_rlm_client_lock` |
| `GetClient`, `Fetch`, `FetchFails` | `_get_shared_openai_client` and `get_token` |
| `Answered`, `Rejected`, `Unreachable`, `Refused` | `_call`: up to three tries, a dropped client after a 401 |
| `Planned`, `PlannerUnavailable`, `Malformed`, `Steps` | `_plan` and its fallback to one step; `MAX_STEPS` |
| `Search`, `Assembled`, `SearchFails`, `Answer` | `_execute_step`; answers are kept by the id the plan gave the step |
| `Synthesize`, `Admit`, `Prompt` | `_synthesize`: answers in the order of ids, the last one cut |
| `Synthesized`, `SynthesisUnavailable`, `Unsortable` | `run`'s results |
| `Enhance`, `Enhanced` | `McalQueryEnhancer`, the other user of the client |

`token` is the token of `.env`, which `get_token` loads anew at every check (`token_manager.py` 233): a fetched
token is taken as stored there. If `set_key` fails (187-193, logged) the next check finds the old token
again and fetches once more; that is left out. `Ended` lets no token end under a call that was handed it
more than five minutes before its end: a call, with the tries of the SDK inside it, is taken to last less
than the buffer, which the per-phase timeouts make usual and do not guarantee.

Texts are their numbers of tokens. The last answer of a prompt is cut to four characters for each token that
is left (`RLM` 1005-1007), and nobody counts the tokens of the part; `used` has the whole answers only. A search that is tried again with fewer parameters is one step,
and `plan_preview` is a prefix of a run.

### Confidence and ReviewGate: scores, reviews and what is learned

`Confidence` states `ConfidenceCalculator.evaluate` as operators, from the signals of a tool call to
the review. `ReviewGate` has the four tools that change something, the sink they share and the
stores behind it. Evaluations and reviews hold the event loop; feedback and test results go on in
worker threads, one write at a time.

| Model | Code |
|---|---|
| `Signals`, `Mapped`, `Scaled`, `Score`, `Route` | the signals and measurements, `setdefault`, `int(weight * value)`, the clamped sum, the thresholds of `evaluate` |
| `sink`, `Sinks`, `Wiring` | the `FeedbackSink` of the process; `_get_feedback_sink`, and which stores its constructor calls yield |
| `available` | whether Postgres answered when the process first asked |
| `archive`, `evidence`, `feedback`, `failed` | the tables `response_archive`, `review_evidence`, `feedback_records`, `failure_patterns` |
| `patterns`, `results` | the Qdrant collection; the `TestResult` nodes |
| `Evaluate`, `CompleteReview`, `RowEnsured` | the two handlers, with `save_review_evidence` and the row its foreign key needs |
| `SubmitFeedback`, `ProcessResults`, `UpdateGraph`, `NextFailure` | the two threads: one feedback, or the failures of a report one after the other |
| `Record`, `SaveFeedback`, `StorePattern`, `IndexPattern`, `Track`, `SaveFailure` | `FeedbackSink.submit_feedback`, write by write |
| `Restart` | the process is replaced; tables, patterns and graph stay |

A signal's value is a number of parts out of `Whole`, `None` when it is not given, or `Null` when it is
given as null (or a text): that counts nothing and still wins over a measurement (`setdefault`,
`confidence.py` 138-146). The measurements are whether they reach their threshold. The sink is built as the server does it (`"server"`) or with working stores, as the
tests do (`"injected"`): the second is what the learning code is for, and what the first never
gives (section 4). `closed`, `unsaved` and `answers` are history. What a test passes is `None` in a
report; texts, severities and categories are left out.

## 3. The runs

`tlc -config <cfg> <module>` repeats a run. Each ends by itself, in two minutes or so; the largest
explores about nine million states. Types are not among the properties: the theorems of section 5
state them for every module with a state of its own.

| Run | Configuration | Shows |
|---|---|---|
| `sessions_restart` | one server, sessions in Redis or in memory at each start, two ids started twice, half-second clock, one Redis error or restart | what `session_store` confirmed survives until `session_end` or TTL, up to the second Redis may cut off, while its id is not started again; ended sessions stay ended; a live session is never replaced, although the check and the save of `session_start` are separate commands, and goes only by its own `session_end`, a restart, Redis a second early, or a purge that looked at the id before it was started again |
| `sessions_contract` | one server, every session tool, two keys, ids used once | the server implements `SessionContract`; every expired session goes, a closed audit row means the session is gone |
| `sandbox_shared` | two uploads of one session, of one document or two, Neo4j up or down, with `sandbox_clear`, `session_end`, expiry and a second `session_start` at any await | what was destroyed stays hidden, what was answered is loaded, every upload is answered; for an upload alone in its sandbox, load-then-ingest leaves its functions and calls in front of production's, a traversal finds them, and search has what it defines and no more |
| `stale_path` | one upload of one document that drops a call | TLC finds that a traversal still follows it: see [Findings](#4-findings) |
| `search_cache` | two searches, two ingestion threads, two configurations, invalidation, clearing, expiry | what an invalidation leaves in the tiers, what later requests are answered with, sizes |
| `graph_build` | one module, two C files and a register header, two edits, one crash, `--force`, `--clear` | what the next run skips is complete, with its calls and accesses; nothing is left over on a file but what the rebuilds leave that delete nothing |
| `ingestion` | two server threads, one with two workers; two modules, two files, three functions; two calls, one failure; threshold 2 | what a job counts is stored, what is written is announced, a batch ends after its modules, jobs in processing end |
| `incremental` | two files, one of which comes and goes; two edits, one git commit, one failure, crash or reset | no change is missed, and every one is processed in the end |
| `backup` | two nodes with a relationship, two collections of two points, two commands, one write of the server, two failures | dumps label by label, and restores of them, are exact, dumps and scrolls miss nothing that stays, a missing node is counted, a lost dump is reported; of a restored APOC dump anything may be there |
| `orchestrator` | one run, one other user of the client, three tokens, one fault, two tries; plans that repeat, skip, reverse and mix ids; two slots, up to three of five candidates | tokens outlive calls and are fetched only when needed, the prompt shows whole answers that fit, in the order of their ids, and cuts the first that does not, the context keeps the best and fits, every run ends |
| `review_gate` | one response, two threads, three calls of the review tools with three sets of signals (none, a null beside a measurement, a fifth of a signal), reports with two failures, one failed statement, failed store or restart | no routing is more lenient than its signals allow, completed reviews have their evidence, what is answered is in the sink's lists, in Postgres and in Qdrant as the answer says |
| `review_learning` | one approval with its text, nothing fails | TLC finds that no pattern is stored: see [Findings](#4-findings) |

**Bounds.** Every bound is a constant whose name starts with `Max`, or a finite set.
Two threads are enough for the races over one session: each property of the session runs relates
one id, at most two sessions under it, the loop and the reaper. `Ttl` and `MaxTime` are chosen so
that a session can expire, be purged, and its id be started again while a handler is under way;
`Second = 2` in `sessions_restart` makes truncation to whole seconds visible. In the sandbox runs
the production graph has two functions in the module and one name that occurs in two modules, so
that shadowing, deletion, a stub and an ambiguous boundary name all occur. A function calls another,
and a second upload moves that one to another file, lets it call the first, and redefines the first
without its call. Each upload fills the limit of two chunks; two of one kind replace their files, and of
two kinds the later one exceeds the limit, at once or half-way through its functions. In the cache run
two versions of one module distinguish older from newer, one meta has the filter and one has not, one of
two queries names the module (the semantic tier takes it too), and one size of each configuration is
one. The fresh-entry property needs two ingestion threads, because one thread's half-way invalidation
can then be overtaken by another's.

In `graph_build` two edits make a file change and change back, or go and return, around a run that
dies; the two C files may define one name twice and call each other. In `ingestion` the first file
fills the node buffer and leaves one node, the second fills the buffer of calls before its node is
written; two calls and the two workers meet on one module. In `incremental` two edits suffice for a
file that changes after it was hashed and again after it was processed; one trouble, for a failed
run followed by a good one. In `backup` two commands are a snapshot and its restore, a batch of two
is rolled back and repeated, and a page of one point makes a collection take several pages. Three ids
leave room for a node that is created beside those that are there, and let an id be given again. In `orchestrator` a third token
is needed to see one replaced that another thread still holds; plans of three steps exceed
`MAX_STEPS`, and the sizes of tasks, headings and answers reach, hit and exceed the window. In
`review_gate` two threads share the sink while a third call reviews or evaluates; more threads only
add further ids, and `ReviewGateProofs` covers any number. Tenths (`Whole = 10`) make truncation
visible, and a fifth the least verification that AUTO admits.

**Deadlock** is checked in `sessions_*`, where the reaper's trigger always remains possible, and in
`orchestrator`, where a finished request leaves the query enhancer free to call again. The others say
`CHECK_DEADLOCK FALSE`: once the bounded clients, edits or commands are used up and answered,
nothing is left to do, as on an idle server.

**Symmetry** is used in `sessions_restart` (pods, ids, keys), `search_cache` (searches, threads),
`backup` (Neo4j's ids) and `review_gate` (threads), which have no liveness property; nothing in the modules orders or chooses
these values.

**Fairness.** `SessionStore!FairSpec`: time passes, a thread that can go on does (the backends
have socket timeouts, so a command returns or raises), and the interval trigger of the reaper
fires again after each run (`mcp/app.py` 145). Nothing is assumed about clients.
`SandboxUploads!FairSpec`: a parser thread ends, a Neo4j call returns or raises, and the loop
resumes the handler; nothing is assumed about new uploads or destroys.
`Ingestion!Fairness`: each thread goes on (a parser, a query, a pipeline ends or raises).
`Incremental!IncSpec`: somebody keeps running the manager; that a run ever succeeds is not assumed, only
that the bounded failures run out. `Orchestrator!Fairness`: requests to the endpoints have timeouts,
so a call is answered or fails, and a thread that waits for the client's lock again and again gets it
in the end (strong fairness of `GetClient` and `Rejected`: the lock is held for one fetch at a time).
The other modules assume none.

**Mutants.** Each property of a passing run has a mutant in `PROJECT.json`: a definition replaced
by its variant, for which TLC finds that property violated.

## 4. Findings

Two runs show the code doing what its documentation excludes:

- *A dropped call is still followed* (`stale_path`). `EPH` 3070 says "Re-entry detection prevents following
  stale prod paths for nodes that have sandbox overrides". A function whose uploaded version calls
  nothing has no edge left: `traverse` (3217) takes it for a boundary leaf and goes on with the calls of
  its production version. Likewise a path through an overridden function is followed, since line 3350
  leaves out that function and not what lies behind it (`docs/EPHEMERAL_SANDBOX.md` 153: "that path is
  stopped").
- *Approvals are never learned* (`review_learning`). `docs/DOCUMENTATION.md` 777 says "APPROVE decisions
  are stored as ApprovedPattern nodes in Neo4j and indexed in Qdrant for future similarity matching".
  `SRV` 1200 constructs `PatternStore` with a `neo4j_driver` it does not take and without the
  collection it requires. The `TypeError` is logged, and the sink has neither store nor index for as
  long as the process runs. The next constructor, which is then skipped, lacks its collection too.

The following were found by TLC with smaller instances of the modules, or met while modelling. No
run repeats them; the properties of section 3 are stated so that they hold beside them.

Sessions and sandbox:

- *An ended session is saved back.* `retrieve_data` (`MAN` 632) saves the session it loaded. With two
  pods on one Redis, `session_end` on the other pod can delete it in between; the retrieve then stores
  it for another TTL. `session_end` "Frees all session data".
- *The reaper deletes a live session.* The purge loads, looks and deletes by id; between look and
  delete (`MAN` 588) the event loop can drop the expired session and start a new one under that id,
  which the delete then hits. One server is enough. `LiveSessionsLast` has this as its one exception to
  "a purge deletes what has expired", and `sessions_restart` reaches it: without the exception the run
  fails.
- *A pull reverts an edit.* `load_prod_nodes` (`EPH` 404) adds each pulled node over whatever the
  sandbox has, so a second upload's pull gives a function the first upload edited its production
  attributes back. "A sandbox function should shadow a prod function."
- *Uploads read each other's files.* All uploads of a session write to `/tmp/sandbox_<session id>`
  (`SRV` 3154): the file a parser thread is about to read may be overwritten by another upload, or
  removed with the directory by the other's `finally`.
- *A sandbox outlives its session.* `docs/DOCUMENTATION.md` 1257 promises destruction on session TTL
  expiry; no code does it (`EPH` 541), and the next session of that id inherits the sandbox.
- `session_end` of an id that has no session still decrements `ACTIVE_SESSIONS` (`SRV` 3024), and
  a session that Redis expires never does, so the gauge drifts both ways. Starting an id again leaves
  `closed_at` of its audit row set (`postgres_schema.py` 431).
- Two pods lose each other's confirmed writes (`MAN` 615), and can start the same id twice
  (`SRV` 899 and 901): the existence check and the save are separate commands. A client that moves
  to another pod finds its session and not its sandbox (`SRV` 1157).
- A file uploaded twice keeps the call edges of its first version (`EPH` 2026), where
  `tests/unit/memory/test_illd_sandbox_integration.py` 797 expects them to be cleared: the code
  clears the edges of production nodes only. `CallsAreCurrent` holds for one upload.
- A function whose production version is in an uploaded file, and that is defined again in another
  file, loses the calls to it: the deletion pass for its first file takes the production function with
  its calls, and the other document defines it anew (`EPH` 1999). `MovedAway` in
  `UploadedCallsAreFound`. An upload of two documents that both define one function keeps the calls of
  both, since only production nodes have their calls cleared.
- A traversal misses calls of a production function that the pull has loaded with some of its calls:
  it is no boundary leaf, so that production is not asked for the others.
- Boundary resolution can load a production function that the same upload has just deleted
  (`SRV` 3344): deletion runs before it.
- A document that exceeds the chunk limit half-way (`EPH` 448) is whole in the graph and in part in
  search, and the chunks of its file's earlier version are gone (1350); the upload is answered with an
  error. `SearchHasTheUpload` promises nothing of such an upload.
- `docs/DOCUMENTATION.md` 1256 promises limits of 20 files and 50 MB per upload; the code checks
  the size of single documents only.

Search and cache:

- *A stale answer is cached after an invalidation.* `search_database` (`SRV` 1609) stores what it read
  before the await without noticing that its module was invalidated since. The entry stays for 24
  hours in one tier and seven days in the other. `FreshUnlessOvertaken` has this as its exception.
- The cache key leaves out `max_results`, the offset, the node-type filter and
  `include_relationships` (`SRV` 1575), so the second page of a search is answered with the first.
- A failing graph stage returns no results instead of an error (`search_service.py` 955), and the
  degraded result is cached. Every pod has its own cache, and an invalidation reaches one of them.
- `_update_cache_gauges` reads attributes that the cache does not have, and a cached answer is
  always reported as coming from the LRU tier.

Graph builders:

- `is_first_run` is true whenever no file is unchanged or deleted (`incremental_tracker.py` 61-64), so a
  run in which every file has changed deletes nothing, and functions that no file defines any more
  stay on files stamped as current ("cascade-delete stale nodes before re-ingesting only what
  changed", 13-15). Plans of a single document, as for test specifications and Jama, always are.
  `NoLeftovers` has such files as an exception (`layered`).
- A run that dies before it links leaves functions on no file, and the registers of other modules that a
  build creates on its way (`_ingest_cross_module_sfrs`) are linked to its own header and not to theirs.
  No cascade over their files finds them; they stay until the module is cleared (`orphaned` in
  `NoLeftovers`).
- Hashes are compared per module and not per project: the run of one project cascade-deletes the
  files of the other. What hangs on those files is deleted first and the files with their stamps second,
  in two transactions: when the run dies in between, the other project skips files without
  functions. `--force` deletes nothing, but drops the calls of the functions of files that
  are gone.
- Calls and accesses from other modules go with the nodes that a rebuild deletes, and are written
  again only when those modules are built again. Registers of other modules are linked to this
  module's header by `SFR_DEFINED_IN`: with a second header anywhere, `SkippedIsComplete` fails.
- Files are parsed before they are hashed: a change in between is stamped and not ingested. A run that
  dies between the two transactions of a cascade delete leaves stamped files without their functions.
  Both count as `disturbed` in `SkippedIsComplete`.
- Jama's hash is stamped on `MCALModule {name}`, while its builder creates `{module_name}`.

Ingestion and incremental ingestion:

- A relationship that fills its buffer is written before the nodes it needs, and lost, though counted
  (`IS` 140). `CountedIsStored` holds for files with fewer calls than the threshold.
- A query that fails is not a failed job: `_write_to_kg` swallows it, and the job is completed and
  counts nothing. A missing root leaves the job of the module queued for ever, and an exception of the
  ILLD pipeline leaves it `illd_pipeline_running`, with what it wrote unannounced (`IS` 314, 366).
- `batch_ingestion.py`, which only tests call, counts a failing batch as failed without the retry per
  item that it promises (27), and stores zero vectors where embedding failed.
- A file that is changed after it was hashed, processed in its new form, and changed back before the
  next run is not reported (`incremental_ingestion.py` 392): `disturbed` in `DifferingIsReported`. A
  corrupt state file, or a reset, forgets which deleted files are still in the store.

Backup and restore:

- *`--cleanup` deletes a dump that is nowhere else.* `snapshot_all.py` 116 says "Remove local files after
  successful S3 upload". Line 142 removes the dump as soon as any S3 key exists, and the collections are
  uploaded before it. The run exits with 1 (`LossIsReported`), and the dump is gone.
- *A dump made with APOC cannot be restored.* `neo4j_dump.py` 5 says that the file "can be replayed to
  restore the graph". Lines 115-126 keep the first row of what APOC streams, that is, its first batch, and
  in the format of cypher-shell: `:begin`, and `UNWIND` for many nodes at once, without the `_dump_id`
  by which `restore.py` 112-143 tells nodes from relationships. Each statement is run alone after all
  others, and an error counts one for as many nodes as it holds. The properties of dumps and restores are
  therefore about the files of the fallback.
- A dump of the fallback ends with `DROP INDEX IF EXISTS FOR` (`neo4j_dump.py` 199), which is not Cypher:
  every restore counts an error for each label and is reported as failed. A dump cut off before
  its last statements leaves `_dump_id` on the nodes it restores.
- The fallback reads label by label, and Neo4j gives ids again: a dump during an ingestion can hold
  two nodes of one `_dump_id`, between which a relationship is then restored wrongly. `RestoreIsExact`
  compares with the file, `QuietDumpIsExact` with the graph if nothing is written meanwhile.
- The exit code of a snapshot is 0 when a collection's export failed (`snapshot_all.py` 166), and that of
  a restore of more than one collection is 1, since it compares the number of results with 2; failed
  collections count as results.
- `--from-file` with a directory restores only the last collection of it, and with a file gives both
  components the same file. The graph is cleared before the dump is opened.
- A commit whose answer is lost is repeated statement by statement, and its nodes are there twice. A
  partial dump left by a failed write is the newest by name. Collections have fixed keys in S3 while
  dumps have times, so that a restore combines halves of different snapshots. A collection is
  deleted before it is filled again.

Orchestrator:

- `RLM` 741 promises one token refresh on a 401, and 787 to "force a refresh". `get_token` returns the
  same token until five minutes before its end, so that all three attempts go out with the refused
  token; dropping the client changes nothing. A failing token endpoint is not retried.
- Steps with one id overwrite each other's answers. Ids of mixed types raise after all searches are
  done. An empty list of steps is no reason for the fallback: the synthesis runs without context,
  and its result does not count as degraded.
- Sub-query answers "are admitted until the model context window (minus reserved response + scaffolding
  headroom) is exhausted" (`RLM` 983). The last one is cut to four characters for each token left
  (1005), whereas `estimate_tokens` counts tokens: text with fewer characters per token, such as
  register names and hexadecimal numbers, exceeds the budget. `PromptIsFittingPrefix` speaks of
  the answers that are shown whole.
- A heading or task that alone exceeds the window is not bounded. The capped context is shown least
  relevant first.

Review gate and semantic memory:

- The first row of a response stands: an evaluation that comes after another, or after
  `complete_review` has made a row for its foreign key, is not archived (`ON CONFLICT DO NOTHING`), and
  the routing that was shown last is nowhere. The archived score is always 0: `SRV` 4435 reads
  `confidence_score`, and `evaluate` calls it `score`.
- `override_routing` records nothing but a log line; `docs/DETAILED_DOCUMENTATION.md` 356 calls it
  audited, and 357 promises override frequencies.
- Numbers are admitted as signals: a fifth of `api_verified` counts a fifth of its weight, and can
  still reach AUTO with everything else given. `RoutingIsCautious` requires of AUTO that calls and their
  order are verified to a fifth each, which for yes/no signals is fully, and monotonicity of all.
- A signal that is given as null is taken before what was measured (`confidence.py` 138-146,
  `setdefault`), and counts nothing.
- Processing the same results again adds the same `TestResult` nodes again, under random ids.
- `increment_usage` reads the counter and writes it back, where `docs/MEMORY_LAYER_FEATURES.md` 40 says
  it "atomically bumps" it. No code of the server calls it.
- The lazy getters of `SRV` (1184, 1274) have no lock: two threads at the start can each construct the
  object, and what the first caller put into its own is lost with it.

## 5. The proofs

TLAPS checks every proof to its leaves. The theorems hold for every value of the constants that
satisfies the named `ASSUME`s of the modules; those state types, that `None` is none of the values
it stands beside, for the cache that a key's own module occurs between colons in it, and for the
orchestrator that the slots are finitely many and that 1 is a step id (the fallback plan has it).

### SessionStoreProofs

- `TypeCorrect`: types, and with them that any busy thread has its backend, a call to make and the
  object it needs (`Coherent`). For any number of pods.
- `EndedSessionsStayEnded`: with one pod, since a retrieve on another pod saves the ended session back
  (section 4).
- `LiveSessionsAreKept`: with one pod, since two can both see no session and start one. Otherwise
  without restriction: ids started again, extended sessions, Redis or memory, errors and restarts.
- `ConfirmedWritesAreKept`: with one pod, in Redis or in memory, with errors and restarts, and without
  `extend_session` and `clear_context`. A late purge would take an extended session, and clearing is
  meant to take what was confirmed. No tool of `SRV` calls either (they are methods of the manager),
  so that the hypotheses on requests hold for the server as it is.
- `SessionsImplementTheContract`: with one pod that keeps sessions in memory, no `extend_session` and
  ids started at most once, `Spec` implies `ImplementsContract`. Restarts are included.

`ThreadInv` is `TypeOK /\ Coherent`: typing a step needs to know that a thread about to save holds
a session and has a call to return from. The safety theorems need `ServerInv`. The event
loop is the only thread that saves, and the invariant says what it may still save given what it holds:
`Generations` (numbers in use have been issued), `OnePlace` (Redis and memory never keep the same
session), `Creating` (a start that has seen no session still sees none: only deletions come in
between) and `HoldingLoaded` (what was loaded is not ended, and is the stored session of its id if
there is one). One lemma, `OthersKeep`, covers every step of the reaper: they only shrink the
store, and a deletion breaks none of these claims. That is the argument why no lock is needed with
one pod, and where it fails with two.

`LiveSessionsAreKept` goes through the steps that can empty a place of the store (`TakenBy`). The delete
of `session_end` takes what it has loaded (`HoldingLoaded`). A load drops only what is expired
(`LoadInv`: the thread holds what is stored). A purge has seen the session it deletes expired
(`Reaped`): if it hits a live one, that has another number or another deadline, which is the
exception of `MayTake`. Redis's clock of a session lags at most a second (`OnTime`). And a save stores
the session that is there, or into an empty place (`SaveKeepsSession`).

The other theorems add invariants to it. `HandlerInv` says which requests make which calls.
`DeadlineInv` is about all copies of a session at once (`Known`): stored, held by a thread, or
confirmed. Without extensions they have one deadline (`SameDeadline`), and a start has a number no
copy bears (`Fresh`): what a purge holds as expired is therefore expired in the store as well, and the
exception of `LiveSessionsLast` is left to ids that are started again. `LoadInv` says that what a handler is about to save is
what is stored, modified, unless it is gone. `KeptInv` adds `OnTime` to the property.

The refinement has `ContractInv`, all of these for memory (`OwnMemory`), and `WriteInv`: a save that finds its session
gone carries an expired one. Each save is then a `Start`, `Write` or `Clear` of the contract on what
clients see, or not seen (`CreateServes`, `SaveServes`); the delete of `session_end` is `End`
(`DeleteServes`); purges, expired loads and the other steps show nothing (`ReapUnseen`, `DropUnseen`,
`ReaperUnseen`) but perhaps the answer; the clock and a restart are `Tick` and `Crash`.

### SandboxProofs

- `DestroyedSandboxesStayHidden`, `AnsweredUploadsAreLoaded`, `SandboxGraphsAreConnected`,
  `TempFilesAreRemoved`, `SandboxesAreOfTheSession`, `EditsAreKept`: for any number of uploads, sessions
  and functions, any production graph and any documents.
- `UploadedCallsCanBeFollowed` (of `HybridTraversal`) if an upload has one document per file, and
  `CallsAreKeptCurrent` if moreover a function is defined in one file: both fail without (section 4).
- `TypeCorrect`, `LimitHolds`, `SearchHasUploads`: for any number of uploads, any documents and any limit.

The invariant is `IInv`: `Typed`; `Progressing`, what an upload has parsed and ingested at each of
its steps; `Owned`, that the uploads holding one box share its session id and the number of
destroys, and that the table leads to the box of the current number; `GoodBoxes`, that a box is
connected and has texts of its holders only; `Loaded`, that ingested documents are in the held box.
`Owned` carries the argument: a destroy raises the number, so every holder of the old box, however
long it goes on, is cut off from the table. The graph operations are covered by the lemmas
`LoadProdGrows`, `DefineGrows`, `IngestedGrows` and `RewireGrows`, each saying that an operation
keeps a box connected and adds texts of its own upload only; they compose along a step.

The properties of the content of a box are about the upload that is alone with it (`Alone`). `Edit` says
that the box is empty until it ingests, that what was said is what the box has, and that no name
that is going to be resolved is that of an uploaded function: this is why neither the pull nor the
boundary resolution reverts an edit. `Call` and `Lead` say of every call that a function has and makes
where it starts and leads; `Lead` has the way out that the callee has moved. From `Lead`, the search of
the traversal is compared with the calls along the distance, by well-founded induction.

`Sized` has the types and the chunks of every box, whichever upload fills it. That a document defines
finitely many functions is part of what a document is, and is what lets one count them: what `Embed` takes in
is all of a document or a part of the size of the room that is left (`PartOfSize`, `EmbedDoes`), and the other
operations keep the chunks. `Searchable` says of a box in use by one upload alone that the chunks of each file it
has ingested are those of the last document so far. It leans on `IInv` twice: a destroy empties a box
that an upload still holds, after which nothing is promised of it, and an upload that goes past the limit is
answered with an error. `NoTempFilesLeft`, `EdgesHaveNodes` and `ChunksWithinLimit` are properties that no run
repeats, since theorems state them.

### SearchCacheProofs

- `CacheTypeCorrect`: types.
- `InvalidationsLeaveFreshEntries`: for any number of searches and ingestion threads, an
  invalidation leaves no older result for its module in either tier, except what a search stored
  that had read the backends when it ran. `FreshInv` states it for the tiers and for what searches
  still carry, and says of a thread between its two removals that the LRU tier already satisfies it
  for the version that thread has written. The exception is exactly the stale answer of section 4.
- `RequestsGetFreshAnswers`: what this means for clients. A request about a module is not answered from
  either tier with data older than the last invalidation before it, whatever counts as similar, with
  the same exception.
- `TiersStayBounded`: no order of insertions, hits, invalidations and shrinking configurations
  leaves a tier above its size. `Placed` says that the order numbers of entries are distinct,
  which is what makes "keep the n newest" keep at most n (`LeastOf`, `KeepRecentBounds`,
  `KeepNewestBounds`).

### GraphBuildProofs

- `TypeCorrect`: types, for any modules, projects, files and names.
- `NothingIsLeftOver`: for any modules, projects, files and contents, any edits and wherever runs die.
  The exceptions are those of the property, each of which section 4 describes.
- `SkippedStaysComplete`: with one project and one register header in all (`OneOfEach`), and any number
  of modules, source files and names. Section 4 says what two of either do.

`TypeInv` is `TypeOK` and `HashesKnown`: past its hashing step, a run has a hash for every file it
has read. Without it `Stamp` could write "no file" as a hash.

`LeftInv` follows a run from its plan to its stamps. `Hangs` and `HasNodes`: whatever is in the graph hangs on
its file, or the run that has created it is about to link it, and the file is there. `Emptied`: after the
cascade nothing is left of the files that were to be deleted, so that what they have afterwards is
what the run has read. `AsRead`: of the files that the run has read and not deleted, the graph has nothing
that is not read again, since their hash is unchanged; `ReadWhole` is what connects that hash with what
was read. `AsStamped` is the property for the files that no run is at work on. Each is kept by every step,
deaths of the run at any point included, because those raise `layered` or `orphaned` by what is half done.

`CompleteInv` says what a run has read, dropped and written at each of its steps (`Reads`, `Drops`,
`Writes`), and that stamped files are complete when the last build of either kind was not disturbed
(`Complete`). `Drops` is what the crash-safety of the builders rests on: from the cascade on, every file
that is still stamped is one the run has read, and stamps are written after all else.

### IngestionProofs

- `TypeCorrect`, `BatchIsOver`, `WritesAreAnnounced`, `CountedStaysStored`: for any number of threads,
  workers, modules and files, any contents and any size of the buffers.

`TypeInv` has what a thread has in hand at each step, and `Accounted`: the modules of a batch that wait,
are with a worker or are collected add up to its size. It has the batch property as a corner case. In
`WorkInv`, `Owed` says that whoever has written is at a step that leads to the announcement, and
`Stored` what of its file a thread has written so far, provided that no query has failed; that calls
are written after their functions holds for files whose calls fit into one buffer, as the property says.

The second part of the module is about `Incremental`, whose `IncSpec` is independent of the first:

- `IncTypeCorrect`: types, and that a state is pending while changes are processed.
- `NothingIsMissed`: for any files and histories of edits and commits, a file whose content is not the
  one processed last is going to be reported, except for the `disturbed` ones.

`Sound` has a claim for each phase: `Hashed` (what has not changed since the run began is hashed as it
stands), `Reported` (what differs from the baseline is reported, and what of it is processed stands in
the store), `Based` (between a committed run and the next, the baseline is what was processed) and
`Filed` (the state file is the baseline or torn). A crash needs the last two: the next run
starts from a baseline that is no newer than what was processed.

### BackupProofs

- `TypeCorrect`, `DumpIsExact`, `DumpHasStaying`, `ExportHasStaying`, `NoSilentLoss`, `RestoresExactly`, `NodesAreCounted`,
  `RestoreKeepsPoints`: for any graph, collections, sizes of pages and batches, failures and writes.

Those about dumps and restores are about the files of the fallback; of a restored APOC file anything may be
there. `RunInv` has a part for each of the first properties: what the dump still lacks are the labels not read
yet (`DumpInv`); a point that stays is in the export or has yet to come (`StayInv`); a dump that was made
is on disk, or in S3, or the run has failed (`LossInv`); a point of the export is yet to be written or
there (`ThereInv`). `RestoreIsExact` says that the restored graph is isomorphic to the dump. Its
invariant `ExactInv` speaks of a map from the statements that are done to the nodes they have created: it is
one to one and onto, in whatever order they ran, because a batch that failed was rolled back whole
before its statements are repeated. `Counts` is the same for numbers, with errors.

### ReviewGateProofs

- `AutoNeedsVerification`, `NothingGoesToFull`, `RoutingFollowsSignals`: of every combination of signals
  and measurements, numbers of any resolution and nulls included. Each weight bounds what its signal may
  add (`QualityAdds`, `RiskTakes`): AUTO needs 80 points of 100, so that each of the two verifications has
  to bring five of its 25, a fifth.
- `RoutingStaysCautious`: the same as an invariant of what the tool shows.
- `TypeCorrect`, `EvidenceIsThere`, `AnsweredIsKept`: for any number of responses, reports, threads,
  calls and failures.

`IInv` adds to the properties `KeptInv`: what the sink and the tables know of a feedback at each
step of its thread (`ThreadIsKept`), that ids of threads under way differ and that all were issued
(`IdsDiffer`, `IdsIssued`). With fresh ids no thread touches what another has recorded, which is
why one sink without a lock is enough: `TheOthersAreKept` and `KeptAfter` say so once for all steps.
The value `None` is assumed to be neither an id, nor a row, nor a sink.

### OrchestratorProofs

- `TypeCorrect`: types, with the limits on tries and steps.
- `TokensLast`, `FetchedWhenExpired`: for any number of runs and other users of the client, and however
  tokens age, end and are revoked.
- `PromptKeeps`: for any plan, its ids repeated, skipped or out of order, any sizes and budgets.
- `ContextIsBest`: for any list of candidates, any slots and their shares, any budget.

Two things are proved apart: what the pure operators compute, and that the threads keep to it.

`Build` and `Prompt` are folds, sorts and sums over lists of any length. The induction this needs is on
sets of numbers: a set that has 0 and, with each number below n, the next has all of them (`UpTo`, from
the least counterexample, `LeastOf`). From it follow that functions defined by their first value and a
step exist (`Recursion`) and that the folds and sums of the community modules are such functions
(`FoldExists`, `FoldIs`; `SumExists`, `AddsUp`), and that a finite set with an order can be sorted
(`SortExists`). Each fold then has an invariant over the elements it has passed:

- a prompt holds the first m answers whole and at most the next in part; those m fit, and m is all that
  were offered unless the next does not fit (`HoldsTo`, kept by `AdmitHolds`). Of the part that is cut,
  which is counted in characters, nothing is claimed;
- a selection is `Kept`: it names nothing twice and is `Best`, that is, nothing left out is better than
  something in its slot and no larger. Within a pass over a slot, `Past` adds that whatever was passed and
  not taken no longer fits, which is why a later, less relevant candidate that does fit is smaller
  (`TakeKeeps`). Nothing is used of the budgets but that they are numbers, so that it holds for both
  passes and whatever the redistribution gives (`RedistributedIs`); the cap drops a prefix of a row
  that rises in relevance, which cannot break it (`RestKeeps`).

`IInv` is `Shape` (types), `Guarded` (a call under way has a token that was handed out before its last
five minutes; whoever fetches has the lock, and the token it found is still expired) and `Local` for
each run: `Counts`, `Context` (what is built is built of what was found), `Heard` (a step that is done is
answered by itself, or by a later step with its id) and `Shown` (what is asked of the model last holds a
prefix of these answers). `Guarded` is where threads meet: only the holder of the lock replaces the token, and
dropping the client (`Rejected`) takes nothing from calls that hold it. The steps of calls leave
what runs know alone (`CallStep`), so that one lemma covers `Local` for all of them.

### Only model-checked

- Liveness (`ExpiredSessionsGo`, `UploadsAnswered`, `JobsEnd`, `DifferingIsProcessed`, `RunsEnd`) rests on
  fairness and ENABLED, which are beyond what the prover does here.
- `ClosedRowMeansGone` holds where a delete cannot fail and an id is used once, as in
  `sessions_contract`: in Redis the delete of `session_end` can fail after the row is closed, and a session
  started again has the closed row of the one before (section 4).
- Every other property of a run is also a theorem. No run sends
  `extend_session`, which no tool calls; `LiveSessionsAreKept` allows it.

## 6. What is not modelled

- Sessions: the content of values; `get_context` and `get_session_summary`, which change nothing.
- Sandbox: document types other than C sources, which ingest in the same way; traces deeper than
  one; keyword and vector search; `shortest_path`; `HybridGraphService`, which only reads and patches rows of
  arbitrary Cypher.
- Cache: similarity itself, hit counters, and the semantic tier without its embedding model (it
  then stays empty).
- Graph builders: those of documents (Jama, test specifications, hardware manuals, architecture), which
  are plans of a single key; batches; several register headers of one module; the content of nodes.
- Ingestion: `overwrite=True`; what discovery finds, up to its limit of a hundred files; calls across
  files, which are always lost; `batch_ingestion.py`.
- Backup: indexes (statements about them count by their failures only), what APOC's statements create; the S3 client; several profiles; runs at the same time.
- Orchestrator: `should_use_rlm`, the progress it streams, wording of prompts.
- Review gate: the parsers of result files, `override_review_routing`, which changes nothing, analytics
  and metrics, which only read, and the weights of GEST, which no tool uses.
- Semantic memory: retrieval, `increment_usage` and the few-shot library, which nothing in the
  server calls.
- The tools of `SRV` that only read (search variants, knowledge intelligence, health,
  visualisation); the pipelines, retrieval scripts and parsers, whose data is all there is to them;
  transport, documentation pages, configuration, metrics, traces.
- Authentication decides one request from configuration.

The map covers a small part of the lines of the repository: most of them are parsers, Cypher, prompts and
offline drivers without state of their own.

## 7. The plan

Sessions, sandbox, cache, graph builders, ingestion, incremental ingestion, backup, orchestrator and
review gate are done. What is left:

1. `Singletons` (lazy construction by warm-up threads and the loop, rate limits per pod), `Retries`
   (the connectors' loops and token refresh), `BatchIngestion` if the server comes to use it.
