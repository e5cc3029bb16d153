------------------------------- MODULE Ingestion -------------------------------
(***************************************************************************)
(* IngestionService of ingestion_service.py: ingest_file, ingest_module and  *)
(* batch_ingest, their jobs in the IngestionJobTracker, the Neo4jBatchWriter  *)
(* and the event that lets the server invalidate its search cache.           *)
(*                                                                         *)
(* Every call runs in a thread of the server; batch_ingest has a pool of its  *)
(* own.  Threads interleave where they leave the process: to parse a file, to *)
(* run one query or the ILLD pipeline, to call back.                        *)
(*                                                                         *)
(* A file is the sequence of what the writer is given for it: <<function,     *)
(* None>> for a node and <<caller, callee>> for a relationship.              *)
(***************************************************************************)
EXTENDS Integers, Sequences, FiniteSets

CONSTANTS
  Threads,       \* of the server
  Batchers,      \* bound: those of them that may run a batch
  Modules, Files, Functions,
  FilesOf,       \* FilesOf[m]: what _discover_module_files finds, in order
  Found,         \* Found[f]: what stands in file f
  Threshold,     \* NEO4J_BATCH_FLUSH_THRESHOLD
  MaxWorkers,    \* of a batch
  None,
  MaxCalls,      \* bound: calls of the service
  MaxFailures    \* bound: failing queries, parsers and pipelines and missing roots

\* The threads of the server and the workers of the batches they run.
Actors == (Threads \X {0}) \cup (Batchers \X (1 .. MaxWorkers))
Pool(b) == {<<b[1], i>> : i \in 1 .. MaxWorkers}
Servers == Threads \X {0}
Levels == {"file", "module", "batch"}

ASSUME FilesAssumption ==
  /\ None \notin Modules \cup Files \cup Functions /\ IsFiniteSet(Modules)
  /\ FilesOf \in [Modules -> Seq(Files)]
  /\ Found \in [Files -> Seq(Functions \X (Functions \cup {None}))]
ASSUME BoundsAssumption ==
  /\ Threshold \in Nat \ {0} /\ MaxWorkers \in Nat \ {0}
  /\ Batchers \subseteq Threads /\ MaxCalls \in Nat /\ MaxFailures \in Nat

VARIABLES
  thread,       \* what each thread is doing
  jobs,         \* the last job of each kind a thread has worked on
  nodes,        \* <<module, function>> in the graph
  edges,        \* <<module, caller, callee>> in the graph
  unannounced,  \* modules written to since they were last announced (history)
  aborted,      \* modules whose ILLD pipeline has raised (history)
  calls, failures

graph == <<nodes, edges, unannounced, aborted>>
vars == <<thread, jobs, graph, calls, failures>>

NoJob == [status |-> "none", progress |-> 0, mod |-> None, file |-> None, counted |-> FALSE]
\* pending are the items in the writer's two buffers, broken says that a query
\* has failed; part counts the files of a module or the modules of a batch.
Free == [at |-> "free", file |-> None, mod |-> None, whole |-> FALSE, illd |-> FALSE,
         part |-> 0, next |-> 1, pending |-> {}, broken |-> FALSE, rest |-> {}, total |-> 0]

Init ==
  /\ thread = [a \in Actors |-> Free]
  /\ jobs = [j \in Actors \X Levels |-> NoJob]
  /\ nodes = {} /\ edges = {}
  /\ unannounced = {} /\ aborted = {}
  /\ calls = 0 /\ failures = 0

Become(a, r) == thread' = [thread EXCEPT ![a] = r]
Go(a, step) == thread' = [thread EXCEPT ![a].at = step]
SetJob(a, level, status, progress) ==
  jobs' = [jobs EXCEPT ![<<a, level>>].status = status, ![<<a, level>>].progress = progress]

FilesIn(a) == FilesOf[thread[a].mod]

NewCall(a) ==
  /\ a \in Servers /\ thread[a].at = "free"
  /\ calls < MaxCalls /\ calls' = calls + 1
\* What leaves the process fails at any time.
Fails == failures < MaxFailures /\ failures' = failures + 1

(***************************************************************************)
(* ingest_file                                                             *)
(***************************************************************************)

\* A worker's result waits for the batch, a call of the server just returns.
Returned(a) == IF a \in Servers THEN Free ELSE [Free EXCEPT !.at = "returned"]

BeginFile(a, f, r) ==
  /\ Become(a, [r EXCEPT !.at = "parse", !.file = f, !.next = 1, !.pending = {},
                         !.broken = FALSE])
  /\ jobs' = [jobs EXCEPT ![<<a, "file">>] =
                [NoJob EXCEPT !.status = "processing", !.progress = 10, !.mod = r.mod,
                              !.file = f]]

IngestFile(a, f, m) ==
  /\ NewCall(a)
  /\ BeginFile(a, f, [Free EXCEPT !.mod = m])
  /\ UNCHANGED <<graph, failures>>

\* ingest_module goes on with the next file, whether this one failed or not.
AfterFile(a) == IF thread[a].whole
                THEN [thread[a] EXCEPT !.at = "files", !.file = None, !.part = @ + 1]
                ELSE Returned(a)
\* The file's job, and the progress of the module's.
EndFileJob(a, status) ==
  jobs' = [j \in Actors \X Levels |->
    IF j = <<a, "file">> THEN [jobs[j] EXCEPT !.status = status]
    ELSE IF j = <<a, "module">> /\ thread[a].whole
    THEN [jobs[j] EXCEPT !.progress = 10 + (80 * (thread[a].part + 1)) \div Len(FilesIn(a))]
    ELSE jobs[j]]

\* Variant: an exception of the parser is not noted in the job.
ParseUnnoted(a) ==
  /\ thread[a].at = "parse"
  /\ \/ /\ Go(a, "write")
        /\ jobs' = [jobs EXCEPT ![<<a, "file">>].progress = 50]
        /\ UNCHANGED failures
     \/ /\ Fails
        /\ Become(a, AfterFile(a))
        /\ UNCHANGED jobs
  /\ UNCHANGED <<graph, calls>>

Parse(a) ==
  /\ thread[a].at = "parse"
  /\ \/ /\ Go(a, "write")
        /\ jobs' = [jobs EXCEPT ![<<a, "file">>].progress = 50]
        /\ UNCHANGED failures
     \/ /\ Fails
        /\ Become(a, AfterFile(a))
        /\ EndFileJob(a, "failed")
  /\ UNCHANGED <<graph, calls>>

(***************************************************************************)
(* _write_to_kg and Neo4jBatchWriter                                       *)
(***************************************************************************)

Item(a, i) == Found[thread[a].file][i]
NodesIn(a, items) == {i \in items : Item(a, i)[2] = None}
RelsIn(a, items) == items \ NodesIn(a, items)

\* One UNWIND query each: nodes are merged, relationships MATCH both ends.
StoreNodes(a, items) ==
  /\ nodes' = nodes \cup {<<thread[a].mod, Item(a, i)[1]>> : i \in NodesIn(a, items)}
  /\ unannounced' = unannounced \cup {thread[a].mod : i \in NodesIn(a, items)}
  /\ UNCHANGED <<edges, aborted>>
StoreRels(a, items) ==
  LET m == thread[a].mod IN
  /\ edges' = edges \cup {<<m, Item(a, i)[1], Item(a, i)[2]>> :
                i \in {j \in RelsIn(a, items) : \A k \in {1, 2} : <<m, Item(a, j)[k]>> \in nodes}}
  /\ unannounced' = unannounced \cup {m : i \in RelsIn(a, items)}
  /\ UNCHANGED <<nodes, aborted>>

\* add_node and add_relationship flush the buffer an item goes to when it is full.
Unread(a) == thread[a].next .. Len(Found[thread[a].file])
Buffered(a, i) ==
  LET read == thread[a].pending \cup (thread[a].next .. i) IN
  IF Item(a, i)[2] = None THEN NodesIn(a, read) ELSE RelsIn(a, read)
Fill(a) == {i \in Unread(a) : Cardinality(Buffered(a, i)) >= Threshold}

\* The loop over the items, up to the next query.  One that fails leaves its
\* buffer as it is, and the loop.
Write(a) ==
  LET i == CHOOSE k \in Fill(a) : \A j \in Fill(a) : k <= j
      full == Buffered(a, i)
      read == thread[a].pending \cup (thread[a].next .. i)
      r == [thread[a] EXCEPT !.next = i + 1]
  IN
  /\ thread[a].at = "write" /\ Fill(a) # {}
  /\ \/ /\ Become(a, [r EXCEPT !.pending = read \ full])
        /\ IF Item(a, i)[2] = None THEN StoreNodes(a, full) ELSE StoreRels(a, full)
        /\ UNCHANGED failures
     \/ /\ Fails
        /\ Become(a, [r EXCEPT !.pending = read, !.at = "exit", !.broken = TRUE])
        /\ UNCHANGED graph
  /\ UNCHANGED <<jobs, calls>>

\* __exit__ flushes what is still in the buffers, after an exception too.
Exiting(a) == \/ thread[a].at = "exit"
              \/ thread[a].at = "write" /\ Fill(a) = {}
Pending(a) == thread[a].pending \cup IF thread[a].at = "write" THEN Unread(a) ELSE {}
Broken(a) == /\ Fails
             /\ Become(a, [thread[a] EXCEPT !.at = "complete", !.broken = TRUE])
             /\ UNCHANGED graph

\* Variant: the relationships first.
ExitRelsFirst(a) ==
  /\ \/ /\ Exiting(a) /\ StoreRels(a, Pending(a))
        /\ Become(a, [thread[a] EXCEPT !.at = "exitRels", !.pending = Pending(a)])
        /\ UNCHANGED failures
     \/ /\ thread[a].at = "exitRels" /\ StoreNodes(a, thread[a].pending)
        /\ Go(a, "complete")
        /\ UNCHANGED failures
  /\ UNCHANGED <<jobs, calls>>

Exit(a) ==
  /\ \/ /\ Exiting(a) /\ StoreNodes(a, Pending(a))
        /\ Become(a, [thread[a] EXCEPT !.at = "exitRels",
                                       !.next = Len(Found[thread[a].file]) + 1,
                                       !.pending = RelsIn(a, Pending(a))])
        /\ UNCHANGED failures
     \/ /\ thread[a].at = "exitRels" /\ StoreRels(a, thread[a].pending)
        /\ Go(a, "complete")
        /\ UNCHANGED failures
     \/ Exiting(a) /\ NodesIn(a, Pending(a)) # {} /\ Broken(a)
     \/ thread[a].at = "exitRels" /\ thread[a].pending # {} /\ Broken(a)
  /\ UNCHANGED <<jobs, calls>>

\* Variant: whoever completes a job that counts nothing announces nothing.
CompleteSilently(a) ==
  /\ thread[a].at = "complete"
  /\ jobs' = [jobs EXCEPT ![<<a, "file">>] =
                [@ EXCEPT !.status = "completed", !.progress = 100,
                          !.counted = ~thread[a].broken]]
  /\ IF thread[a].broken THEN Become(a, Returned(a)) ELSE Go(a, "announce")
  /\ UNCHANGED <<graph, calls, failures>>

\* _write_to_kg swallows the exception: the job is completed all the same, and
\* counts 0 nodes and relationships.
Complete(a) ==
  /\ thread[a].at = "complete"
  /\ jobs' = [jobs EXCEPT ![<<a, "file">>] =
                [@ EXCEPT !.status = "completed", !.progress = 100,
                          !.counted = ~thread[a].broken]]
  /\ Go(a, "announce")
  /\ UNCHANGED <<graph, calls, failures>>

\* _fire_module_ingested: the callback is called.  If it raises that is logged, and
\* the thread goes on in the same way.
Announce(a) ==
  /\ thread[a].at = "announce"
  /\ unannounced' = unannounced \ {thread[a].mod}
  /\ IF thread[a].file # None
     THEN Become(a, AfterFile(a)) /\ EndFileJob(a, "completed")
     ELSE Become(a, Returned(a)) /\ UNCHANGED jobs
  /\ UNCHANGED <<nodes, edges, aborted, calls, failures>>

(***************************************************************************)
(* ingest_module                                                           *)
(***************************************************************************)

\* The job is created first; of a missing root it then raises.
BeginModule(a, m, illd, root, other) ==
  /\ thread' = [other EXCEPT ![a] =
       IF illd THEN [Free EXCEPT !.at = "pipeline", !.mod = m]
       ELSE IF root = "missing" THEN Returned(a)
       ELSE [Free EXCEPT !.at = "discover", !.mod = m, !.whole = TRUE]]
  /\ jobs' = [jobs EXCEPT ![<<a, "module">>] =
       [NoJob EXCEPT !.mod = m,
                     !.status = IF illd THEN "illd_pipeline_running"
                                ELSE IF root = "missing" THEN "queued" ELSE "discovering",
                     !.progress = IF illd THEN 10 ELSE 0]]
  /\ IF root = "missing" THEN Fails ELSE UNCHANGED failures

IngestModule(a, m, illd, root) ==
  /\ NewCall(a)
  /\ illd => root = "found"
  /\ BeginModule(a, m, illd, root, thread)
  /\ UNCHANGED graph

Discover(a) ==
  /\ thread[a].at = "discover"
  /\ Become(a, [thread[a] EXCEPT !.at = "files", !.part = 0])
  /\ SetJob(a, "module", "processing", 10)
  /\ UNCHANGED <<graph, calls, failures>>

NextFile(a) ==
  /\ thread[a].at = "files" /\ thread[a].part < Len(FilesIn(a))
  /\ BeginFile(a, FilesIn(a)[thread[a].part + 1], thread[a])
  /\ UNCHANGED <<graph, calls, failures>>

CompleteModule(a) ==
  /\ thread[a].at = "files" /\ thread[a].part = Len(FilesIn(a))
  /\ SetJob(a, "module", "completed", 100)
  /\ Go(a, "announce")
  /\ UNCHANGED <<graph, calls, failures>>

\* The ILLD pipeline writes the graph itself.  Its exception is nobody's.
PipelineEnds(a) ==
  /\ thread[a].at = "pipeline"
  /\ unannounced' = unannounced \cup {thread[a].mod}
  /\ \/ /\ Go(a, "announce")
        /\ SetJob(a, "module", "completed", 100)
        /\ UNCHANGED <<aborted, failures>>
     \/ /\ Fails
        /\ Become(a, Returned(a))
        /\ aborted' = aborted \cup {thread[a].mod}
        /\ UNCHANGED jobs
  /\ UNCHANGED <<nodes, edges, calls>>

(***************************************************************************)
(* batch_ingest                                                            *)
(***************************************************************************)

BatchIngest(b, ms, illd) ==
  /\ NewCall(b) /\ b[1] \in Batchers
  /\ Become(b, [Free EXCEPT !.at = "batch", !.illd = illd, !.rest = ms,
                            !.total = Cardinality(ms)])
  /\ jobs' = [jobs EXCEPT ![<<b, "batch">>] = [NoJob EXCEPT !.status = "queued"]]
  /\ UNCHANGED <<graph, failures>>

\* A worker takes the next module.
TakeModule(b, a, m, root) ==
  /\ thread[b].at = "batch" /\ a \in Pool(b) /\ thread[a].at = "free"
  /\ m \in thread[b].rest
  /\ thread[b].illd => root = "found"
  /\ BeginModule(a, m, thread[b].illd, root, [thread EXCEPT ![b].rest = @ \ {m}])
  /\ UNCHANGED <<graph, calls>>

\* as_completed; the worker may go on with another module before that.
Collect(b, a) ==
  LET done == thread[b].part + 1 IN
  /\ thread[b].at = "batch" /\ a \in Pool(b) /\ thread[a].at = "returned"
  /\ thread' = [thread EXCEPT ![b].part = done, ![a] = Free]
  /\ SetJob(b, "batch", "processing", (100 * done) \div thread[b].total)
  /\ UNCHANGED <<graph, calls, failures>>

\* Variant: once all modules are taken.
CompleteBatchEarly(b) ==
  /\ thread[b].at = "batch" /\ thread[b].rest = {}
  /\ SetJob(b, "batch", "completed", 100)
  /\ Become(b, Free)
  /\ UNCHANGED <<graph, calls, failures>>

CompleteBatch(b) ==
  /\ thread[b].at = "batch" /\ thread[b].part = thread[b].total
  /\ SetJob(b, "batch", "completed", 100)
  /\ Become(b, Free)
  /\ UNCHANGED <<graph, calls, failures>>

(***************************************************************************)
(* Specification                                                           *)
(***************************************************************************)

Roots == {"found", "missing"}
Step(a) ==
  \/ Parse(a) \/ Write(a) \/ Exit(a) \/ Complete(a) \/ Announce(a)
  \/ Discover(a) \/ NextFile(a) \/ CompleteModule(a) \/ PipelineEnds(a)
BatchStep(b) ==
  \/ \E a \in Actors, m \in Modules, root \in Roots : TakeModule(b, a, m, root)
  \/ \E a \in Actors : Collect(b, a)
  \/ CompleteBatch(b)
Call(a) ==
  \/ \E f \in Files, m \in Modules : IngestFile(a, f, m)
  \/ \E m \in Modules, illd \in BOOLEAN, root \in Roots : IngestModule(a, m, illd, root)
  \/ \E ms \in SUBSET Modules, illd \in BOOLEAN : BatchIngest(a, ms, illd)

Next == \E a \in Actors : Step(a) \/ BatchStep(a) \/ Call(a)

\* The system runs its threads; parsers, queries and pipelines end in the end.
Fairness == \A a \in Actors : WF_vars(Step(a) \/ BatchStep(a))
Spec == Init /\ [][Next]_vars /\ Fairness

(***************************************************************************)
(* Properties                                                              *)
(***************************************************************************)

Steps == {"free", "parse", "write", "exit", "exitRels", "complete", "announce", "discover",
          "files", "pipeline", "batch", "returned"}
Statuses == {"none", "queued", "discovering", "processing", "illd_pipeline_running",
             "completed", "failed"}
Thread ==
  [at : Steps, file : Files \cup {None}, mod : Modules \cup {None}, whole : BOOLEAN,
   illd : BOOLEAN, part : Nat, next : Nat \ {0}, pending : SUBSET Nat, broken : BOOLEAN,
   rest : SUBSET Modules, total : Nat]
Job == [status : Statuses, progress : 0 .. 100, mod : Modules \cup {None},
        file : Files \cup {None}, counted : BOOLEAN]

\* Every variable keeps its type; progress is a percentage.
TypeOK ==
  /\ thread \in [Actors -> Thread]
  /\ jobs \in [Actors \X Levels -> Job]
  /\ nodes \subseteq Modules \X Functions
  /\ edges \subseteq Modules \X Functions \X Functions
  /\ unannounced \subseteq Modules /\ aborted \subseteq Modules
  /\ calls \in 0 .. MaxCalls /\ failures \in 0 .. MaxFailures

Counted == {j \in {jobs[<<a, "file">>] : a \in Actors} : j.status = "completed" /\ j.counted}
FunctionsIn(f) == {Found[f][i][1] : i \in {j \in DOMAIN Found[f] : Found[f][j][2] = None}}
CallsIn(f) == {Found[f][i] : i \in {j \in DOMAIN Found[f] : Found[f][j][2] # None}}
NumberOfCalls(f) == Cardinality({j \in DOMAIN Found[f] : Found[f][j][2] # None})

\* Every function of the file, however many queries that took and whichever were
\* repeated.
FunctionsAreStored(j) ==
  \A fn \in FunctionsIn(j.file) : <<j.mod, fn>> \in nodes

\* Every call between two functions of the file, as long as the calls fit into
\* one buffer.
CallsAreStored(j) ==
  NumberOfCalls(j.file) < Threshold =>
    \A c \in CallsIn(j.file) :
      c[1] \in FunctionsIn(j.file) /\ c[2] \in FunctionsIn(j.file)
        => <<j.mod, c[1], c[2]>> \in edges

\* A file job that ends and counts what it has written has stored it.
CountedIsStored == \A j \in Counted : FunctionsAreStored(j) /\ CallsAreStored(j)

\* What is written to a module is announced, so that no stale answer stays in the
\* search cache: somebody is still at work on the module, or its pipeline raised.
WrittenIsAnnounced ==
  \A m \in unannounced : m \in aborted \/ \E a \in Actors : thread[a].mod = m

\* When a batch is completed none of its modules is still being written.
CompletedBatchIsOver ==
  \A b \in Batchers \X {0} : thread[b].at # "batch" =>
    \A a \in Pool(b) : thread[a].at = "free"

\* The jobs of a call that are being processed end, in whatever way its queries,
\* its parser and its files end.  (One whose root is missing stays queued and one
\* whose pipeline raises stays illd_pipeline_running, for ever.)
InProcess(a) == \E level \in Levels : jobs[<<a, level>>].status \in {"discovering", "processing"}
JobsEnd == \A a \in Servers : InProcess(a) ~> ~InProcess(a)
=============================================================================
