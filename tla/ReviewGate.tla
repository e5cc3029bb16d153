----------------------------- MODULE ReviewGate -----------------------------
(***************************************************************************)
(* The review tools of one server (mcp_server.py: evaluate_confidence,     *)
(* submit_human_feedback, complete_review, process_results), the           *)
(* FeedbackSink they share (src/ReviewGate/confidence.py), the             *)
(* ResultProcessor and the stores they write: Postgres, the patterns in    *)
(* Qdrant and the graph's test results.                                    *)
(*                                                                         *)
(* evaluate_confidence and complete_review hold the event loop; the other  *)
(* two go on in worker threads, one write after the other.  A failed       *)
(* statement of Postgres is logged and forgotten.  A request from a        *)
(* session with a sandbox is refused before it changes anything.           *)
(***************************************************************************)
EXTENDS Confidence, Sequences

CONSTANTS Responses,    \* ids of generated responses
          Reported,     \* ids under which failing tests are reported
          Reports,      \* parsed result files: sequences of failing tests, or None
          Threads,      \* worker threads
          Reviewed,     \* signals that evaluate_confidence is called with
          Decisions,    \* what a reviewer may write
          Builders,     \* how the sink comes to its stores: "server", "injected"
          MaxRequests,  \* bound: tool calls
          MaxMishaps    \* bound: failed statements, failing stores and restarts

\* A row of response_archive: its routing, or None in a row made for a review.
Rows == [routing : {"AUTO", "QUICK", "FULL", None}]

ValidDecisions == {"APPROVE", "APPROVE_WITH_EDITS", "REJECT", "ESCALATE"}
Approvals == {"APPROVE", "APPROVE_WITH_EDITS"}

\* What a FeedbackSink holds: its stores, and ids of what was submitted.
SinkStates ==
  [store : BOOLEAN, index : BOOLEAN,
   feedbacks : SUBSET [id : Nat, decision : ValidDecisions],
   failures : SUBSET Nat, approved : SUBSET [id : Nat, stored : BOOLEAN], reviews : SUBSET Nat]

ASSUME ReviewAssumption ==
    /\ Reviewed \subseteq Signals
    /\ Reports \subseteq Seq(Reported \cup {None})
    /\ Builders \subseteq {"server", "injected"}
    /\ None \notin Responses \cup Reported
    /\ None \notin Rows /\ None \notin SinkStates
    /\ {MaxRequests, MaxMishaps} \subseteq Nat

VARIABLES available,  \* Postgres answered when this process first needed it
          sink,       \* the FeedbackSink of the process, or None
          pc, call,   \* of each thread: where it is, and the request it serves
          archive,    \* response_archive: of each response its routing, or None
          evidence,   \* review_evidence: <<review, response>>
          feedback,   \* feedback_records: ids
          failed,     \* failure_patterns: ids of the feedback they came from
          patterns,   \* points of the Qdrant collection, by feedback id
          results,    \* TestResult nodes: <<request, position>>
          shown,      \* the last signals that were scored, and their routing
          issued, mishaps,
          closed,     \* history: <<review, response>> of completed reviews
          unsaved,    \* history: ids whose statement failed or had no Postgres
          answers     \* history: answered feedback of this process

postgres == <<archive, evidence, feedback, failed>>
stores   == <<patterns, results>>
history  == <<closed, unsaved, answers>>
vars == <<available, sink, pc, call, postgres, stores, shown, issued, mishaps, history>>

\* A statement fails, or a store raises.
Mishap == mishaps < MaxMishaps /\ mishaps' = mishaps + 1
Request == issued < MaxRequests

(***************************************************************************)
(* The sink                                                                *)
(***************************************************************************)

\* _get_feedback_sink gives PatternStore a driver and an embedder; a
\* constructor raises unless it is given all it requires and nothing else.
StoreParams == {"embedder", "collection", "qdrant_url", "qdrant_api_key", "_client"}
IndexParams == {"qdrant_url", "embedder", "collection", "_client"}
Constructs(given, required, params) == required \subseteq given /\ given \subseteq params
StoreGiven == {"neo4j_driver", "embedder"}
IndexGiven == {"qdrant_url", "embedder"}
StoreBuilt == Constructs(StoreGiven, {"embedder", "collection"}, StoreParams)
IndexBuilt == Constructs(IndexGiven, {"qdrant_url", "embedder", "collection"}, IndexParams)

\* With Neo4j and Qdrant at hand; the exception of the first skips the second.
Wiring(builder) ==
  IF builder = "server"
  THEN [store |-> StoreBuilt, index |-> StoreBuilt /\ IndexBuilt]
  ELSE [store |-> TRUE, index |-> TRUE]

NewSinks ==
  {[store |-> Wiring(b).store, index |-> Wiring(b).index, feedbacks |-> {},
    failures |-> {}, approved |-> {}, reviews |-> {}] : b \in Builders}
\* The sink that a handler gets: the one there is, or a new one.
Sinks == IF sink = None THEN NewSinks ELSE {sink}

(***************************************************************************)
(* The event loop                                                          *)
(***************************************************************************)

Placeholder == [routing |-> None]

\* evaluate_confidence: score, then archive unless the response is there already.
Evaluate(r, sig) ==
  /\ Request
  /\ issued' = issued + 1
  /\ shown' = [signals |-> sig, type |-> ReviewType(sig)]
  /\ \/ /\ archive' = IF available /\ archive[r] = None
                      THEN [archive EXCEPT ![r] = [routing |-> ReviewType(sig)]] ELSE archive
        /\ UNCHANGED mishaps
     \/ available /\ Mishap /\ UNCHANGED archive
  /\ UNCHANGED <<available, sink, pc, call, evidence, feedback, failed, stores, history>>

\* Variant: save_review_evidence leaves the archive to evaluate_confidence.
RowLeft(r) == archive
\* review_evidence references response_archive: the row is made if need be.
RowEnsured(r) ==
  IF archive[r] = None THEN [archive EXCEPT ![r] = Placeholder] ELSE archive

\* complete_review: any decision, any number of times.
CompleteReview(r) ==
  /\ Request
  /\ issued' = issued + 1
  /\ \E s \in Sinks : sink' = [s EXCEPT !.reviews = @ \cup {issued'}]
  /\ closed' = closed \cup {<<issued', r>>}
  /\ \/ /\ available
        /\ archive' = RowEnsured(r)
        /\ evidence' = IF archive'[r] = None THEN evidence ELSE evidence \cup {<<issued', r>>}
        /\ UNCHANGED <<mishaps, unsaved>>
     \/ /\ available
        /\ Mishap
        /\ archive' \in {archive, RowEnsured(r)}
        /\ unsaved' = unsaved \cup {issued'}
        /\ UNCHANGED evidence
     \/ /\ ~available
        /\ unsaved' = unsaved \cup {issued'}
        /\ UNCHANGED <<archive, evidence, mishaps>>
  /\ UNCHANGED <<available, pc, call, feedback, failed, stores, shown, answers>>

Idle == [id |-> 0, resp |-> None, decision |-> None, context |-> FALSE, module |-> FALSE,
         stored |-> FALSE, indexed |-> FALSE, todo |-> <<>>, learn |-> FALSE]

\* submit_human_feedback: the rest is for a worker thread.
SubmitFeedback(t, r, d, c, m) ==
  /\ Request
  /\ pc[t] = "idle"
  /\ issued' = issued + 1
  /\ sink' \in Sinks
  /\ call' = [call EXCEPT ![t] = [Idle EXCEPT !.id = issued', !.resp = r, !.decision = d,
                                              !.context = c, !.module = m]]
  /\ pc' = [pc EXCEPT ![t] = "record"]
  /\ UNCHANGED <<available, postgres, stores, shown, mishaps, history>>

\* process_results with the files it finds and parses.
ProcessResults(t, report, learn, update) ==
  /\ Request
  /\ pc[t] = "idle"
  /\ issued' = issued + 1
  /\ sink' \in Sinks
  /\ call' = [call EXCEPT ![t] = [Idle EXCEPT !.id = issued', !.todo = report, !.learn = learn]]
  /\ pc' = [pc EXCEPT ![t] = IF update /\ report # <<>> THEN "graph" ELSE "next"]
  /\ UNCHANGED <<available, postgres, stores, shown, mishaps, history>>

(***************************************************************************)
(* ResultProcessor.process in its thread                                   *)
(***************************************************************************)

\* One UNWIND for all results; each call makes nodes of its own, whatever was
\* processed before.
UpdateGraph(t) ==
  /\ pc[t] = "graph"
  /\ \/ results' = results \cup {<<call[t].id, i>> : i \in 1 .. Len(call[t].todo)} /\ UNCHANGED mishaps
     \/ Mishap /\ UNCHANGED results
  /\ pc' = [pc EXCEPT ![t] = "next"]
  /\ UNCHANGED <<available, sink, call, postgres, patterns, shown, issued, history>>

\* The next failing test is fed back as a rejection; a passing one (None) is not.
NextFailure(t) ==
  /\ pc[t] = "next"
  /\ LET todo == call[t].todo IN
     IF todo = <<>> \/ ~call[t].learn
     THEN /\ pc' = [pc EXCEPT ![t] = "idle"]
          /\ call' = [call EXCEPT ![t] = Idle]
          /\ UNCHANGED issued
     ELSE IF Head(todo) = None
     THEN /\ call' = [call EXCEPT ![t].todo = Tail(todo)]
          /\ UNCHANGED <<pc, issued>>
     ELSE /\ issued' = issued + 1
          /\ call' = [call EXCEPT ![t] = [Idle EXCEPT !.id = issued', !.resp = Head(todo),
                                            !.decision = "REJECT", !.todo = Tail(todo), !.learn = TRUE]]
          /\ pc' = [pc EXCEPT ![t] = "record"]
  /\ UNCHANGED <<available, sink, postgres, stores, shown, mishaps, history>>

(***************************************************************************)
(* FeedbackSink.submit_feedback in its thread                              *)
(***************************************************************************)

Approved(t) == call[t].decision \in Approvals
Entry(t) == [id |-> call[t].id, decision |-> call[t].decision]

\* An unknown decision raises before anything is recorded.
Record(t) ==
  /\ pc[t] = "record"
  /\ IF call[t].decision \in ValidDecisions
     THEN /\ sink' = [sink EXCEPT !.feedbacks = @ \cup {Entry(t)}]
          /\ pc' = [pc EXCEPT ![t] = "save"]
          /\ UNCHANGED call
     ELSE /\ pc' = [pc EXCEPT ![t] = "idle"]
          /\ call' = [call EXCEPT ![t] = Idle]
          /\ UNCHANGED sink
  /\ UNCHANGED <<available, postgres, stores, shown, issued, mishaps, history>>

SaveFeedback(t) ==
  /\ pc[t] = "save"
  /\ \/ available /\ feedback' = feedback \cup {call[t].id} /\ UNCHANGED <<mishaps, unsaved>>
     \/ available /\ Mishap /\ unsaved' = unsaved \cup {call[t].id} /\ UNCHANGED feedback
     \/ ~available /\ unsaved' = unsaved \cup {call[t].id} /\ UNCHANGED <<feedback, mishaps>>
  /\ pc' = [pc EXCEPT ![t] = IF Approved(t) /\ call[t].context THEN "store" ELSE "track"]
  /\ UNCHANGED <<available, sink, call, archive, evidence, failed, stores, shown, issued, closed, answers>>

\* PatternStore.store: an upsert under the pattern's own id.
StorePattern(t) ==
  /\ pc[t] = "store"
  /\ \/ /\ sink.store
        /\ patterns' = patterns \cup {call[t].id}
        /\ call' = [call EXCEPT ![t].stored = TRUE]
        /\ UNCHANGED mishaps
     \/ sink.store /\ Mishap /\ UNCHANGED <<patterns, call>>
     \/ ~sink.store /\ UNCHANGED <<patterns, call, mishaps>>
  /\ pc' = [pc EXCEPT ![t] = "index"]
  /\ UNCHANGED <<available, sink, postgres, results, shown, issued, history>>

Indexable(t) == sink.index /\ call[t].module /\ call[t].stored
\* PatternIndex.index_pattern: the same upsert, in the same collection.
IndexPattern(t) ==
  /\ pc[t] = "index"
  /\ \/ /\ Indexable(t)
        /\ patterns' = patterns \cup {call[t].id}
        /\ call' = [call EXCEPT ![t].indexed = TRUE]
        /\ UNCHANGED mishaps
     \/ Indexable(t) /\ Mishap /\ UNCHANGED <<patterns, call>>
     \/ ~Indexable(t) /\ UNCHANGED <<patterns, call, mishaps>>
  /\ pc' = [pc EXCEPT ![t] = "track"]
  /\ UNCHANGED <<available, sink, postgres, results, shown, issued, history>>

\* The answer; a feedback of process_results goes back to its loop.
Answered(t) ==
  /\ answers' = answers \cup {[id |-> call[t].id, decision |-> call[t].decision,
                               context |-> call[t].context,
                               stored |-> call[t].stored, indexed |-> call[t].indexed]}
  /\ pc' = [pc EXCEPT ![t] = "next"]

\* Variant: what is not approved is taken for a failure.
TrackedOrFailed(t) ==
  IF Approved(t)
  THEN [sink EXCEPT !.approved = @ \cup {[id |-> call[t].id, stored |-> call[t].stored]}]
  ELSE [sink EXCEPT !.failures = @ \cup {call[t].id}]
\* The lists that the metrics and the failure patterns are read from.
Tracked(t) ==
  IF Approved(t)
  THEN [sink EXCEPT !.approved = @ \cup {[id |-> call[t].id, stored |-> call[t].stored]}]
  ELSE IF call[t].decision = "REJECT" THEN [sink EXCEPT !.failures = @ \cup {call[t].id}]
  ELSE sink
Track(t) ==
  /\ pc[t] = "track"
  /\ sink' = Tracked(t)
  /\ IF call[t].decision = "REJECT" /\ available
     THEN pc' = [pc EXCEPT ![t] = "savefailure"] /\ UNCHANGED answers
     ELSE Answered(t)
  /\ UNCHANGED <<available, call, postgres, stores, shown, issued, mishaps, closed, unsaved>>

SaveFailure(t) ==
  /\ pc[t] = "savefailure"
  /\ \/ failed' = failed \cup {call[t].id} /\ UNCHANGED <<mishaps, unsaved>>
     \/ Mishap /\ unsaved' = unsaved \cup {call[t].id} /\ UNCHANGED failed
  /\ Answered(t)
  /\ UNCHANGED <<available, sink, call, archive, evidence, feedback, stores, shown, issued, closed>>

(***************************************************************************)
(* The process                                                             *)
(***************************************************************************)

\* The server restarts: the sink and the threads are gone, the stores stay.
Restart ==
  /\ Mishap
  /\ available' \in BOOLEAN
  /\ sink' = None
  /\ pc' = [t \in Threads |-> "idle"]
  /\ call' = [t \in Threads |-> Idle]
  /\ answers' = {}
  /\ UNCHANGED <<postgres, stores, shown, issued, closed, unsaved>>

Init ==
  /\ available \in BOOLEAN
  /\ sink = None
  /\ pc = [t \in Threads |-> "idle"]
  /\ call = [t \in Threads |-> Idle]
  /\ archive = [r \in Responses |-> None]
  /\ evidence = {} /\ feedback = {} /\ failed = {}
  /\ patterns = {} /\ results = {}
  /\ shown = None
  /\ issued = 0 /\ mishaps = 0
  /\ closed = {} /\ unsaved = {} /\ answers = {}

ThreadStep(t) ==
  \/ UpdateGraph(t) \/ NextFailure(t) \/ Record(t) \/ SaveFeedback(t)
  \/ StorePattern(t) \/ IndexPattern(t) \/ Track(t) \/ SaveFailure(t)

Next ==
  \/ \E r \in Responses, sig \in Reviewed : Evaluate(r, sig)
  \/ \E r \in Responses : CompleteReview(r)
  \/ \E t \in Threads, r \in Responses, d \in Decisions, c, m \in BOOLEAN :
       SubmitFeedback(t, r, d, c, m)
  \/ \E t \in Threads, report \in Reports, learn, update \in BOOLEAN :
       ProcessResults(t, report, learn, update)
  \/ \E t \in Threads : ThreadStep(t)
  \/ Restart

Spec == Init /\ [][Next]_vars

(***************************************************************************)
(* Properties                                                              *)
(***************************************************************************)

Places == {"idle", "graph", "next", "record", "save", "store", "index", "track", "savefailure"}
Calls ==
  [id : Nat, resp : Responses \cup Reported \cup {None},
   decision : Decisions \cup {"REJECT", None}, context : BOOLEAN, module : BOOLEAN,
   stored : BOOLEAN, indexed : BOOLEAN, todo : Seq(Reported \cup {None}), learn : BOOLEAN]
Answers ==
  [id : Nat, decision : ValidDecisions, context : BOOLEAN, stored : BOOLEAN, indexed : BOOLEAN]

TypeOK ==
  /\ available \in BOOLEAN
  /\ sink \in SinkStates \cup {None}
  /\ pc \in [Threads -> Places] /\ call \in [Threads -> Calls]
  /\ archive \in [Responses -> Rows \cup {None}]
  /\ evidence \subseteq Nat \X Responses /\ closed \subseteq Nat \X Responses
  /\ feedback \subseteq Nat /\ failed \subseteq Nat /\ patterns \subseteq Nat
  /\ results \subseteq Nat \X Nat /\ unsaved \subseteq Nat
  /\ issued \in Nat /\ mishaps \in Nat
  /\ answers \subseteq Answers

\* No combination of signals, numeric ones and nulls included, routes an answer
\* to AUTO whose calls or call order are verified to less than a fifth, one
\* without merits anywhere but to FULL, or rewards a risk (confidence.py:
\* "assume failure until proven safe").
RoutingIsCautious ==
  shown # None =>
    /\ shown.type = "AUTO" =>
         Given(shown.signals, "api_verified") /\ Given(shown.signals, "call_order_valid")
    /\ NothingIsFull(shown.signals)
    /\ RoutingIsMonotone(shown.signals)

\* A completed review has its evidence, although nobody archived the response
\* it refers to; only a failed or missing Postgres may lose it ("ensure
\* response_archive row exists (FK constraint)").
ReviewsHaveEvidence ==
  /\ \A c \in closed : c \in evidence \/ c[1] \in unsaved
  /\ \A e \in evidence : archive[e[2]] # None

Kept(a) ==
  /\ [id |-> a.id, decision |-> a.decision] \in sink.feedbacks
  /\ a.decision = "REJECT" <=> a.id \in sink.failures
  /\ a.decision \in Approvals <=> [id |-> a.id, stored |-> a.stored] \in sink.approved
  /\ a.id \in unsaved \/ (a.id \in feedback /\ (a.decision = "REJECT" => a.id \in failed))
  /\ a.stored \/ a.indexed => a.id \in patterns

\* What a reviewer is told is so: a feedback that was answered is in the sink,
\* in the list that its decision belongs to and in Postgres, and its pattern
\* is in Qdrant when the answer says so, however threads and failures interleave.
FeedbackIsKept == \A a \in answers : Kept(a)

\* An approved response whose text came along becomes a pattern, unless a store
\* failed (DOCUMENTATION.md 777: "APPROVE decisions are stored as ApprovedPattern
\* nodes in Neo4j and indexed in Qdrant for future similarity matching").
ApprovalsAreLearned ==
  \A a \in answers : a.decision = "APPROVE" /\ a.context /\ mishaps = 0 => a.id \in patterns
=============================================================================
