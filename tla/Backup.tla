-------------------------------- MODULE Backup --------------------------------
(***************************************************************************)
(* The backup tools of one profile: snapshot_all.py with the dump of Neo4j   *)
(* and the export of Qdrant it calls, and restore.py, run by hand one after   *)
(* the other, while the server goes on writing to both stores.               *)
(*                                                                         *)
(* A step is one call of Neo4j, Qdrant or S3, or one page of a scroll.  Runs   *)
(* are numbered, in the role of the timestamps in file names.  Collections    *)
(* and points are integers, in the order of their names and ids.             *)
(***************************************************************************)
EXTENDS Integers, FiniteSets, FiniteSetsExt

CONSTANTS
  Ids,            \* Neo4j's internal ids, given again after a deletion
  Keys, Labels,
  LabelOf,        \* a node has one label
  Links,          \* the pairs of keys that ingestion may link
  Collections, Points,
  PageSize,       \* SCROLL_BATCH_SIZE and UPSERT_BATCH_SIZE
  BatchSize,      \* CYPHER_BATCH_SIZE
  None,
  MaxRuns,        \* bound: runs of the tools
  MaxWrites,      \* bound: writes of the server
  MaxFailures     \* bound: failing calls and killed runs

ASSUME BackupAssumption ==
  /\ Collections \subseteq Nat \ {0} /\ Points \subseteq Nat
  /\ LabelOf \in [Keys -> Labels] /\ Links \subseteq Keys \X Keys
  /\ None \notin Ids \cup Keys /\ IsFiniteSet(Ids)
  /\ {PageSize, BatchSize} \subseteq Nat \ {0}
  /\ {MaxRuns, MaxWrites, MaxFailures} \subseteq Nat

Runs == 1 .. MaxRuns
Places == {"disk", "s3"}

VARIABLES
  nodes,      \* nodes[i] is the key of the node with id i, or None
  mark,       \* mark[i] is its property _dump_id, or None
  rels,       \* rels[<<i, j>>] is the number of relationships from i to j
  points,     \* points[c] are the points of collection c, or NoCollection
  cmd,        \* the options of the current or the last run
  pc, w,      \* where it is and what it holds
  dumps,      \* dumps[r] is the .cypher file that run r wrote
  files,      \* files[place]: the dumps, and the newest export of each collection
  runs, writes, failures

graph == <<nodes, mark, rels>>
store == <<graph, points>>
vars == <<store, cmd, pc, w, dumps, files, runs, writes, failures>>

NoCollection == {-1}
NoExport == [run |-> 0, points |-> {}]
NoDump == [nodes |-> {}, rels |-> {}, marks |-> {}, apoc |-> FALSE]
Idle == [upload |-> FALSE, cleanup |-> FALSE, from |-> "disk", clear |-> FALSE]

\* left: what remains to be done of a phase, alone: statements that are tried
\* one by one; coll, got, offset: a collection's export or restore.
\* dumped, failed, keys: result's neo4j, errors and s3_keys; errors of a restore.
\* quiet, stayed, kept, lost are history: the graph has not been written to since
\* the run began; the nodes that have been there since a dump began; the points
\* that coll had when its export began, or that its restore is to write, and
\* nobody has deleted since; an answer got lost.
Fresh == [left |-> {}, alone |-> {}, source |-> 0, coll |-> 0, got |-> {}, offset |-> 0,
          dumped |-> FALSE, failed |-> FALSE, keys |-> FALSE, errors |-> 0,
          quiet |-> TRUE, stayed |-> {}, kept |-> {}, lost |-> FALSE]

Init ==
  /\ nodes \in [Ids -> Keys \cup {None}]
  /\ \A i, j \in Ids : nodes[i] = nodes[j] /\ nodes[i] # None => i = j
  /\ mark = [i \in Ids |-> None]
  /\ rels = [p \in Ids \X Ids |-> IF <<nodes[p[1]], nodes[p[2]]>> \in Links THEN 1 ELSE 0]
  /\ points \in [Collections -> {NoCollection, Points}]
  /\ cmd = Idle /\ pc = "free" /\ w = Fresh
  /\ dumps = [r \in Runs |-> NoDump]
  /\ files = [p \in Places |-> [dumps |-> {}, exports |-> [c \in Collections |-> NoExport]]]
  /\ runs = 0 /\ writes = 0 /\ failures = 0

Fails == failures < MaxFailures /\ failures' = failures + 1
Goto(step, work) == pc' = step /\ w' = work
Nodes(key) == {i \in Ids : nodes[i] = key}
Used == {i \in Ids : nodes[i] # None}
Existing == {c \in Collections : points[c] # NoCollection}

(***************************************************************************)
(* What the server does meanwhile.                                         *)
(***************************************************************************)
Writes == writes < MaxWrites /\ writes' = writes + 1
OnGraph(gone) == /\ w' = [w EXCEPT !.quiet = FALSE, !.stayed = @ \ gone]
                 /\ UNCHANGED <<points, cmd, pc, dumps, files, runs, failures>>
OnPoints == UNCHANGED <<graph, cmd, pc, dumps, files, runs, failures>>

MergeNode(key, i) ==
  /\ Writes /\ OnGraph({})
  /\ Nodes(key) = {} /\ nodes[i] = None
  /\ nodes' = [nodes EXCEPT ![i] = key]
  /\ UNCHANGED <<mark, rels>>

MergeLink(i, j) ==
  /\ Writes /\ OnGraph({})
  /\ <<nodes[i], nodes[j]>> \in Links /\ rels[<<i, j>>] = 0
  /\ rels' = [rels EXCEPT ![<<i, j>>] = 1]
  /\ UNCHANGED <<nodes, mark>>

DeleteNode(i) ==
  /\ Writes /\ OnGraph({<<i, nodes[i]>>})
  /\ nodes[i] # None
  /\ nodes' = [nodes EXCEPT ![i] = None]
  /\ mark' = [mark EXCEPT ![i] = None]
  /\ rels' = [p \in Ids \X Ids |-> IF i \in {p[1], p[2]} THEN 0 ELSE rels[p]]

UpsertPoint(c, p) ==
  /\ Writes /\ OnPoints
  /\ c \in Existing /\ p \notin points[c]
  /\ points' = [points EXCEPT ![c] = @ \cup {p}]
  /\ UNCHANGED w

DeletePoint(c, p) ==
  /\ Writes /\ OnPoints
  /\ p \in points[c]
  /\ points' = [points EXCEPT ![c] = @ \ {p}]
  /\ w' = [w EXCEPT !.kept = IF w.coll = c THEN @ \ {p} ELSE @]

Server ==
  \/ \E key \in Keys, i \in Ids : MergeNode(key, i)
  \/ \E i, j \in Ids : MergeLink(i, j)
  \/ \E i \in Ids : DeleteNode(i)
  \/ \E c \in Existing, p \in Points : UpsertPoint(c, p) \/ DeletePoint(c, p)

(***************************************************************************)
(* _dump_profile: the first row that APOC streams, or label by label.         *)
(***************************************************************************)
Run(options) ==
  /\ pc = "free" /\ runs < MaxRuns
  /\ runs' = runs + 1 /\ cmd' = options

NodeStatements(labels) ==
  {<<i, nodes[i]>> : i \in {k \in Used : LabelOf[nodes[k]] \in labels}}
End(i) == <<i, LabelOf[nodes[i]]>>
\* One statement per relationship; the number tells equal ones apart.
RelStatements ==
  UNION {{<<End(p[1]), End(p[2]), n>> : n \in 1 .. rels[p]} : p \in {q \in Ids \X Ids : rels[q] > 0}}
LabelsOf(statements) == {LabelOf[n[2]] : n \in statements}
\* The file ends with a REMOVE and a DROP INDEX for each label of its nodes.
File(statements, links) ==
  [nodes |-> statements, rels |-> links, marks |-> LabelsOf(statements), apoc |-> FALSE]
Image == File(NodeStatements(Labels), RelStatements)

WriteDump(r, dump) ==
  /\ dumps' = [dumps EXCEPT ![r] = dump]
  /\ files' = [files EXCEPT !["disk"].dumps = @ \cup {r}]
\* The beginnings of a file: nodes come before relationships.
Cut(dump, statements, links, labels) ==
  [dump EXCEPT !.nodes = statements, !.rels = links, !.marks = labels]
Prefixes(dump) ==
  {Cut(dump, statements, {}, {}) : statements \in SUBSET dump.nodes}
  \cup {Cut(dump, dump.nodes, links, {}) : links \in SUBSET dump.rels}
  \cup {Cut(dump, dump.nodes, dump.rels, labels) : labels \in SUBSET dump.marks}
\* APOC streams rows of statements of its own, of which result[0] is kept.
Streamed == {[part EXCEPT !.marks = {}, !.apoc = TRUE] : part \in Prefixes(Image)}

Snapshot(upload, cleanup) ==
  /\ Run([Idle EXCEPT !.upload = upload, !.cleanup = cleanup])
  /\ UNCHANGED <<store, writes>>
  /\ \/ /\ \E row \in Streamed : WriteDump(runs + 1, row)
        /\ \/ Goto("discover", [Fresh EXCEPT !.dumped = TRUE]) /\ UNCHANGED failures
           \/ Goto("discover", [Fresh EXCEPT !.failed = TRUE]) /\ Fails
     \/ \* APOC fails or is not installed
        /\ Goto("labels", [Fresh EXCEPT !.left = {LabelOf[nodes[i]] : i \in Used},
                                        !.stayed = NodeStatements(Labels)])
        /\ UNCHANGED <<dumps, files, failures>>
     \/ /\ Fails /\ Goto("discover", [Fresh EXCEPT !.failed = TRUE])
        /\ UNCHANGED <<dumps, files>>

\* Variant: the list of statements starts anew with each label.
DumpLabelAnew(label) ==
  /\ pc = "labels" /\ label \in w.left
  /\ w' = [w EXCEPT !.left = @ \ {label}, !.got = NodeStatements({label})]
  /\ UNCHANGED <<store, cmd, pc, dumps, files, runs, writes, failures>>

DumpLabel(label) ==
  /\ pc = "labels" /\ label \in w.left
  /\ w' = [w EXCEPT !.left = @ \ {label}, !.got = @ \cup NodeStatements({label})]
  /\ UNCHANGED <<store, cmd, pc, dumps, files, runs, writes, failures>>

DumpRels ==
  /\ pc = "labels" /\ w.left = {}
  /\ LET dump == File(w.got, RelStatements)
         after == [w EXCEPT !.got = {}]
     IN \/ /\ WriteDump(runs, dump) /\ UNCHANGED failures
           /\ Goto("discover", [after EXCEPT !.dumped = TRUE])
        \/ /\ Fails /\ \E part \in Prefixes(dump) : WriteDump(runs, part)
           /\ Goto("discover", [after EXCEPT !.failed = TRUE])
  /\ UNCHANGED <<store, cmd, runs, writes>>

DumpFails ==
  /\ pc = "labels" /\ Fails
  /\ Goto("discover", [Fresh EXCEPT !.failed = TRUE, !.quiet = w.quiet])
  /\ UNCHANGED <<store, cmd, dumps, files, runs, writes>>

(***************************************************************************)
(* export_profile: a collection that fails is skipped and not reported.     *)
(***************************************************************************)
Discover ==
  /\ pc = "discover"
  /\ \/ Goto("export", [w EXCEPT !.left = Existing]) /\ UNCHANGED failures
     \/ Goto("export", [w EXCEPT !.failed = TRUE]) /\ Fails
  /\ UNCHANGED <<store, cmd, dumps, files, runs, writes>>

BeginExport(c) ==
  /\ pc = "export" /\ c \in w.left
  /\ Goto("scroll", [w EXCEPT !.left = @ \ {c}, !.coll = c, !.got = {}, !.offset = 0,
                              !.kept = points[c]])
  /\ UNCHANGED <<store, cmd, dumps, files, runs, writes, failures>>

Target == IF cmd.upload THEN "s3" ELSE "disk"
From(offset) == {p \in points[w.coll] : p >= offset}
\* The first points at or after the offset, and what is left after them.
Page(offset) ==
  {p \in From(offset) : Cardinality({q \in From(offset) : q < p}) < PageSize}
\* Variant: only the last page is kept.
ScrollLastPage ==
  /\ pc = "scroll"
  /\ LET page == Page(w.offset)
         rest == From(w.offset) \ page
     IN IF rest # {}
        THEN /\ w' = [w EXCEPT !.got = page, !.offset = Min(rest)]
             /\ UNCHANGED <<pc, files>>
        ELSE /\ files' = [files EXCEPT ![Target].exports[w.coll] = [run |-> runs, points |-> page]]
             /\ Goto("export", [w EXCEPT !.got = {}, !.offset = 0, !.keys = @ \/ cmd.upload])
  /\ UNCHANGED <<store, cmd, dumps, runs, writes, failures>>

Scroll ==
  /\ pc = "scroll"
  /\ LET page == Page(w.offset)
         got == w.got \cup page
         rest == From(w.offset) \ page
     IN IF rest # {}
        THEN /\ w' = [w EXCEPT !.got = got, !.offset = Min(rest)]
             /\ UNCHANGED <<pc, files>>
        ELSE \* a fixed key in S3, which the next run overwrites
             /\ files' = [files EXCEPT ![Target].exports[w.coll] = [run |-> runs, points |-> got]]
             /\ Goto("export", [w EXCEPT !.got = {}, !.offset = 0, !.keys = @ \/ cmd.upload])
  /\ UNCHANGED <<store, cmd, dumps, runs, writes, failures>>

ExportFails ==
  /\ pc = "scroll" /\ Fails
  /\ Goto("export", [w EXCEPT !.coll = 0, !.got = {}, !.offset = 0, !.kept = {}])
  /\ UNCHANGED <<store, cmd, dumps, files, runs, writes>>

(***************************************************************************)
(* snapshot_profile's upload of the dump, and main's cleanup.               *)
(***************************************************************************)
\* Variant: a failing upload is logged and not kept in the result.
UploadUnreported ==
  /\ pc = "export" /\ w.left = {}
  /\ IF ~(cmd.upload /\ w.dumped)
     THEN pc' = "finish" /\ UNCHANGED <<w, files, failures>>
     ELSE \/ /\ files' = [files EXCEPT !["s3"].dumps = @ \cup {runs}]
             /\ Goto("finish", [w EXCEPT !.keys = TRUE]) /\ UNCHANGED failures
          \/ Fails /\ pc' = "finish" /\ UNCHANGED <<w, files>>
  /\ UNCHANGED <<store, cmd, dumps, runs, writes>>

Upload ==
  /\ pc = "export" /\ w.left = {}
  /\ IF ~(cmd.upload /\ w.dumped)
     THEN pc' = "finish" /\ UNCHANGED <<w, files, failures>>
     ELSE \/ /\ files' = [files EXCEPT !["s3"].dumps = @ \cup {runs}]
             /\ Goto("finish", [w EXCEPT !.keys = TRUE]) /\ UNCHANGED failures
          \/ /\ Fails
             /\ Goto("finish", [w EXCEPT !.failed = TRUE]) /\ UNCHANGED files
  /\ UNCHANGED <<store, cmd, dumps, runs, writes>>

CleanUp ==
  /\ pc = "finish" /\ pc' = "free"
  /\ files' = IF cmd.cleanup /\ cmd.upload /\ w.keys
              THEN [files EXCEPT !["disk"].dumps = @ \ {runs}] ELSE files
  /\ UNCHANGED <<store, cmd, w, dumps, runs, writes, failures>>

(***************************************************************************)
(* restore.py --component all: the graph, then the collections.             *)
(***************************************************************************)
Dump == dumps[w.source]
Exported(from) == {c \in Collections : files[from].exports[c] # NoExport}

Restore(from, clear) ==
  /\ Run([Idle EXCEPT !.from = from, !.clear = clear])
  /\ IF files[from].dumps # {}
     THEN Goto("clear", [Fresh EXCEPT !.source = Max(files[from].dumps)])
     ELSE \* S3: FileNotFoundError; a directory: the next component
          Goto(IF from = "s3" THEN "free" ELSE "collections", Fresh)
  /\ UNCHANGED <<store, dumps, files, writes, failures>>

ClearGraph ==
  /\ pc = "clear"
  /\ Goto("nodes", [w EXCEPT !.left = IF Dump.apoc THEN {} ELSE Dump.nodes])
  /\ IF cmd.clear
     THEN /\ nodes' = [i \in Ids |-> None] /\ mark' = [i \in Ids |-> None]
          /\ rels' = [p \in Ids \X Ids |-> 0]
     ELSE UNCHANGED graph
  /\ UNCHANGED <<points, cmd, dumps, files, runs, writes, failures>>

\* What a transaction of the statements does.  Ids is a bound here too.
CreateNodes(statements) ==
  \E id \in [statements -> Ids \ Used] :
    LET new == {id[s] : s \in statements}
        For(i) == CHOOSE s \in statements : id[s] = i
    IN /\ Cardinality(new) = Cardinality(statements)
       /\ nodes' = [i \in Ids |-> IF i \in new THEN For(i)[2] ELSE nodes[i]]
       /\ mark' = [i \in Ids |-> IF i \in new THEN For(i)[1] ELSE mark[i]]
       /\ UNCHANGED rels

Matches(i, end) == nodes[i] # None /\ mark[i] = end[1] /\ LabelOf[nodes[i]] = end[2]
CreateRels(statements) ==
  /\ rels' = [p \in Ids \X Ids |->
                rels[p] + Cardinality({s \in statements : Matches(p[1], s[1]) /\ Matches(p[2], s[2])})]
  /\ UNCHANGED <<nodes, mark>>

RemoveMarks(labels) ==
  /\ mark' = [i \in Ids |-> IF nodes[i] # None /\ LabelOf[nodes[i]] \in labels THEN None ELSE mark[i]]
  /\ UNCHANGED <<nodes, rels>>

Phases == {"nodes", "rels", "marks"}
Execute(statements) ==
  CASE pc = "nodes" -> CreateNodes(statements)
    [] pc = "rels" -> CreateRels(statements)
    [] pc = "marks" -> RemoveMarks(statements)

\* Workers take batches in any order; a batch is one transaction.
Batches == UNION {kSubset(n, w.left) : n \in 1 .. BatchSize}
Phase == pc \in Phases /\ UNCHANGED <<points, cmd, pc, dumps, files, runs, writes>>

CommitBatch(batch) ==
  /\ Phase /\ Execute(batch)
  /\ w' = [w EXCEPT !.left = @ \ batch]
  /\ UNCHANGED failures

\* Variant: no transaction, so that a failing batch has been run in part.
RollBackNothing(batch) ==
  /\ Phase /\ Fails
  /\ w' = [w EXCEPT !.left = @ \ batch, !.alone = @ \cup batch]
  /\ \E part \in SUBSET batch : part # batch /\ Execute(part)

RollBack(batch) ==
  /\ Phase /\ Fails
  /\ w' = [w EXCEPT !.left = @ \ batch, !.alone = @ \cup batch]
  /\ UNCHANGED graph

\* Committed, but the driver raises: the answer did not arrive.
LoseAnswer(batch) ==
  /\ Phase /\ Fails /\ Execute(batch)
  /\ w' = [w EXCEPT !.left = @ \ batch, !.alone = @ \cup batch, !.lost = TRUE]

\* Variant: a statement that fails alone is not counted.
RunAloneUncounted(statement) ==
  /\ Phase
  /\ w' = [w EXCEPT !.alone = @ \ {statement}]
  /\ \/ Execute({statement}) /\ UNCHANGED failures
     \/ Fails /\ UNCHANGED graph

RunAlone(statement) ==
  /\ Phase
  /\ \/ /\ Execute({statement}) /\ UNCHANGED failures
        /\ w' = [w EXCEPT !.alone = @ \ {statement}]
     \/ /\ Fails /\ UNCHANGED graph
        /\ w' = [w EXCEPT !.alone = @ \ {statement}, !.errors = @ + 1]

\* What is neither CREATE (, nor MATCH with REMOVE or CREATE is run one by one in
\* between.  DROP INDEX IF EXISTS FOR is not Cypher: one error for each label.
RunIndexes ==
  /\ pc = "index" /\ ~Dump.apoc
  /\ LET drops == Cardinality(Dump.marks)
         after == [w EXCEPT !.left = Dump.rels, !.errors = @ + drops]
     IN \/ Goto("rels", after) /\ UNCHANGED failures
        \/ Goto("rels", [after EXCEPT !.errors = @ + 1]) /\ Fails
  /\ UNCHANGED <<store, cmd, dumps, files, runs, writes>>

\* All of APOC's file is.  A statement behind :begin or :commit fails; of the
\* others, each for up to 20 rows, what they create is left open.
StandsFor(n) == <<n[1], LabelOf[n[2]]>>
CreateSome(id, made, linked) ==
  /\ \A m, n \in made : id[m] = id[n] => m = n
  /\ nodes' = [i \in Ids |-> IF \E n \in made : id[n] = i
                            THEN (CHOOSE n \in made : id[n] = i)[2] ELSE nodes[i]]
  /\ rels' = [p \in Ids \X Ids |->
                IF \E m, n \in made : /\ p = <<id[m], id[n]>>
                                      /\ \E s \in linked : s[1] = StandsFor(m) /\ s[2] = StandsFor(n)
                THEN 1 ELSE rels[p]]
  /\ UNCHANGED mark

RunForeign ==
  /\ pc = "index" /\ Dump.apoc
  /\ \E made \in SUBSET Dump.nodes, linked \in SUBSET Dump.rels :
       \E id \in [made -> Ids \ Used] : CreateSome(id, made, linked)
  /\ Goto("rels", [w EXCEPT !.errors = @ + 1])
  /\ UNCHANGED <<points, cmd, dumps, files, runs, writes, failures>>

Done == w.left = {} /\ w.alone = {}
NextPhase ==
  /\ Done
  /\ \/ pc = "nodes" /\ Goto("index", w)
     \/ pc = "rels" /\ Goto("marks", [w EXCEPT !.left = Dump.marks])
     \/ pc = "marks" /\ Goto("collections", w)
  /\ UNCHANGED <<store, cmd, dumps, files, runs, writes, failures>>

\* All collections in S3, but only the last file of a directory.
ListExports ==
  /\ pc = "collections"
  /\ Goto("restore", [w EXCEPT !.left = IF cmd.from = "s3" \/ Exported("disk") = {}
                                        THEN Exported(cmd.from) ELSE {Max(Exported("disk"))}])
  /\ UNCHANGED <<store, cmd, dumps, files, runs, writes, failures>>

BeginCollection(c) ==
  /\ pc = "restore" /\ c \in w.left
  /\ LET exported == files[cmd.from].exports[c].points
     IN Goto(IF c \notin Existing THEN "create" ELSE IF cmd.clear THEN "delete" ELSE "upsert",
             [w EXCEPT !.left = @ \ {c}, !.coll = c, !.got = exported, !.kept = exported])
  /\ UNCHANGED <<store, cmd, dumps, files, runs, writes, failures>>

\* The answer to the delete is not looked at.
DeleteCollection ==
  /\ pc = "delete" /\ pc' = "create"
  /\ \/ points' = [points EXCEPT ![w.coll] = NoCollection] /\ UNCHANGED failures
     \/ Fails /\ UNCHANGED points
  /\ UNCHANGED <<graph, cmd, w, dumps, files, runs, writes>>

CreateCollection ==
  /\ pc = "create" /\ w.coll \notin Existing /\ pc' = "upsert"
  /\ points' = [points EXCEPT ![w.coll] = {}]
  /\ UNCHANGED <<graph, cmd, w, dumps, files, runs, writes, failures>>

\* Variant: one batch and no more.
UpsertOnce ==
  /\ pc = "upsert"
  /\ LET batch == {p \in w.got : Cardinality({q \in w.got : q < p}) < PageSize}
     IN points' = [points EXCEPT ![w.coll] = @ \cup batch]
  /\ Goto("restore", [w EXCEPT !.got = {}])
  /\ UNCHANGED <<graph, cmd, dumps, files, runs, writes, failures>>

UpsertBatch ==
  /\ pc = "upsert"
  /\ LET batch == {p \in w.got : Cardinality({q \in w.got : q < p}) < PageSize}
     IN /\ points' = [points EXCEPT ![w.coll] = @ \cup batch]
        /\ Goto(IF batch = w.got THEN "restore" ELSE "upsert", [w EXCEPT !.got = @ \ batch])
  /\ UNCHANGED <<graph, cmd, dumps, files, runs, writes, failures>>

\* From S3 the next collection is tried; from a file the exception ends the run.
Abandon == Goto(IF cmd.from = "s3" THEN "restore" ELSE "free",
                [w EXCEPT !.coll = 0, !.got = {}, !.kept = {}])
CollectionFails ==
  /\ \/ pc \in {"delete", "create", "upsert"} /\ Fails
     \/ pc = "create" /\ w.coll \in Existing /\ UNCHANGED failures
  /\ Abandon
  /\ UNCHANGED <<store, cmd, dumps, files, runs, writes>>

EndRestore ==
  /\ pc = "restore" /\ w.left = {} /\ pc' = "free"
  /\ UNCHANGED <<store, cmd, w, dumps, files, runs, writes, failures>>

\* The run is killed, or an exception that nobody handles ends it.
Killed ==
  /\ pc # "free" /\ Fails
  /\ Goto("free", [Fresh EXCEPT !.dumped = w.dumped, !.failed = TRUE])
  /\ UNCHANGED <<store, cmd, dumps, files, runs, writes>>

RestoreStep ==
  \/ ClearGraph \/ RunIndexes \/ RunForeign \/ NextPhase \/ ListExports \/ EndRestore
  \/ pc \in Phases /\ \/ \E batch \in Batches : CommitBatch(batch) \/ RollBack(batch) \/ LoseAnswer(batch)
                      \/ \E statement \in w.alone : RunAlone(statement)
  \/ \E c \in Collections : BeginCollection(c)
  \/ DeleteCollection \/ CreateCollection \/ UpsertBatch \/ CollectionFails

SnapshotStep ==
  \/ \E label \in Labels : DumpLabel(label)
  \/ DumpRels \/ DumpFails \/ Discover \/ Scroll \/ ExportFails \/ Upload \/ CleanUp
  \/ \E c \in Collections : BeginExport(c)

Next ==
  \/ \E upload, cleanup \in BOOLEAN : Snapshot(upload, cleanup)
  \/ \E from \in Places, clear \in BOOLEAN : Restore(from, clear)
  \/ SnapshotStep \/ RestoreStep \/ Killed \/ Server

Spec == Init /\ [][Next]_vars

(***************************************************************************)
(* Properties.                                                             *)
(***************************************************************************)
NodeStatement == Ids \X Keys
RelStatement == (Ids \X Labels) \X (Ids \X Labels) \X Nat
Steps == {"free", "labels", "discover", "export", "scroll", "finish", "clear", "nodes", "index",
          "rels", "marks", "collections", "restore", "delete", "create", "upsert"}

DumpFile == [nodes : SUBSET NodeStatement, rels : SUBSET RelStatement,
             marks : SUBSET Labels, apoc : BOOLEAN]
Export == [run : Nat, points : SUBSET Points]

\* Types, and what a step has in hand: a source to restore, the statements of a
\* phase, a collection.
TypeOK ==
  /\ nodes \in [Ids -> Keys \cup {None}] /\ mark \in [Ids -> Ids \cup {None}]
  /\ rels \in [Ids \X Ids -> Nat]
  /\ points \in [Collections -> (SUBSET Points) \cup {NoCollection}]
  /\ cmd \in [upload : BOOLEAN, cleanup : BOOLEAN, from : Places, clear : BOOLEAN]
  /\ pc \in Steps /\ runs \in 0 .. MaxRuns
  /\ writes \in 0 .. MaxWrites /\ failures \in 0 .. MaxFailures
  /\ dumps \in [Runs -> DumpFile]
  /\ files \in [Places -> [dumps : SUBSET (1 .. runs), exports : [Collections -> Export]]]
  /\ pc = "labels" => w.got \subseteq NodeStatement
  /\ pc \in Phases \cup {"clear", "index"} => w.source \in 1 .. runs
  /\ pc = "nodes" => w.left \cup w.alone \subseteq Dump.nodes
  /\ pc = "rels" => w.left \cup w.alone \subseteq Dump.rels
  /\ pc \in {"scroll", "delete", "create", "upsert"} => w.coll \in Collections /\ w.got \subseteq Points
  /\ pc \in {"scroll", "upsert"} => w.coll \in Existing

Snapshotting == pc \in {"discover", "export", "scroll", "finish"}

\* What the fallback dumps, one query for each label and one for the
\* relationships, is the whole graph and nothing else when no ingestion came in
\* between (neo4j_dump.py 130-203).
ByLabels == Snapshotting /\ w.dumped /\ ~dumps[runs].apoc
QuietDumpIsExact == ByLabels /\ w.quiet => dumps[runs] = Image

\* However the server creates and deletes nodes between the queries, a node that is
\* there from the first to the last is in the file (neo4j_dump.py 141-161).
StayingIsDumped == ByLabels => w.stayed \subseteq dumps[runs].nodes

\* However a collection changes between the pages of the scroll, a point that
\* is there all the time is exported (qdrant_export.py 113-143).
StayingIsExported ==
  /\ pc = "scroll" => {p \in w.kept : p < w.offset} \subseteq w.got
  /\ pc \in {"export", "finish"} /\ w.coll # 0 => w.kept \subseteq files[Target].exports[w.coll].points

\* When a run leaves no copy of the dump it made, it says so: it exits with 1
\* (snapshot_all.py 74-84, 141-145, 166-171).
InPlace(r) == \E p \in Places : r \in files[p].dumps
LossIsReported == pc = "free" /\ w.dumped /\ ~InPlace(runs) => w.failed

GraphRestored == pc \in {"collections", "restore", "delete", "create", "upsert"} /\ w.source # 0

\* A restore of such a file into the cleared graph that reports no error but those
\* of its DROP INDEX statements, with no lost answer and no ingestion, leaves the
\* graph of the file under new ids: each of its nodes once, each relationship whose
\* nodes are in the file once and between them, and no _dump_id on a label that the
\* file clears, in whatever order the workers run their batches (restore.py 131-240).
RestoreIsExact ==
  /\ GraphRestored /\ ~Dump.apoc /\ cmd.clear /\ w.quiet /\ ~w.lost
  /\ w.errors = Cardinality(Dump.marks)
  => /\ \A i \in Used : LabelOf[nodes[i]] \in Dump.marks => mark[i] = None
     /\ \E id \in [Dump.nodes -> Ids] :
          /\ Used = {id[n] : n \in Dump.nodes}
          /\ \A m, n \in Dump.nodes :
               /\ nodes[id[n]] = n[2] /\ (id[m] = id[n] => m = n)
               /\ rels[<<id[m], id[n]>>] =
                    Cardinality({s \in Dump.rels : s[1] = StandsFor(m) /\ s[2] = StandsFor(n)})

\* Every node of such a file is created or counted, and the DROP INDEX statements
\* do not hide one that is missing (restore.py 138-168, 216-226).
MissingIsCounted ==
  GraphRestored /\ ~Dump.apoc /\ w.quiet =>
    Cardinality(Dump.nodes) + Cardinality(Dump.marks) <= Cardinality(Used) + w.errors

\* A collection that is not reported as failed holds the points of its export,
\* unless the server has deleted some since (restore.py 340-361).
RestoredIsThere == pc = "restore" /\ w.coll # 0 => w.kept \subseteq points[w.coll]

===============================================================================
