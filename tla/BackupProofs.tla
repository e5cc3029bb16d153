----------------------------- MODULE BackupProofs -----------------------------
(***************************************************************************)
(* Proofs about Backup, for every graph and every collection, every size of   *)
(* pages and batches and every number of runs, writes and failures.          *)
(***************************************************************************)
EXTENDS Backup, FiniteSetTheorems, WellFoundedInduction, TLAPS

\* A run holds what Fresh holds.
Work(r) ==
  /\ r = [left |-> r.left, alone |-> r.alone, source |-> r.source, coll |-> r.coll,
          got |-> r.got, offset |-> r.offset, dumped |-> r.dumped, failed |-> r.failed,
          keys |-> r.keys, errors |-> r.errors, quiet |-> r.quiet, stayed |-> r.stayed,
          kept |-> r.kept, lost |-> r.lost]
  /\ r.errors \in Nat /\ r.offset \in Nat /\ r.kept \subseteq Points
  /\ {r.dumped, r.failed, r.keys, r.quiet, r.lost} \subseteq BOOLEAN

\* The parts of the type invariant.  A relationship stands between two nodes.
GraphTyped ==
  /\ nodes \in [Ids -> Keys \cup {None}] /\ mark \in [Ids -> Ids \cup {None}]
  /\ rels \in [Ids \X Ids -> Nat]
  /\ \A p \in Ids \X Ids : rels[p] > 0 => p[1] \in Used /\ p[2] \in Used
PointsTyped == points \in [Collections -> (SUBSET Points) \cup {NoCollection}]
Options == [upload : BOOLEAN, cleanup : BOOLEAN, from : Places, clear : BOOLEAN]
ControlTyped ==
  /\ cmd \in Options /\ pc \in Steps /\ runs \in 0 .. MaxRuns
  /\ writes \in 0 .. MaxWrites /\ failures \in 0 .. MaxFailures
  /\ pc # "free" => runs \in Runs
FilesTyped ==
  /\ dumps \in [Runs -> DumpFile]
  /\ \A r \in Runs : IsFiniteSet(dumps[r].nodes) /\ IsFiniteSet(dumps[r].rels)
                     /\ IsFiniteSet(dumps[r].marks)
  /\ files \in [Places -> [dumps : SUBSET (1 .. runs), exports : [Collections -> Export]]]
WorkTyped ==
  /\ Work(w) /\ w.source \in 0 .. runs
  /\ pc = "labels" => w.got \subseteq NodeStatement /\ IsFiniteSet(w.got)
  /\ pc \in Phases \cup {"clear", "index"} => w.source \in 1 .. runs
  /\ pc = "nodes" => w.left \cup w.alone \subseteq Dump.nodes
  /\ pc = "rels" => w.left \cup w.alone \subseteq Dump.rels
  /\ pc \in {"scroll", "delete", "create", "upsert"} => w.coll \in Collections /\ w.got \subseteq Points
  /\ pc \in {"scroll", "upsert"} => w.coll \in Existing
  /\ pc = "discover" => w.left = {}
  /\ pc \in {"export", "scroll"} => w.left \subseteq Existing
  /\ pc \in {"clear", "index"} => w.alone = {}
  /\ pc = "index" => w.left = {}
  /\ pc \in Phases => w.left \cap w.alone = {}
TypeInv == GraphTyped /\ PointsTyped /\ ControlTyped /\ FilesTyped /\ WorkTyped

(***************************************************************************)
(* Sets                                                                    *)
(***************************************************************************)

\* The image of a finite set is finite.
LEMMA ImageIsFinite ==
  ASSUME NEW S, IsFiniteSet(S), NEW f, f = [x \in S |-> f[x]]
  PROVE  IsFiniteSet({f[x] : x \in S})
<1>1. f \in Surjection(S, {f[x] : x \in S})
  BY DEF Surjection
<1> QED BY <1>1, FS_Surjection

\* Every set of naturals that is not empty has a least element.
LEMMA LeastOf ==
  ASSUME NEW T, T \subseteq Nat, T # {}
  PROVE  Min(T) \in T /\ \A y \in T : Min(T) <= y
<1>1. PICK x \in T : \A y \in T : ~(<<y, x>> \in OpToRel(<, Nat))
  BY NatLessThanWellFounded, WFMin
<1>2. ASSUME NEW y \in T PROVE x <= y
  <2>1. <<y, x>> \in Nat \X Nat
    BY <1>1
  <2>2. ~(y < x)
    BY <1>1, <2>1 DEF OpToRel
  <2> QED BY <2>1, <2>2
<1> QED BY <1>1, <1>2 DEF Min

\* One that has a bound has a greatest element.
LEMMA GreatestOf ==
  ASSUME NEW n \in Nat, NEW T, T \subseteq 0 .. n, T # {}
  PROVE  Max(T) \in T
<1> DEFINE U == {k \in 0 .. n : n - k \in T}
<1>1. U \subseteq Nat /\ U # {}
  <2>1. PICK x \in T : TRUE
    OBVIOUS
  <2>2. n - x \in 0 .. n /\ n - (n - x) = x
    BY <2>1
  <2>3. n - x \in U
    BY <2>1, <2>2
  <2>4. U \subseteq Nat
    OBVIOUS
  <2> HIDE DEF U
  <2> QED BY <2>3, <2>4
<1>2. Min(U) \in U /\ \A y \in U : Min(U) <= y
  BY <1>1, LeastOf
<1> HIDE DEF U
<1> DEFINE x == n - Min(U)
<1>3. x \in T /\ Min(U) \in 0 .. n
  BY <1>2 DEF U
<1>4. ASSUME NEW y \in T PROVE x >= y
  <2>1. y \in 0 .. n /\ n - y \in 0 .. n /\ n - (n - y) = y
    BY <1>4
  <2>2. n - y \in U
    BY <2>1 DEF U
  <2>3. Min(U) <= n - y
    BY <1>2, <2>2
  <2> QED BY <1>3, <2>1, <2>3
<1> QED BY <1>3, <1>4 DEF Max

LEMMA UsedIsFinite == IsFiniteSet(Used) /\ Cardinality(Used) \in Nat
<1>1. Used \in SUBSET Ids
  BY DEF Used
<1> QED BY <1>1, BackupAssumption, FS_Subset, FS_CardinalityType

(***************************************************************************)
(* Types                                                                   *)
(***************************************************************************)

\* What is dumped are statements, finitely many.
LEMMA NodesAreStatements ==
  ASSUME GraphTyped, NEW labels
  PROVE  NodeStatements(labels) \subseteq NodeStatement /\ IsFiniteSet(NodeStatements(labels))
<1> DEFINE S == {k \in Used : LabelOf[nodes[k]] \in labels}
           f == [i \in S |-> <<i, nodes[i]>>]
<1>1. NodeStatements(labels) \subseteq NodeStatement
  BY DEF GraphTyped, NodeStatements, NodeStatement, Used
<1>2. S \in SUBSET Used
  OBVIOUS
<1>3. IsFiniteSet(S)
  BY <1>2, UsedIsFinite, FS_Subset
<1>4. IsFiniteSet({f[i] : i \in S})
  <2> HIDE DEF S
  <2> QED BY <1>3, ImageIsFinite
<1>5. {f[i] : i \in S} = NodeStatements(labels)
  BY DEF NodeStatements
<1> QED BY <1>1, <1>4, <1>5

LEMMA RelsAreStatements ==
  ASSUME GraphTyped
  PROVE  RelStatements \subseteq RelStatement /\ IsFiniteSet(RelStatements)
<1> DEFINE P == {q \in Ids \X Ids : rels[q] > 0}
           Of(p) == {<<End(p[1]), End(p[2]), n>> : n \in 1 .. rels[p]}
           f == [p \in P |-> Of(p)]
<1>1. ASSUME NEW p \in P
      PROVE  /\ End(p[1]) \in Ids \X Labels /\ End(p[2]) \in Ids \X Labels
             /\ rels[p] \in Nat
  <2>1. p[1] \in Used /\ p[2] \in Used /\ rels[p] \in Nat
    BY DEF GraphTyped
  <2>2. ASSUME NEW i \in Used PROVE End(i) \in Ids \X Labels
    BY BackupAssumption DEF GraphTyped, Used, End
  <2> QED BY <2>1, <2>2
<1>2. RelStatements = UNION {Of(p) : p \in P}
  BY DEF RelStatements
<1>3. \A p \in P : Of(p) \subseteq RelStatement
  BY <1>1 DEF RelStatement
<1>4. ASSUME NEW p \in P PROVE IsFiniteSet(Of(p))
  <2> DEFINE N == 1 .. rels[p]
             g == [n \in N |-> <<End(p[1]), End(p[2]), n>>]
  <2>1. IsFiniteSet(N)
    BY <1>1, FS_Interval
  <2>2. IsFiniteSet({g[n] : n \in N})
    <3> HIDE DEF N
    <3> QED BY <2>1, ImageIsFinite
  <2>3. {g[n] : n \in N} = Of(p)
    OBVIOUS
  <2> QED BY <2>2, <2>3
<1>5. IsFiniteSet({Of(p) : p \in P})
  <2>1. P \in SUBSET (Ids \X Ids)
    OBVIOUS
  <2>2. IsFiniteSet(P)
    BY <2>1, BackupAssumption, FS_Product, FS_Subset
  <2> HIDE DEF P, Of
  <2>3. IsFiniteSet({f[p] : p \in P})
    BY <2>2, ImageIsFinite
  <2>4. {f[p] : p \in P} = {Of(p) : p \in P}
    OBVIOUS
  <2> QED BY <2>3, <2>4
<1> HIDE DEF P, Of
<1>6. RelStatements \subseteq RelStatement
  BY <1>2, <1>3
<1>7. \A T \in {Of(p) : p \in P} : IsFiniteSet(T)
  BY <1>4
<1> QED BY <1>2, <1>5, <1>6, <1>7, FS_UNION

FiniteFile(dump) ==
  dump \in DumpFile /\ IsFiniteSet(dump.nodes) /\ IsFiniteSet(dump.rels) /\ IsFiniteSet(dump.marks)

LEMMA FileIsFile ==
  ASSUME GraphTyped, NEW statements, statements \subseteq NodeStatement, IsFiniteSet(statements)
  PROVE  FiniteFile(File(statements, RelStatements))
<1> DEFINE f == [n \in statements |-> LabelOf[n[2]]]
<1>1. LabelsOf(statements) \subseteq Labels
  BY BackupAssumption DEF LabelsOf, NodeStatement
<1>2. IsFiniteSet({f[n] : n \in statements}) /\ {f[n] : n \in statements} = LabelsOf(statements)
  BY ImageIsFinite DEF LabelsOf
<1> QED BY <1>1, <1>2, RelsAreStatements DEF File, FiniteFile, DumpFile

LEMMA ImageIsFile == ASSUME GraphTyped PROVE FiniteFile(Image)
BY NodesAreStatements, FileIsFile DEF Image

LEMMA PrefixIsFile ==
  ASSUME NEW dump, FiniteFile(dump), NEW part \in Prefixes(dump)
  PROVE  FiniteFile(part)
<1>1. PICK statements \in SUBSET dump.nodes, links \in SUBSET dump.rels, labels \in SUBSET dump.marks :
        part = Cut(dump, statements, links, labels)
  <2>1. {} \in SUBSET dump.rels /\ {} \in SUBSET dump.marks /\ dump.nodes \in SUBSET dump.nodes
        /\ dump.rels \in SUBSET dump.rels
    OBVIOUS
  <2> QED BY <2>1 DEF Prefixes
<1>2. IsFiniteSet(statements) /\ IsFiniteSet(links) /\ IsFiniteSet(labels)
  BY <1>1, FS_Subset DEF FiniteFile
<1> QED BY <1>1, <1>2 DEF FiniteFile, DumpFile, Cut

LEMMA RowIsFile ==
  ASSUME GraphTyped, NEW row \in Streamed
  PROVE  FiniteFile(row) /\ row.apoc
<1>1. PICK part \in Prefixes(Image) : row = [part EXCEPT !.marks = {}, !.apoc = TRUE]
  BY DEF Streamed
<1>2. FiniteFile(part)
  BY ImageIsFile, PrefixIsFile
<1> QED BY <1>1, <1>2, FS_EmptySet DEF FiniteFile, DumpFile

LEMMA GraphStays == ASSUME GraphTyped, UNCHANGED graph PROVE GraphTyped'
BY DEF GraphTyped, graph, Used
LEMMA PointsStay == ASSUME PointsTyped, UNCHANGED points PROVE PointsTyped'
BY DEF PointsTyped
LEMMA FilesStay == ASSUME FilesTyped, UNCHANGED <<dumps, files, runs>> PROVE FilesTyped'
BY DEF FilesTyped
LEMMA CountersStay ==
  ASSUME ControlTyped
  PROVE  /\ Fails \/ UNCHANGED failures => failures' \in 0 .. MaxFailures
         /\ Writes \/ UNCHANGED writes => writes' \in 0 .. MaxWrites
BY BackupAssumption DEF ControlTyped, Fails, Writes

\* What a run holds does not change with the graph.
LEMMA WorkStays ==
  ASSUME TypeInv, UNCHANGED <<points, pc, dumps, runs>>, Work(w'),
         w'.left = w.left, w'.alone = w.alone, w'.source = w.source, w'.coll = w.coll,
         w'.got = w.got
  PROVE  WorkTyped'
BY DEF TypeInv, WorkTyped, Existing, Dump

\* A collection that is there has points.
LEMMA ExistingHasPoints ==
  ASSUME PointsTyped, NEW c \in Existing
  PROVE  c \in Collections /\ points[c] \subseteq Points /\ points[c] # NoCollection
<1>1. c \in Collections /\ points[c] # NoCollection
  BY DEF Existing
<1>2. points[c] \in (SUBSET Points) \cup {NoCollection}
  BY <1>1 DEF PointsTyped
<1>3. points[c] \in SUBSET Points
  BY <1>1, <1>2
<1> QED BY <1>1, <1>3

LEMMA ServerTyped == ASSUME TypeInv, Server PROVE TypeInv'
<1>1. ControlTyped'
  BY CountersStay DEF TypeInv, ControlTyped, Server, MergeNode, MergeLink, DeleteNode,
     UpsertPoint, DeletePoint, OnGraph, OnPoints
<1>2. FilesTyped'
  BY FilesStay DEF TypeInv, Server, MergeNode, MergeLink, DeleteNode, UpsertPoint, DeletePoint,
     OnGraph, OnPoints
<1>3. ASSUME NEW gone, OnGraph(gone) PROVE PointsTyped' /\ WorkTyped'
  <2>1. w' = [w EXCEPT !.quiet = FALSE, !.stayed = @ \ gone] /\ UNCHANGED <<points, pc, dumps, runs>>
    BY <1>3 DEF OnGraph
  <2>2. /\ Work(w') /\ w'.left = w.left /\ w'.alone = w.alone /\ w'.source = w.source
        /\ w'.coll = w.coll /\ w'.got = w.got
    BY <2>1 DEF TypeInv, WorkTyped, Work
  <2> QED BY <2>1, <2>2, WorkStays, PointsStay DEF TypeInv
<1>4. ASSUME NEW key \in Keys, NEW i \in Ids, MergeNode(key, i) PROVE GraphTyped'
  <2>1. nodes' = [nodes EXCEPT ![i] = key] /\ nodes[i] = None /\ UNCHANGED <<mark, rels>>
    BY <1>4 DEF MergeNode
  <2>2. Used \subseteq Used'
    BY <2>1, BackupAssumption DEF TypeInv, GraphTyped, Used
  <2>3. nodes' \in [Ids -> Keys \cup {None}]
    BY <2>1 DEF TypeInv, GraphTyped
  <2>4. GraphTyped
    BY DEF TypeInv
  <2> QED BY <2>1, <2>2, <2>3, <2>4 DEF GraphTyped
<1>5. ASSUME NEW i \in Ids, NEW j \in Ids, MergeLink(i, j) PROVE GraphTyped'
  <2>1. rels' = [rels EXCEPT ![<<i, j>>] = 1] /\ UNCHANGED <<nodes, mark>>
        /\ <<nodes[i], nodes[j]>> \in Links
    BY <1>5 DEF MergeLink
  <2>2. i \in Used /\ j \in Used /\ Used' = Used
    BY <2>1, BackupAssumption DEF Used
  <2> QED BY <2>1, <2>2 DEF TypeInv, GraphTyped
<1>6. ASSUME NEW i \in Ids, DeleteNode(i) PROVE GraphTyped'
  <2>1. /\ nodes' = [nodes EXCEPT ![i] = None] /\ mark' = [mark EXCEPT ![i] = None]
        /\ rels' = [p \in Ids \X Ids |-> IF i \in {p[1], p[2]} THEN 0 ELSE rels[p]]
    BY <1>6 DEF DeleteNode
  <2>2. \A j \in Used : j # i => j \in Used'
    BY <2>1 DEF TypeInv, GraphTyped, Used
  <2> QED BY <2>1, <2>2 DEF TypeInv, GraphTyped
<1>7. ASSUME NEW c \in Existing, NEW p \in Points, UpsertPoint(c, p) \/ DeletePoint(c, p)
      PROVE  PointsTyped' /\ WorkTyped'
  <2> DEFINE more == points' = [points EXCEPT ![c] = @ \cup {p}] /\ UNCHANGED w
             less == /\ points' = [points EXCEPT ![c] = @ \ {p}]
                     /\ w' = [w EXCEPT !.kept = IF w.coll = c THEN @ \ {p} ELSE @]
  <2>0. c \in Collections /\ points[c] \subseteq Points
    BY <1>7, ExistingHasPoints DEF TypeInv
  <2>1. (more \/ less) /\ UNCHANGED <<pc, dumps, runs>>
    BY <1>7 DEF UpsertPoint, DeletePoint, OnPoints
  <2>2. PointsTyped'
    BY <2>0, <2>1 DEF TypeInv, PointsTyped
  <2>3. Existing \subseteq Existing'
    <3>1. -1 \notin Points
      BY BackupAssumption
    <3>2. points'[c] \subseteq Points
      BY <2>0, <2>1 DEF TypeInv, PointsTyped
    <3> QED BY <2>0, <2>1, <3>1, <3>2 DEF TypeInv, PointsTyped, Existing, NoCollection
  <2>4. /\ Work(w') /\ w'.left = w.left /\ w'.alone = w.alone /\ w'.source = w.source
        /\ w'.coll = w.coll /\ w'.got = w.got
    BY <2>1 DEF TypeInv, WorkTyped, Work
  <2> QED BY <2>1, <2>2, <2>3, <2>4 DEF TypeInv, WorkTyped, Dump
<1>8. CASE \E key \in Keys, i \in Ids : MergeNode(key, i)
  BY <1>1, <1>2, <1>3, <1>4, <1>8 DEF TypeInv, MergeNode
<1>9. CASE \E i, j \in Ids : MergeLink(i, j)
  BY <1>1, <1>2, <1>3, <1>5, <1>9 DEF TypeInv, MergeLink
<1>10. CASE \E i \in Ids : DeleteNode(i)
  BY <1>1, <1>2, <1>3, <1>6, <1>10 DEF TypeInv, DeleteNode
<1>11. CASE \E c \in Existing, p \in Points : UpsertPoint(c, p) \/ DeletePoint(c, p)
  BY <1>1, <1>2, <1>7, <1>11, GraphStays DEF TypeInv, UpsertPoint, DeletePoint, OnPoints
<1> QED BY <1>8, <1>9, <1>10, <1>11 DEF Server

LEMMA FreshIsWork ==
  /\ Work(Fresh) /\ Fresh.source = 0 /\ Fresh.got = {} /\ Fresh.coll = 0 /\ Fresh.kept = {}
  /\ Fresh.left = {} /\ Fresh.alone = {} /\ ~Fresh.dumped /\ ~Fresh.lost
BY DEF Fresh, Work

\* A dump is written to the directory.
LEMMA WriteDumpTyped ==
  ASSUME FilesTyped, NEW r \in Runs, r \in 1 .. runs', runs \in Nat, runs' \in Nat, runs <= runs',
         NEW dump, FiniteFile(dump), WriteDump(r, dump)
  PROVE  FilesTyped' /\ dumps'[r] = dump /\ \A q \in Runs \ {r} : dumps'[q] = dumps[q]
<1>1. dumps' = [dumps EXCEPT ![r] = dump] /\ files' = [files EXCEPT !["disk"].dumps = @ \cup {r}]
  BY DEF WriteDump
<1>2. files' \in [Places -> [dumps : SUBSET (1 .. runs'), exports : [Collections -> Export]]]
  <2>1. 1 .. runs \subseteq 1 .. runs'
    OBVIOUS
  <2> QED BY <1>1, <2>1 DEF FilesTyped, Places
<1> QED BY <1>1, <1>2 DEF FilesTyped, FiniteFile

LEMMA SnapshotTyped ==
  ASSUME TypeInv, NEW upload \in BOOLEAN, NEW cleanup \in BOOLEAN, Snapshot(upload, cleanup)
  PROVE  TypeInv'
<1>1. /\ UNCHANGED <<graph, points, writes>> /\ runs < MaxRuns /\ runs' = runs + 1
      /\ cmd' = [Idle EXCEPT !.upload = upload, !.cleanup = cleanup]
      /\ pc' \in {"discover", "labels"}
  BY DEF Snapshot, Run, store, Goto
<1>2. runs \in Nat /\ runs' \in Runs /\ runs' \in 0 .. MaxRuns /\ MaxRuns \in Nat
  BY <1>1, BackupAssumption DEF TypeInv, ControlTyped, Runs
<1>3. GraphTyped' /\ PointsTyped'
  BY <1>1, GraphStays, PointsStay DEF TypeInv
<1>4. ControlTyped'
  <2>1. cmd' \in Options
    BY <1>1 DEF Idle, Options, Places
  <2>2. failures' \in 0 .. MaxFailures
    BY CountersStay DEF Snapshot, TypeInv
  <2> QED BY <1>1, <1>2, <2>1, <2>2 DEF TypeInv, ControlTyped, Steps
<1>5. FilesTyped'
  <2>1. CASE UNCHANGED <<dumps, files>>
    <3>1. 1 .. runs \subseteq 1 .. runs'
      BY <1>1, <1>2
    <3> QED BY <2>1, <3>1 DEF TypeInv, FilesTyped
  <2>2. CASE \E row \in Streamed : WriteDump(runs + 1, row)
    <3>1. PICK dump \in Streamed : WriteDump(runs', dump)
      BY <1>1, <2>2
    <3>2. FiniteFile(dump)
      BY RowIsFile DEF TypeInv
    <3>3. runs' \in 1 .. runs' /\ runs <= runs' /\ runs' \in Nat
      BY <1>1, <1>2
    <3> QED BY <1>2, <3>1, <3>2, <3>3, WriteDumpTyped DEF TypeInv
  <2> QED BY <2>1, <2>2 DEF Snapshot
<1>6. WorkTyped'
  <2>1. \/ w' = [Fresh EXCEPT !.dumped = TRUE] /\ pc' = "discover"
        \/ /\ w' = [Fresh EXCEPT !.left = {LabelOf[nodes[i]] : i \in Used},
                               !.stayed = NodeStatements(Labels)]
           /\ pc' = "labels"
        \/ w' = [Fresh EXCEPT !.failed = TRUE] /\ pc' = "discover"
    BY DEF Snapshot, Goto
  <2>2. Work(w') /\ w'.source = 0 /\ w'.got = {} /\ (pc' = "discover" => w'.left = {})
    BY <2>1, FreshIsWork DEF Work
  <2>3. 0 \in 0 .. runs'
    BY <1>1, <1>2
  <2> QED BY <1>1, <2>2, <2>3, FS_EmptySet DEF WorkTyped, Phases
<1> QED BY <1>3, <1>4, <1>5, <1>6 DEF TypeInv

LEMMA LabelsTyped ==
  ASSUME TypeInv, (\E label \in Labels : DumpLabel(label)) \/ DumpRels \/ DumpFails
  PROVE  TypeInv'
<1>1. /\ UNCHANGED <<graph, points, cmd, runs, writes>> /\ pc = "labels"
      /\ pc' \in {"labels", "discover"}
  BY DEF DumpLabel, DumpRels, DumpFails, store, Goto
<1>2. GraphTyped' /\ PointsTyped'
  BY <1>1, GraphStays, PointsStay DEF TypeInv
<1>3. ControlTyped'
  <2>1. failures' \in 0 .. MaxFailures
    BY CountersStay DEF DumpLabel, DumpRels, DumpFails, TypeInv
  <2> QED BY <1>1, <2>1 DEF TypeInv, ControlTyped, Steps
<1>4. Work(w) /\ w.source \in 0 .. runs /\ w.got \subseteq NodeStatement /\ IsFiniteSet(w.got)
  BY <1>1 DEF TypeInv, WorkTyped
<1>5. CASE \E label \in Labels : DumpLabel(label)
  <2>1. PICK label \in Labels : DumpLabel(label)
    BY <1>5
  <2>2. /\ w' = [w EXCEPT !.left = @ \ {label}, !.got = @ \cup NodeStatements({label})]
        /\ UNCHANGED <<pc, dumps, files>>
    BY <2>1 DEF DumpLabel
  <2>3. Work(w') /\ w'.source = w.source /\ w'.got = w.got \cup NodeStatements({label})
    BY <1>4, <2>2 DEF Work
  <2>4. w'.got \subseteq NodeStatement /\ IsFiniteSet(w'.got)
    BY <1>4, <2>3, NodesAreStatements, FS_Union DEF TypeInv
  <2>5. WorkTyped'
    BY <1>1, <1>4, <2>2, <2>3, <2>4 DEF WorkTyped, Phases
  <2> QED BY <1>1, <1>2, <1>3, <2>2, <2>5, FilesStay DEF TypeInv
<1>6. CASE DumpRels
  <2> DEFINE dump == File(w.got, RelStatements)
  <2>1. /\ pc' = "discover"
        /\ w' \in {[[w EXCEPT !.got = {}] EXCEPT !.dumped = TRUE],
                   [[w EXCEPT !.got = {}] EXCEPT !.failed = TRUE]}
        /\ \E part \in {dump} \cup Prefixes(dump) : WriteDump(runs, part)
    BY <1>6 DEF DumpRels, Goto
  <2>2. PICK part \in {dump} \cup Prefixes(dump) : WriteDump(runs, part)
    BY <2>1
  <2>3. FiniteFile(dump)
    BY <1>4, FileIsFile DEF TypeInv
  <2>4. FiniteFile(part)
    BY <2>2, <2>3, PrefixIsFile
  <2>5. Work(w') /\ w'.source = w.source /\ w'.left = {}
    BY <1>4, <1>6, <2>1 DEF Work, DumpRels
  <2>6. WorkTyped'
    BY <1>1, <1>4, <2>1, <2>5 DEF WorkTyped, Phases
  <2>7. CASE runs \in Runs
    <3>1. runs \in 1 .. runs' /\ runs \in Nat /\ runs' \in Nat /\ runs <= runs'
      BY <1>1, <2>7 DEF Runs
    <3>2. FilesTyped'
      BY <2>2, <2>4, <2>7, <3>1, WriteDumpTyped DEF TypeInv
    <3> QED BY <1>2, <1>3, <2>6, <3>2 DEF TypeInv
  <2> QED BY <1>1, <2>7 DEF TypeInv, ControlTyped
<1>7. CASE DumpFails
  <2>1. w' = [Fresh EXCEPT !.failed = TRUE, !.quiet = w.quiet] /\ pc' = "discover"
        /\ UNCHANGED <<dumps, files>>
    BY <1>7 DEF DumpFails, Goto
  <2>2. Work(w') /\ w'.source = 0 /\ w'.left = {}
    BY <1>4, <2>1, FreshIsWork DEF Work
  <2>3. runs \in Nat
    BY DEF TypeInv, ControlTyped
  <2>4. WorkTyped'
    BY <1>1, <2>1, <2>2, <2>3 DEF WorkTyped, Phases
  <2> QED BY <1>1, <1>2, <1>3, <2>1, <2>4, FilesStay DEF TypeInv
<1> QED BY <1>5, <1>6, <1>7

\* Steps of the export, and of a restore outside of the graph.
LEMMA ExportTyped ==
  ASSUME TypeInv,
         \/ Discover \/ (\E c \in Collections : BeginExport(c)) \/ Scroll \/ ExportFails
         \/ Upload \/ CleanUp
  PROVE  TypeInv'
<1>1. /\ UNCHANGED <<graph, points, cmd, runs, writes, dumps>> /\ pc # "free"
      /\ pc' \in {"export", "scroll", "finish", "free"} /\ (Fails \/ UNCHANGED failures)
  BY DEF Discover, BeginExport, Scroll, ExportFails, Upload, CleanUp, store, Goto
<1>2. GraphTyped' /\ PointsTyped'
  BY <1>1, GraphStays, PointsStay DEF TypeInv
<1>3. ControlTyped' /\ runs \in Runs /\ runs \in Nat
  BY <1>1, CountersStay DEF TypeInv, ControlTyped, Steps
<1>4. Work(w) /\ w.source \in 0 .. runs
  BY DEF TypeInv, WorkTyped
<1>5. ASSUME UNCHANGED files PROVE FilesTyped'
  BY <1>1, <1>5, FilesStay DEF TypeInv
<1>6. CASE Scroll
  <2> DEFINE page == Page(w.offset)
             rest == From(w.offset) \ page
             got == w.got \cup page
  <2>1. w.coll \in Collections /\ w.coll \in Existing /\ w.got \subseteq Points
    BY <1>6 DEF Scroll, TypeInv, WorkTyped
  <2>2. points[w.coll] \subseteq Points /\ got \subseteq Points /\ rest \subseteq Points
    BY <2>1, ExistingHasPoints DEF TypeInv, Page, From
  <2>5. w.left \subseteq Existing
    BY <1>6 DEF Scroll, TypeInv, WorkTyped
  <2>3. CASE rest # {}
    <3>1. w' = [w EXCEPT !.got = got, !.offset = Min(rest)] /\ UNCHANGED <<pc, files>> /\ pc = "scroll"
      BY <1>6, <2>3 DEF Scroll
    <3>2. Min(rest) \in Nat
      BY <2>2, <2>3, LeastOf, BackupAssumption
    <3>3. Work(w') /\ w'.coll = w.coll /\ w'.got = got /\ w'.source = w.source
          /\ w'.left = w.left
      BY <1>4, <3>1, <3>2 DEF Work
    <3>4. WorkTyped'
      BY <1>1, <1>4, <2>1, <2>2, <2>5, <3>1, <3>3 DEF WorkTyped, Existing, Phases
    <3> QED BY <1>1, <1>2, <1>3, <3>1, <3>4, FilesStay DEF TypeInv
  <2>4. CASE rest = {}
    <3>1. /\ files' = [files EXCEPT ![Target].exports[w.coll] = [run |-> runs, points |-> got]]
          /\ pc' = "export"
          /\ w' = [w EXCEPT !.got = {}, !.offset = 0, !.keys = @ \/ cmd.upload]
      BY <1>6, <2>4 DEF Scroll, Goto
    <3>2. Work(w') /\ w'.source = w.source /\ w'.left = w.left
      BY <1>4, <3>1 DEF Work
    <3>3. WorkTyped'
      BY <1>1, <1>4, <2>5, <3>1, <3>2 DEF WorkTyped, Phases, Existing
    <3>4. [run |-> runs, points |-> got] \in Export /\ Target \in Places
      BY <1>3, <2>2 DEF Export, Target, Places
    <3>5. FilesTyped'
      BY <1>1, <2>1, <3>1, <3>4 DEF TypeInv, FilesTyped
    <3> QED BY <1>2, <1>3, <3>3, <3>5 DEF TypeInv
  <2> QED BY <2>3, <2>4
<1>7. CASE \E c \in Collections : BeginExport(c)
  <2>1. PICK c \in Collections : BeginExport(c)
    BY <1>7
  <2>2. /\ pc = "export" /\ pc' = "scroll" /\ UNCHANGED files
        /\ w' = [w EXCEPT !.left = @ \ {c}, !.coll = c, !.got = {}, !.offset = 0,
                         !.kept = points[c]]
        /\ c \in w.left
    BY <2>1 DEF BeginExport, Goto
  <2>3. w.left \subseteq Existing
    BY <2>2 DEF TypeInv, WorkTyped
  <2>4. points[c] \subseteq Points
    BY <2>2, <2>3, ExistingHasPoints DEF TypeInv
  <2>5. /\ Work(w') /\ w'.source = w.source /\ w'.coll = c /\ w'.got = {}
        /\ w'.left = w.left \ {c}
    BY <1>4, <2>2, <2>4 DEF Work
  <2>6. WorkTyped'
    BY <1>1, <1>4, <2>2, <2>3, <2>5 DEF WorkTyped, Existing, Phases
  <2> QED BY <1>2, <1>3, <1>5, <2>2, <2>6 DEF TypeInv
<1>8. CASE Discover \/ ExportFails \/ Upload \/ CleanUp
  <2> DEFINE changes ==
        {w, [w EXCEPT !.left = Existing], [w EXCEPT !.failed = TRUE], [w EXCEPT !.keys = TRUE],
         [w EXCEPT !.coll = 0, !.got = {}, !.offset = 0, !.kept = {}]}
  <2>0. w' \in changes
    BY <1>8 DEF Discover, ExportFails, Upload, CleanUp, Goto
  <2>1. Work(w') /\ w'.source = w.source
    <3>1. ASSUME w' = [w EXCEPT !.left = Existing] PROVE Work(w') /\ w'.source = w.source
      BY <1>4, <3>1 DEF Work
    <3>2. ASSUME w' = [w EXCEPT !.failed = TRUE] PROVE Work(w') /\ w'.source = w.source
      BY <1>4, <3>2 DEF Work
    <3>3. ASSUME w' = [w EXCEPT !.keys = TRUE] PROVE Work(w') /\ w'.source = w.source
      BY <1>4, <3>3 DEF Work
    <3>4. ASSUME w' = [w EXCEPT !.coll = 0, !.got = {}, !.offset = 0, !.kept = {}]
          PROVE  Work(w') /\ w'.source = w.source
      BY <1>4, <3>4 DEF Work
    <3> QED BY <1>4, <2>0, <3>1, <3>2, <3>3, <3>4
  <2>2. pc' = "export" => w'.left \subseteq Existing'
    BY <1>1, <1>4, <1>8
       DEF TypeInv, WorkTyped, Work, Existing, Discover, ExportFails, Upload, CleanUp, Goto
  <2>4. pc' \in {"export", "finish", "free"}
    BY <1>8 DEF Discover, ExportFails, Upload, CleanUp, Goto
  <2>5. WorkTyped'
    BY <1>1, <1>4, <2>1, <2>2, <2>4 DEF WorkTyped, Phases
  <2>3. FilesTyped'
    <3>1. CASE UNCHANGED files
      BY <1>5, <3>1
    <3>2. CASE files' = [files EXCEPT !["s3"].dumps = @ \cup {runs}]
      BY <1>1, <1>3, <3>2 DEF TypeInv, FilesTyped, Places, Runs
    <3>3. CASE files' = [files EXCEPT !["disk"].dumps = @ \ {runs}]
      BY <1>1, <3>3 DEF TypeInv, FilesTyped, Places
    <3> QED BY <1>8, <3>1, <3>2, <3>3 DEF Discover, ExportFails, Upload, CleanUp
  <2> QED BY <1>2, <1>3, <2>3, <2>5 DEF TypeInv
<1> QED BY <1>6, <1>7, <1>8


(***************************************************************************)
(* What the transactions of a restore do                                   *)
(***************************************************************************)

\* Each statement creates one node under an id that was free.
LEMMA CreateNodesDoes ==
  ASSUME GraphTyped, NEW statements, statements \subseteq NodeStatement,
         IsFiniteSet(statements), CreateNodes(statements)
  PROVE  \E id \in [statements -> Ids \ Used] :
           /\ \A s \in statements : nodes'[id[s]] = s[2] /\ mark'[id[s]] = s[1]
           /\ \A s, t \in statements : id[s] = id[t] => s = t
           /\ \A i \in Ids \ {id[s] : s \in statements} :
                nodes'[i] = nodes[i] /\ mark'[i] = mark[i]
           /\ Used' = Used \cup {id[s] : s \in statements}
           /\ Cardinality({id[s] : s \in statements}) = Cardinality(statements)
           /\ nodes' \in [Ids -> Keys \cup {None}] /\ mark' \in [Ids -> Ids \cup {None}]
           /\ UNCHANGED rels
<1> DEFINE New(id) == {id[s] : s \in statements}
           For(id, i) == CHOOSE s \in statements : id[s] = i
<1>1. PICK id \in [statements -> Ids \ Used] :
        /\ Cardinality(New(id)) = Cardinality(statements)
        /\ nodes' = [i \in Ids |-> IF i \in New(id) THEN For(id, i)[2] ELSE nodes[i]]
        /\ mark' = [i \in Ids |-> IF i \in New(id) THEN For(id, i)[1] ELSE mark[i]]
        /\ UNCHANGED rels
  BY DEF CreateNodes
<1>2. id \in Surjection(statements, New(id))
  BY DEF Surjection
<1>3. id \in Injection(statements, New(id))
  BY <1>1, <1>2, FS_SurjSameCardinalityImpliesInj
<1>4. \A s, t \in statements : id[s] = id[t] => s = t
  BY <1>3 DEF Injection, IsInjective
<1>5. ASSUME NEW s \in statements PROVE For(id, id[s]) = s
  BY <1>4, <1>5
<1>6. New(id) \subseteq Ids
  OBVIOUS
<1>7. \A s \in statements : s[1] \in Ids /\ s[2] \in Keys
  BY DEF NodeStatement
<1>8. \A i \in New(id) : \E s \in statements : i = id[s]
  OBVIOUS
<1> HIDE DEF New, For
<1>9. \A s \in statements : id[s] \in New(id)
  BY DEF New
<1>10. \A s \in statements : nodes'[id[s]] = s[2] /\ mark'[id[s]] = s[1]
  BY <1>1, <1>5, <1>6, <1>9
<1>11. \A i \in Ids \ New(id) : nodes'[i] = nodes[i] /\ mark'[i] = mark[i]
  BY <1>1
<1>12. \A i \in New(id) : nodes'[i] \in Keys /\ mark'[i] \in Ids
  BY <1>7, <1>8, <1>10
<1>13. Used' = Used \cup New(id)
  BY <1>6, <1>11, <1>12, BackupAssumption DEF Used
<1>14. nodes' \in [Ids -> Keys \cup {None}] /\ mark' \in [Ids -> Ids \cup {None}]
  <2>1. \A i \in Ids : nodes'[i] \in Keys \cup {None} /\ mark'[i] \in Ids \cup {None}
    BY <1>11, <1>12 DEF GraphTyped
  <2> QED BY <1>1, <2>1
<1> QED BY <1>1, <1>4, <1>10, <1>11, <1>13, <1>14 DEF New

LEMMA CreateRelsTyped ==
  ASSUME GraphTyped, NEW statements, IsFiniteSet(statements), CreateRels(statements)
  PROVE  GraphTyped'
<1> DEFINE Between(p) == {s \in statements : Matches(p[1], s[1]) /\ Matches(p[2], s[2])}
<1>1. /\ rels' = [p \in Ids \X Ids |-> rels[p] + Cardinality(Between(p))]
      /\ UNCHANGED <<nodes, mark>>
  BY DEF CreateRels
<1>2. ASSUME NEW p \in Ids \X Ids
      PROVE  /\ Cardinality(Between(p)) \in Nat
             /\ Cardinality(Between(p)) > 0 => p[1] \in Used /\ p[2] \in Used
  <2>1. Between(p) \in SUBSET statements
    OBVIOUS
  <2>2. Cardinality(Between(p)) \in Nat
    BY <2>1, FS_Subset, FS_CardinalityType
  <2>3. CASE Between(p) = {}
    <3> HIDE DEF Between
    <3>1. Cardinality(Between(p)) = 0
      BY <2>3, FS_EmptySet
    <3> QED BY <2>2, <3>1
  <2>4. CASE Between(p) # {}
    BY <2>2, <2>4 DEF Matches, Used
  <2> QED BY <2>3, <2>4
<1> HIDE DEF Between
<1>3. \A p \in Ids \X Ids : rels[p] \in Nat /\ rels'[p] = rels[p] + Cardinality(Between(p))
  BY <1>1 DEF GraphTyped
<1>4. \A p \in Ids \X Ids : rels'[p] \in Nat /\ (rels'[p] > 0 => p[1] \in Used /\ p[2] \in Used)
  BY <1>2, <1>3 DEF GraphTyped
<1>5. rels' \in [Ids \X Ids -> Nat]
  BY <1>1, <1>4
<1> QED BY <1>1, <1>4, <1>5 DEF GraphTyped, Used

LEMMA RemoveMarksTyped ==
  ASSUME GraphTyped, NEW labels, RemoveMarks(labels)
  PROVE  GraphTyped'
BY DEF GraphTyped, RemoveMarks, Used

\* The statements of a phase are those of the dump that is restored.
LEMMA SourceIsFile ==
  ASSUME TypeInv, pc \in Phases \cup {"clear", "index"}
  PROVE  /\ FiniteFile(Dump) /\ w.source \in Runs
         /\ pc = "nodes" => w.left \cup w.alone \subseteq NodeStatement
         /\ pc \in {"nodes", "rels"} => IsFiniteSet(w.left \cup w.alone)
<1>1. w.source \in Runs
  BY BackupAssumption DEF TypeInv, WorkTyped, ControlTyped, Runs
<1>2. FiniteFile(Dump)
  BY <1>1 DEF TypeInv, FilesTyped, Dump, FiniteFile
<1>3. pc = "nodes" => w.left \cup w.alone \in SUBSET Dump.nodes
  BY DEF TypeInv, WorkTyped
<1>4. pc = "rels" => w.left \cup w.alone \in SUBSET Dump.rels
  BY DEF TypeInv, WorkTyped
<1>5. Dump.nodes \subseteq NodeStatement
  BY <1>2 DEF FiniteFile, DumpFile
<1> QED BY <1>1, <1>2, <1>3, <1>4, <1>5, FS_Subset DEF FiniteFile

LEMMA ExecuteTyped ==
  ASSUME TypeInv, pc \in Phases, NEW statements \in SUBSET (w.left \cup w.alone),
         Execute(statements)
  PROVE  GraphTyped'
<1>1. pc \in {"nodes", "rels"} => IsFiniteSet(statements)
  BY SourceIsFile, FS_Subset
<1>2. CASE pc = "nodes"
  <2>1. CreateNodes(statements) /\ statements \subseteq NodeStatement
    BY <1>2, SourceIsFile DEF Execute
  <2>2. /\ Used \subseteq Used' /\ UNCHANGED rels
        /\ nodes' \in [Ids -> Keys \cup {None}] /\ mark' \in [Ids -> Ids \cup {None}]
    BY <1>1, <1>2, <2>1, CreateNodesDoes DEF TypeInv
  <2> QED BY <2>2 DEF TypeInv, GraphTyped
<1>3. CASE pc = "rels"
  <2>1. CreateRels(statements)
    BY <1>3 DEF Execute
  <2> QED BY <1>1, <1>3, <2>1, CreateRelsTyped DEF TypeInv
<1>4. CASE pc = "marks"
  <2>1. RemoveMarks(statements)
    BY <1>4 DEF Execute
  <2> QED BY <2>1, RemoveMarksTyped DEF TypeInv
<1> QED BY <1>2, <1>3, <1>4 DEF Phases


\* A step of a phase: a transaction that is done, one that is left as it was, one
\* that is done without an answer, one statement that is counted as an error.
Rest == w.left \cup w.alone
Performed(statements) ==
  Execute(statements) /\ Rest' = Rest \ statements /\ w'.lost = w.lost /\ w'.errors = w.errors
Unperformed ==
  UNCHANGED graph /\ Rest' = Rest /\ w'.lost = w.lost /\ w'.errors = w.errors
Unanswered(statements) ==
  Execute(statements) /\ Rest' = Rest /\ w'.lost /\ w'.errors = w.errors
Counted(statement) ==
  /\ UNCHANGED graph /\ Rest' = Rest \ {statement}
  /\ w'.lost = w.lost /\ w'.errors = w.errors + 1

PhaseStep ==
  /\ pc \in Phases
  /\ \/ \E batch \in Batches : CommitBatch(batch) \/ RollBack(batch) \/ LoseAnswer(batch)
     \/ \E statement \in w.alone : RunAlone(statement)

LEMMA PhaseDoes ==
  ASSUME TypeInv, PhaseStep
  PROVE  /\ UNCHANGED <<points, cmd, pc, dumps, files, runs, writes>>
         /\ Fails \/ UNCHANGED failures
         /\ Work(w') /\ w'.left \cap w'.alone = {} /\ w'.source = w.source
         /\ w'.coll = w.coll /\ w'.got = w.got /\ w'.kept = w.kept
         /\ w'.quiet = w.quiet /\ w'.dumped = w.dumped /\ w'.failed = w.failed
         /\ \/ \E statements \in SUBSET Rest : Performed(statements) \/ Unanswered(statements)
            \/ Unperformed
            \/ \E statement \in Rest : Counted(statement)
<1>1. /\ UNCHANGED <<points, cmd, pc, dumps, files, runs, writes>>
      /\ Fails \/ UNCHANGED failures
  BY DEF PhaseStep, Phase, CommitBatch, RollBack, LoseAnswer, RunAlone
<1>2. Work(w) /\ w.left \cap w.alone = {} /\ w.errors \in Nat
  BY DEF PhaseStep, TypeInv, WorkTyped, Work
<1> DEFINE Same == /\ w'.source = w.source /\ w'.coll = w.coll /\ w'.got = w.got
                   /\ w'.kept = w.kept /\ w'.quiet = w.quiet /\ w'.dumped = w.dumped
                   /\ w'.failed = w.failed
<1>3. ASSUME NEW batch \in Batches, CommitBatch(batch) \/ RollBack(batch) \/ LoseAnswer(batch)
      PROVE  /\ Work(w') /\ w'.left \cap w'.alone = {} /\ Same
             /\ \/ \E statements \in SUBSET Rest : Performed(statements) \/ Unanswered(statements)
                \/ Unperformed
  <2>1. batch \subseteq w.left /\ batch \in SUBSET Rest
    BY <1>3 DEF Batches, kSubset, Rest
  <2>2. CASE CommitBatch(batch)
    <3>1. w' = [w EXCEPT !.left = @ \ batch] /\ Execute(batch)
      BY <2>2 DEF CommitBatch
    <3>2. /\ Work(w') /\ Same /\ w'.left = w.left \ batch /\ w'.alone = w.alone
          /\ w'.lost = w.lost /\ w'.errors = w.errors
      BY <1>2, <3>1 DEF Work
    <3>3. Rest' = Rest \ batch
      BY <1>2, <2>1, <3>2 DEF Rest
    <3> QED BY <1>2, <2>1, <3>1, <3>2, <3>3 DEF Performed
  <2>3. CASE RollBack(batch)
    <3>1. w' = [w EXCEPT !.left = @ \ batch, !.alone = @ \cup batch] /\ UNCHANGED graph
      BY <2>3 DEF RollBack
    <3>2. /\ Work(w') /\ Same /\ w'.left = w.left \ batch /\ w'.alone = w.alone \cup batch
          /\ w'.lost = w.lost /\ w'.errors = w.errors
      BY <1>2, <3>1 DEF Work
    <3>3. Rest' = Rest
      BY <2>1, <3>2 DEF Rest
    <3> QED BY <1>2, <3>1, <3>2, <3>3 DEF Unperformed
  <2>4. CASE LoseAnswer(batch)
    <3>1. w' = [w EXCEPT !.left = @ \ batch, !.alone = @ \cup batch, !.lost = TRUE]
          /\ Execute(batch)
      BY <2>4 DEF LoseAnswer
    <3>2. /\ Work(w') /\ Same /\ w'.left = w.left \ batch /\ w'.alone = w.alone \cup batch
          /\ w'.lost /\ w'.errors = w.errors
      BY <1>2, <3>1 DEF Work
    <3>3. Rest' = Rest
      BY <2>1, <3>2 DEF Rest
    <3> QED BY <1>2, <2>1, <3>1, <3>2, <3>3 DEF Unanswered
  <2> QED BY <1>3, <2>2, <2>3, <2>4
<1>4. ASSUME NEW statement \in w.alone, RunAlone(statement)
      PROVE  /\ Work(w') /\ w'.left \cap w'.alone = {} /\ Same
             /\ \/ \E statements \in SUBSET Rest : Performed(statements)
                \/ \E s \in Rest : Counted(s)
  <2>1. statement \in Rest /\ {statement} \in SUBSET Rest
    BY <1>4 DEF Rest
  <2>2. CASE w' = [w EXCEPT !.alone = @ \ {statement}] /\ Execute({statement})
    <3>1. /\ Work(w') /\ Same /\ w'.left = w.left /\ w'.alone = w.alone \ {statement}
          /\ w'.lost = w.lost /\ w'.errors = w.errors
      BY <1>2, <2>2 DEF Work
    <3>2. Rest' = Rest \ {statement}
      BY <1>2, <1>4, <3>1 DEF Rest
    <3> QED BY <1>2, <2>1, <2>2, <3>1, <3>2 DEF Performed
  <2>3. CASE w' = [w EXCEPT !.alone = @ \ {statement}, !.errors = @ + 1] /\ UNCHANGED graph
    <3> DEFINE k == w.errors + 1
    <3>0. k \in Nat
      BY <1>2
    <3> HIDE DEF k
    <3>3. w' = [w EXCEPT !.alone = @ \ {statement}, !.errors = k]
      BY <2>3 DEF k
    <3>4. /\ Work(w') /\ Same /\ w'.left = w.left /\ w'.alone = w.alone \ {statement}
          /\ w'.lost = w.lost /\ w'.errors = k
      BY <1>2, <3>0, <3>3 DEF Work
    <3>1. /\ Work(w') /\ Same /\ w'.left = w.left /\ w'.alone = w.alone \ {statement}
          /\ w'.lost = w.lost /\ w'.errors = w.errors + 1
      BY <3>4 DEF k
    <3>2. Rest' = Rest \ {statement}
      BY <1>2, <1>4, <3>1 DEF Rest
    <3> QED BY <1>2, <2>1, <2>3, <3>1, <3>2 DEF Counted
  <2> QED BY <1>4, <2>2, <2>3 DEF RunAlone
<1> HIDE DEF Same
<1>5. Work(w') /\ w'.left \cap w'.alone = {} /\ Same
      /\ \/ \E statements \in SUBSET Rest : Performed(statements) \/ Unanswered(statements)
         \/ Unperformed
         \/ \E statement \in Rest : Counted(statement)
  BY <1>3, <1>4 DEF PhaseStep
<1> QED BY <1>1, <1>5 DEF Same

LEMMA PhaseTyped == ASSUME TypeInv, PhaseStep PROVE TypeInv'
<1>1. /\ UNCHANGED <<points, cmd, pc, dumps, files, runs, writes>>
      /\ Fails \/ UNCHANGED failures
      /\ Work(w') /\ w'.left \cap w'.alone = {} /\ w'.source = w.source /\ w'.coll = w.coll
  BY PhaseDoes
<1>2. GraphTyped' /\ Rest' \subseteq Rest
  <2>1. ASSUME NEW statements \in SUBSET Rest, Performed(statements) \/ Unanswered(statements)
        PROVE  GraphTyped' /\ Rest' \subseteq Rest
    BY <2>1, ExecuteTyped DEF PhaseStep, Performed, Unanswered, Rest
  <2>2. ASSUME UNCHANGED graph PROVE GraphTyped'
    BY <2>2, GraphStays DEF TypeInv
  <2> QED BY <2>1, <2>2, PhaseDoes DEF Unperformed, Counted
<1>3. WorkTyped'
  BY <1>1, <1>2 DEF TypeInv, WorkTyped, Dump, Phases, Rest, PhaseStep
<1> QED BY <1>1, <1>2, <1>3, PointsStay, FilesStay, CountersStay DEF TypeInv, ControlTyped

LEMMA RestoreTyped ==
  ASSUME TypeInv, NEW from \in Places, NEW clear \in BOOLEAN, Restore(from, clear)
  PROVE  TypeInv'
<1>1. /\ UNCHANGED <<graph, points, dumps, files, writes, failures>>
      /\ runs < MaxRuns /\ runs' = runs + 1 /\ cmd' = [Idle EXCEPT !.from = from, !.clear = clear]
  BY DEF Restore, Run, store
<1>2. runs \in Nat /\ runs' \in Runs /\ runs' \in 0 .. MaxRuns /\ MaxRuns \in Nat
  BY <1>1, BackupAssumption DEF TypeInv, ControlTyped, Runs
<1>3. GraphTyped' /\ PointsTyped'
  BY <1>1, GraphStays, PointsStay DEF TypeInv
<1>4. FilesTyped'
  <2>1. 1 .. runs \subseteq 1 .. runs'
    BY <1>1, <1>2
  <2> QED BY <1>1, <2>1 DEF TypeInv, FilesTyped
<1>5. cmd' \in Options
  BY <1>1 DEF Idle, Options
<1>6. CASE files[from].dumps # {}
  <2> DEFINE m == Max(files[from].dumps)
  <2>1. m \in 1 .. runs
    <3>1. files[from].dumps \subseteq 1 .. runs
      BY DEF TypeInv, FilesTyped
    <3>2. files[from].dumps \subseteq 0 .. runs
      BY <3>1
    <3> QED BY <1>2, <1>6, <3>1, <3>2, GreatestOf
  <2> HIDE DEF m
  <2>2. pc' = "clear" /\ w' = [Fresh EXCEPT !.source = m]
    BY <1>6 DEF Restore, Goto, m
  <2>3. Work(w') /\ w'.source = m /\ w'.alone = {}
    BY <2>2, FreshIsWork DEF Work
  <2>4. m \in 0 .. runs' /\ m \in 1 .. runs'
    BY <1>1, <1>2, <2>1
  <2>5. WorkTyped'
    BY <2>2, <2>3, <2>4 DEF WorkTyped, Phases
  <2>6. ControlTyped'
    BY <1>1, <1>2, <1>5, <2>2 DEF TypeInv, ControlTyped, Steps
  <2> QED BY <1>3, <1>4, <2>5, <2>6 DEF TypeInv
<1>7. CASE files[from].dumps = {}
  <2>1. pc' \in {"free", "collections"} /\ w' = Fresh
    BY <1>7 DEF Restore, Goto
  <2>2. WorkTyped'
    BY <1>1, <1>2, <2>1, FreshIsWork DEF WorkTyped, Phases
  <2>3. ControlTyped'
    BY <1>1, <1>2, <1>5, <2>1 DEF TypeInv, ControlTyped, Steps
  <2> QED BY <1>3, <1>4, <2>2, <2>3 DEF TypeInv
<1> QED BY <1>6, <1>7

LEMMA ClearGraphTyped == ASSUME TypeInv, ClearGraph PROVE TypeInv'
<1>1. /\ UNCHANGED <<points, cmd, dumps, files, runs, writes, failures>>
      /\ pc = "clear" /\ pc' = "nodes"
      /\ w' = [w EXCEPT !.left = IF Dump.apoc THEN {} ELSE Dump.nodes]
  BY DEF ClearGraph, Goto
<1>2. Work(w) /\ w.source \in 1 .. runs /\ w.alone = {}
  BY <1>1 DEF TypeInv, WorkTyped
<1>3. Work(w') /\ w'.source = w.source /\ w'.alone = {} /\ w'.left \subseteq Dump.nodes
  BY <1>1, <1>2 DEF Work
<1>4. WorkTyped'
  BY <1>1, <1>2, <1>3 DEF WorkTyped, Dump, Phases
<1>5. GraphTyped'
  <2>1. CASE cmd.clear
    BY <2>1 DEF ClearGraph, TypeInv, GraphTyped
  <2>2. CASE ~cmd.clear
    BY <2>2, GraphStays DEF ClearGraph, TypeInv
  <2> QED BY <2>1, <2>2
<1> QED BY <1>1, <1>4, <1>5, PointsStay, FilesStay DEF TypeInv, ControlTyped, Steps

\* The statements between the nodes and the relationships.
LEMMA RunIndexesTyped == ASSUME TypeInv, RunIndexes PROVE TypeInv'
<1> DEFINE drops == Cardinality(Dump.marks)
<1>1. /\ UNCHANGED <<graph, points, cmd, dumps, files, runs, writes>> /\ pc = "index"
      /\ pc' = "rels" /\ (Fails \/ UNCHANGED failures)
      /\ \/ w' = [w EXCEPT !.left = Dump.rels, !.errors = @ + drops]
         \/ w' = [[w EXCEPT !.left = Dump.rels, !.errors = @ + drops] EXCEPT !.errors = @ + 1]
  BY DEF RunIndexes, Goto, store
<1>2. Work(w) /\ w.source \in 1 .. runs /\ w.alone = {} /\ w.errors \in Nat
  BY <1>1 DEF TypeInv, WorkTyped, Work
<1>3. drops \in Nat
  BY <1>1, SourceIsFile, FS_CardinalityType DEF FiniteFile
<1> HIDE DEF drops
<1>4. PICK k \in Nat : w' = [w EXCEPT !.left = Dump.rels, !.errors = k]
  <2>1. w.errors + drops \in Nat /\ w.errors + drops + 1 \in Nat
    BY <1>2, <1>3
  <2> QED BY <1>1, <1>2, <2>1 DEF Work
<1>5. Work(w') /\ w'.source = w.source /\ w'.alone = {} /\ w'.left = Dump.rels
  BY <1>2, <1>4 DEF Work
<1>6. WorkTyped'
  BY <1>1, <1>2, <1>5 DEF WorkTyped, Dump, Phases
<1> QED BY <1>1, <1>6, GraphStays, PointsStay, FilesStay, CountersStay
     DEF TypeInv, ControlTyped, Steps

LEMMA RunForeignTyped == ASSUME TypeInv, RunForeign PROVE TypeInv'
<1>1. /\ UNCHANGED <<mark, points, cmd, dumps, files, runs, writes, failures>> /\ pc = "index"
      /\ pc' = "rels" /\ w' = [w EXCEPT !.errors = @ + 1]
  BY DEF RunForeign, CreateSome, Goto
<1>2. Work(w) /\ w.source \in 1 .. runs /\ w.alone = {} /\ w.left = {} /\ w.errors \in Nat
  BY <1>1 DEF TypeInv, WorkTyped, Work
<1>3. Work(w') /\ w'.source = w.source /\ w'.alone = {} /\ w'.left = {}
  <2>1. PICK k \in Nat : k = w.errors + 1
    BY <1>2
  <2>2. w' = [w EXCEPT !.errors = k]
    BY <1>1, <1>2, <2>1 DEF Work
  <2> QED BY <1>2, <2>2 DEF Work
<1>4. WorkTyped'
  BY <1>1, <1>2, <1>3 DEF WorkTyped, Dump, Phases
<1>5. GraphTyped'
  <2>0. PICK made \in SUBSET Dump.nodes, linked \in SUBSET Dump.rels :
          \E id \in [made -> Ids \ Used] : CreateSome(id, made, linked)
    BY DEF RunForeign
  <2>1. PICK id \in [made -> Ids \ Used] : CreateSome(id, made, linked)
    BY <2>0
  <2>2. /\ nodes' = [i \in Ids |-> IF \E n \in made : id[n] = i
                                  THEN (CHOOSE n \in made : id[n] = i)[2] ELSE nodes[i]]
        /\ rels' = [p \in Ids \X Ids |->
                      IF \E m, n \in made :
                           /\ p = <<id[m], id[n]>>
                           /\ \E s \in linked : s[1] = StandsFor(m) /\ s[2] = StandsFor(n)
                      THEN 1 ELSE rels[p]]
    BY <2>1 DEF CreateSome
  <2> DEFINE New == {i \in Ids : \E n \in made : id[n] = i}
             For(i) == CHOOSE n \in made : id[n] = i
  <2>3. made \subseteq NodeStatement
    BY <1>1, SourceIsFile DEF FiniteFile, DumpFile
  <2>4. ASSUME NEW i \in New PROVE nodes'[i] \in Keys
    <3>1. For(i) \in made
      OBVIOUS
    <3>2. nodes'[i] = For(i)[2]
      BY <2>2
    <3> QED BY <2>3, <3>1, <3>2 DEF NodeStatement
  <2>5. \A i \in Ids \ New : nodes'[i] = nodes[i]
    BY <2>2
  <2>6. \A p \in Ids \X Ids : rels'[p] = rels[p] \/ (rels'[p] = 1 /\ p[1] \in New /\ p[2] \in New)
    BY <2>2
  <2> HIDE DEF New, For
  <2>7. New \subseteq Used' /\ Used \subseteq Used'
    BY <2>4, <2>5, BackupAssumption DEF Used, New
  <2>8. nodes' \in [Ids -> Keys \cup {None}]
    <3>1. \A i \in Ids : nodes'[i] \in Keys \cup {None}
      BY <2>4, <2>5 DEF TypeInv, GraphTyped
    <3> QED BY <2>2, <3>1
  <2>9. rels' \in [Ids \X Ids -> Nat]
    <3>1. \A p \in Ids \X Ids : rels'[p] \in Nat
      BY <2>6 DEF TypeInv, GraphTyped
    <3> QED BY <2>2, <3>1
  <2>10. \A p \in Ids \X Ids : rels'[p] > 0 => p[1] \in Used' /\ p[2] \in Used'
    BY <2>6, <2>7 DEF TypeInv, GraphTyped
  <2> QED BY <1>1, <2>8, <2>9, <2>10 DEF TypeInv, GraphTyped
<1> QED BY <1>1, <1>4, <1>5, PointsStay, FilesStay DEF TypeInv, ControlTyped, Steps

LEMMA NextPhaseTyped == ASSUME TypeInv, NextPhase PROVE TypeInv'
<1>1. UNCHANGED <<graph, points, cmd, dumps, files, runs, writes, failures>>
      /\ w.left = {} /\ w.alone = {}
  BY DEF NextPhase, Done, store
<1>2. \/ pc = "nodes" /\ pc' = "index" /\ w' = w
      \/ pc = "rels" /\ pc' = "marks" /\ w' = [w EXCEPT !.left = Dump.marks]
      \/ pc = "marks" /\ pc' = "collections" /\ w' = w
  BY DEF NextPhase, Goto
<1>3. Work(w) /\ w.source \in 1 .. runs /\ w.source \in 0 .. runs
  BY <1>2 DEF TypeInv, WorkTyped, Phases
<1>4. /\ Work(w') /\ w'.source = w.source /\ w'.alone = {}
      /\ pc' = "index" => w'.left = {}
  BY <1>1, <1>2, <1>3 DEF Work
<1>5. WorkTyped'
  BY <1>1, <1>2, <1>3, <1>4 DEF WorkTyped, Dump, Phases
<1> QED BY <1>1, <1>2, <1>5, GraphStays, PointsStay, FilesStay DEF TypeInv, ControlTyped, Steps

\* The restore of the collections.
LEMMA CollectionTyped ==
  ASSUME TypeInv,
         \/ ListExports \/ (\E c \in Collections : BeginCollection(c)) \/ DeleteCollection
         \/ CreateCollection \/ UpsertBatch \/ CollectionFails \/ EndRestore
  PROVE  TypeInv'
<1>1. /\ UNCHANGED <<graph, cmd, runs, writes, dumps, files>> /\ pc # "free"
      /\ pc' \in {"restore", "create", "delete", "upsert", "free"}
      /\ Fails \/ UNCHANGED failures
  BY DEF ListExports, BeginCollection, DeleteCollection, CreateCollection, UpsertBatch,
         CollectionFails, EndRestore, Abandon, Goto, store
<1>2. GraphTyped' /\ FilesTyped' /\ ControlTyped'
  BY <1>1, GraphStays, FilesStay, CountersStay DEF TypeInv, ControlTyped, Steps
<1>3. Work(w) /\ w.source \in 0 .. runs
  BY DEF TypeInv, WorkTyped
<1>4. CASE ListExports \/ EndRestore
  <2>1. /\ w' \in {w, [w EXCEPT !.left = w'.left]} /\ pc' \in {"restore", "free"}
        /\ UNCHANGED points
    BY <1>3, <1>4 DEF ListExports, EndRestore, Goto, store, Work
  <2>2. Work(w') /\ w'.source = w.source
    BY <1>3, <2>1 DEF Work
  <2> QED BY <1>1, <1>2, <1>3, <2>1, <2>2, PointsStay DEF TypeInv, WorkTyped, Phases
<1>5. CASE \E c \in Collections : BeginCollection(c)
  <2>1. PICK c \in Collections : BeginCollection(c)
    BY <1>5
  <2> DEFINE exported == files[cmd.from].exports[c].points
  <2>2. /\ w' = [w EXCEPT !.left = @ \ {c}, !.coll = c, !.got = exported, !.kept = exported]
        /\ pc' = (IF c \notin Existing THEN "create" ELSE IF cmd.clear THEN "delete" ELSE "upsert")
        /\ UNCHANGED points
    BY <2>1 DEF BeginCollection, Goto, store
  <2>3. exported \subseteq Points
    BY DEF TypeInv, ControlTyped, FilesTyped, Options, Export
  <2> HIDE DEF exported
  <2>4. Work(w') /\ w'.source = w.source /\ w'.coll = c /\ w'.got = exported
    BY <1>3, <2>2, <2>3 DEF Work
  <2>5. WorkTyped'
    BY <1>1, <1>3, <2>2, <2>3, <2>4 DEF WorkTyped, Phases, Existing
  <2> QED BY <1>2, <2>2, <2>5, PointsStay DEF TypeInv
<1>6. CASE DeleteCollection \/ CreateCollection
  <2>1. /\ w.coll \in Collections /\ w.got \subseteq Points /\ w' = w
    BY <1>6 DEF DeleteCollection, CreateCollection, TypeInv, WorkTyped
  <2>2. PointsTyped'
    BY <1>6, <2>1 DEF DeleteCollection, CreateCollection, TypeInv, PointsTyped
  <2>3. CreateCollection => w.coll \in Existing'
    BY <2>1 DEF CreateCollection, Existing, TypeInv, PointsTyped, NoCollection
  <2>4. \/ DeleteCollection /\ pc' = "create"
        \/ CreateCollection /\ pc' = "upsert"
    BY <1>6 DEF DeleteCollection, CreateCollection
  <2>5. WorkTyped'
    BY <1>1, <1>3, <2>1, <2>3, <2>4 DEF WorkTyped, Phases
  <2> QED BY <1>2, <2>2, <2>5 DEF TypeInv
<1>7. CASE UpsertBatch
  <2> DEFINE batch == {p \in w.got : Cardinality({q \in w.got : q < p}) < PageSize}
  <2>1. /\ pc = "upsert" /\ pc' \in {"restore", "upsert"} /\ w' = [w EXCEPT !.got = @ \ batch]
        /\ points' = [points EXCEPT ![w.coll] = @ \cup batch]
    BY <1>7 DEF UpsertBatch, Goto
  <2>2. w.coll \in Existing /\ w.coll \in Collections /\ w.got \subseteq Points /\ batch \subseteq Points
    BY <2>1 DEF TypeInv, WorkTyped
  <2> HIDE DEF batch
  <2>3. points[w.coll] \subseteq Points /\ points[w.coll] \cup batch \subseteq Points
    BY <2>2, ExistingHasPoints DEF TypeInv
  <2>4. PointsTyped' /\ w.coll \in Existing'
    <3>1. -1 \notin Points
      BY BackupAssumption
    <3> QED BY <2>1, <2>2, <2>3, <3>1 DEF TypeInv, PointsTyped, Existing, NoCollection
  <2>5. Work(w') /\ w'.source = w.source /\ w'.coll = w.coll /\ w'.got \subseteq Points
    BY <1>3, <2>1, <2>2 DEF Work
  <2>6. WorkTyped'
    BY <1>1, <1>3, <2>1, <2>2, <2>4, <2>5 DEF WorkTyped, Phases
  <2> QED BY <1>2, <2>4, <2>6 DEF TypeInv
<1>8. CASE CollectionFails
  <2>1. /\ pc' \in {"restore", "free"} /\ UNCHANGED points
        /\ w' = [w EXCEPT !.coll = 0, !.got = {}, !.kept = {}]
    BY <1>8 DEF CollectionFails, Abandon, Goto, store
  <2>2. Work(w') /\ w'.source = w.source
    BY <1>3, <2>1 DEF Work
  <2>3. WorkTyped'
    BY <1>1, <1>3, <2>1, <2>2 DEF WorkTyped, Phases
  <2> QED BY <1>2, <2>1, <2>3, PointsStay DEF TypeInv
<1> QED BY <1>4, <1>5, <1>6, <1>7, <1>8

LEMMA KilledTyped == ASSUME TypeInv, Killed PROVE TypeInv'
<1>1. /\ UNCHANGED <<graph, points, cmd, dumps, files, runs, writes>> /\ Fails
      /\ pc' = "free" /\ w' = [Fresh EXCEPT !.dumped = w.dumped, !.failed = TRUE]
  BY DEF Killed, Goto, store
<1>2. Work(w) /\ runs \in Nat
  BY DEF TypeInv, WorkTyped, ControlTyped
<1>3. w.dumped \in BOOLEAN
  BY <1>2 DEF Work
<1>4. Work(w') /\ w'.source = 0
  BY <1>1, <1>3, FreshIsWork DEF Work
<1>5. WorkTyped'
  BY <1>1, <1>2, <1>4 DEF WorkTyped, Phases
<1> QED BY <1>1, <1>5, GraphStays, PointsStay, FilesStay, CountersStay
     DEF TypeInv, ControlTyped, Steps

LEMMA TypeInit == Init => TypeInv
<1> SUFFICES ASSUME Init PROVE TypeInv
  OBVIOUS
<1>1. GraphTyped
  <2>1. rels = [p \in Ids \X Ids |-> IF <<nodes[p[1]], nodes[p[2]]>> \in Links THEN 1 ELSE 0]
        /\ nodes \in [Ids -> Keys \cup {None}] /\ mark = [i \in Ids |-> None]
    BY DEF Init
  <2>2. \A p \in Ids \X Ids : rels[p] \in Nat /\ (rels[p] > 0 => p[1] \in Used /\ p[2] \in Used)
    BY <2>1, BackupAssumption DEF Used
  <2> QED BY <2>1, <2>2 DEF GraphTyped
<1>2. PointsTyped
  BY DEF Init, PointsTyped
<1>3. ControlTyped
  BY BackupAssumption DEF Init, ControlTyped, Idle, Options, Places, Steps
<1>4. FilesTyped
  BY FS_EmptySet DEF Init, FilesTyped, NoDump, DumpFile, NoExport, Export
<1>5. WorkTyped
  BY FreshIsWork DEF Init, WorkTyped, Phases
<1> QED BY <1>1, <1>2, <1>3, <1>4, <1>5 DEF TypeInv

LEMMA TypeStays == ASSUME TypeInv, UNCHANGED vars PROVE TypeInv'
<1>1. UNCHANGED <<graph, points, cmd, pc, w, dumps, files, runs, writes, failures>>
  BY DEF vars, store
<1>2. WorkTyped'
  BY <1>1, WorkStays DEF TypeInv, WorkTyped
<1> QED BY <1>1, <1>2, GraphStays, PointsStay, FilesStay DEF TypeInv, ControlTyped

\* The steps of a run, in the groups the proofs need.
LEMMA NextIs ==
  Next =>
    \/ Server \/ Killed \/ PhaseStep \/ ClearGraph \/ RunIndexes \/ RunForeign \/ NextPhase
    \/ \E upload, cleanup \in BOOLEAN : Snapshot(upload, cleanup)
    \/ \E from \in Places, clear \in BOOLEAN : Restore(from, clear)
    \/ (\E label \in Labels : DumpLabel(label)) \/ DumpRels \/ DumpFails
    \/ Discover \/ (\E c \in Collections : BeginExport(c)) \/ Scroll \/ ExportFails
    \/ Upload \/ CleanUp
    \/ ListExports \/ (\E c \in Collections : BeginCollection(c)) \/ DeleteCollection
    \/ CreateCollection \/ UpsertBatch \/ CollectionFails \/ EndRestore
BY DEF Next, SnapshotStep, RestoreStep, PhaseStep

LEMMA TypeAlways == Spec => []TypeInv
<1>1. TypeInv /\ [Next]_vars => TypeInv'
  <2> SUFFICES ASSUME TypeInv, [Next]_vars PROVE TypeInv'
    OBVIOUS
  <2>1. CASE Next
    BY <2>1, NextIs, ServerTyped, KilledTyped, PhaseTyped, ClearGraphTyped, NextPhaseTyped,
       RunIndexesTyped, RunForeignTyped, SnapshotTyped, RestoreTyped, LabelsTyped, ExportTyped, CollectionTyped
  <2>2. CASE UNCHANGED vars
    BY <2>2, TypeStays
  <2> QED BY <2>1, <2>2
<1> QED BY TypeInit, <1>1, PTL DEF Spec

\* Whatever fails and whoever writes meanwhile, a run has what its step needs: a
\* source to restore, statements of its dump, a collection that is there.
THEOREM TypeCorrect == Spec => []TypeOK
<1>1. TypeInv => TypeOK
  BY DEF TypeInv, GraphTyped, PointsTyped, ControlTyped, FilesTyped, WorkTyped, Options, TypeOK
<1> QED BY <1>1, TypeAlways, PTL

(***************************************************************************)
(* A run between its steps                                                 *)
(***************************************************************************)

\* The dump is in the directory until the cleanup, and in S3 if the upload did not
\* fail.  Only a snapshot has one.
LossInv ==
  /\ Snapshotting /\ w.dumped => runs \in files["disk"].dumps
  /\ pc = "finish" /\ cmd.upload /\ w.dumped => runs \in files["s3"].dumps \/ w.failed
  /\ pc \notin {"discover", "export", "scroll", "finish", "free"} => ~w.dumped
  /\ LossIsReported

\* The statements of the labels that are not read yet are all that is missing, and
\* a node that stays is among them or read.
DumpInv ==
  /\ pc = "labels" /\ w.quiet => w.got \cup NodeStatements(w.left) = NodeStatements(Labels)
  /\ pc = "labels" => w.stayed \subseteq w.got \cup NodeStatements(w.left)
  /\ QuietDumpIsExact /\ StayingIsDumped

\* A point that stays is still in the collection until a page has it, before the
\* offset, and in the export once that is written.
StayInv ==
  /\ pc \in {"labels", "discover"} => w.coll = 0
  /\ pc = "scroll" => w.kept \subseteq points[w.coll]
  /\ StayingIsExported

\* A point of the export that nobody has deleted is yet to be written or is there.
ThereInv ==
  /\ pc \in Phases \cup {"clear", "index", "collections"} => w.coll = 0
  /\ pc \in {"delete", "create"} => w.kept \subseteq w.got
  /\ pc = "upsert" => w.kept \subseteq w.got \cup points[w.coll]
  /\ pc = "restore" => w.coll \in Collections \cup {0}
  /\ RestoredIsThere

RunInv == LossInv /\ DumpInv /\ StayInv /\ ThereInv

\* The image changes only with the graph.
LEMMA ImageStays ==
  ASSUME UNCHANGED graph
  PROVE  Image' = Image /\ RelStatements' = RelStatements
         /\ \A labels : NodeStatements(labels)' = NodeStatements(labels)
<1>1. Used' = Used /\ UNCHANGED <<nodes, rels>> /\ \A i : End(i)' = End(i)
  BY DEF graph, Used, End
<1>2. RelStatements' = RelStatements
  BY <1>1 DEF RelStatements
<1>3. \A labels : NodeStatements(labels)' = NodeStatements(labels)
  BY <1>1 DEF NodeStatements
<1> QED BY <1>2, <1>3 DEF Image, File

\* A write of the server shows to the run: in the graph, or in one collection.
LEMMA ServerDoes ==
  ASSUME TypeInv, Server
  PROVE  /\ UNCHANGED <<cmd, pc, dumps, files, runs>>
         /\ w'.left = w.left /\ w'.alone = w.alone /\ w'.source = w.source /\ w'.coll = w.coll
         /\ w'.got = w.got /\ w'.offset = w.offset /\ w'.dumped = w.dumped
         /\ w'.failed = w.failed /\ w'.errors = w.errors /\ w'.lost = w.lost
         /\ w'.stayed \subseteq w.stayed
         /\ \A labels : w'.stayed \cap NodeStatements(labels) \subseteq NodeStatements(labels)'
         /\ \/ UNCHANGED points /\ w'.kept = w.kept /\ ~w'.quiet
            \/ /\ UNCHANGED graph /\ w'.quiet = w.quiet
               /\ w'.kept \subseteq w.kept
               /\ w.coll \in Collections => w'.kept \cap points[w.coll] \subseteq points'[w.coll]
<1>1. Work(w)
  BY DEF TypeInv, WorkTyped
<1>2. ASSUME NEW gone, OnGraph(gone) PROVE
         /\ UNCHANGED <<cmd, pc, dumps, files, runs, points>>
         /\ w'.left = w.left /\ w'.alone = w.alone /\ w'.source = w.source /\ w'.coll = w.coll
         /\ w'.got = w.got /\ w'.offset = w.offset /\ w'.dumped = w.dumped
         /\ w'.failed = w.failed /\ w'.errors = w.errors /\ w'.lost = w.lost
         /\ w'.kept = w.kept /\ ~w'.quiet /\ w'.stayed = w.stayed \ gone
  BY <1>1, <1>2 DEF OnGraph, Work
<1>9. ASSUME NEW key \in Keys, NEW i \in Ids, MergeNode(key, i), NEW labels
      PROVE  w'.stayed = w.stayed /\ NodeStatements(labels) \subseteq NodeStatements(labels)'
  <2>1. OnGraph({}) /\ nodes[i] = None /\ nodes' = [nodes EXCEPT ![i] = key]
    BY <1>9 DEF MergeNode
  <2>2. \A k \in Used : k \in Used' /\ nodes'[k] = nodes[k]
    BY <2>1 DEF TypeInv, GraphTyped, Used
  <2> QED BY <1>2, <2>1, <2>2 DEF NodeStatements
<1>10. ASSUME NEW i \in Ids, NEW j \in Ids, MergeLink(i, j), NEW labels
       PROVE  w'.stayed = w.stayed /\ NodeStatements(labels) \subseteq NodeStatements(labels)'
  <2>1. OnGraph({}) /\ UNCHANGED nodes /\ Used' = Used
    BY <1>10 DEF MergeLink, Used
  <2> QED BY <1>2, <2>1 DEF NodeStatements
<1>11. ASSUME NEW i \in Ids, DeleteNode(i), NEW labels
       PROVE  /\ w'.stayed = w.stayed \ {<<i, nodes[i]>>}
              /\ NodeStatements(labels) \ {<<i, nodes[i]>>} \subseteq NodeStatements(labels)'
  <2>1. OnGraph({<<i, nodes[i]>>}) /\ nodes' = [nodes EXCEPT ![i] = None]
    BY <1>11 DEF DeleteNode
  <2>2. \A k \in Used \ {i} : k \in Used' /\ nodes'[k] = nodes[k]
    BY <2>1 DEF TypeInv, GraphTyped, Used
  <2> QED BY <1>2, <2>1, <2>2 DEF NodeStatements
<1>3. ASSUME NEW c \in Existing, NEW p \in Points, UpsertPoint(c, p) PROVE
         /\ UNCHANGED <<graph, cmd, pc, dumps, files, runs, w>>
         /\ \A e \in Collections : points[e] \subseteq points'[e]
  BY <1>3 DEF UpsertPoint, OnPoints, TypeInv, PointsTyped
<1>4. ASSUME NEW c \in Existing, NEW p \in Points, DeletePoint(c, p) PROVE
         /\ UNCHANGED <<graph, cmd, pc, dumps, files, runs>>
         /\ w'.left = w.left /\ w'.alone = w.alone /\ w'.source = w.source /\ w'.coll = w.coll
         /\ w'.got = w.got /\ w'.offset = w.offset /\ w'.dumped = w.dumped
         /\ w'.failed = w.failed /\ w'.errors = w.errors /\ w'.lost = w.lost
         /\ w'.quiet = w.quiet /\ w'.stayed = w.stayed
         /\ w'.kept = (IF w.coll = c THEN w.kept \ {p} ELSE w.kept)
         /\ p \in points[c] /\ points' = [points EXCEPT ![c] = @ \ {p}]
  BY <1>1, <1>4 DEF DeletePoint, OnPoints, Work
<1>5. ASSUME NEW c \in Existing, NEW p \in Points, DeletePoint(c, p), w.coll \in Collections
      PROVE  w'.kept \cap points[w.coll] \subseteq points'[w.coll]
  <2>1. /\ w'.kept = (IF w.coll = c THEN w.kept \ {p} ELSE w.kept)
        /\ points' = [points EXCEPT ![c] = @ \ {p}]
    BY <1>4, <1>5
  <2>2. points'[w.coll] = IF w.coll = c THEN points[c] \ {p} ELSE points[w.coll]
    BY <1>5, <2>1 DEF TypeInv, PointsTyped
  <2> QED BY <2>1, <2>2
<1>6. CASE \E c \in Existing, p \in Points : UpsertPoint(c, p)
  BY <1>3, <1>6, ImageStays
<1>7. CASE \E c \in Existing, p \in Points : DeletePoint(c, p)
  <2>1. PICK c \in Existing, p \in Points : DeletePoint(c, p)
    BY <1>7
  <2>2. /\ UNCHANGED <<graph, cmd, pc, dumps, files, runs>>
        /\ w'.stayed = w.stayed /\ w'.kept \subseteq w.kept /\ w'.quiet = w.quiet
    BY <1>4, <2>1
  <2>3. \A labels : w'.stayed \cap NodeStatements(labels) \subseteq NodeStatements(labels)'
    BY <2>2, ImageStays
  <2>4. w.coll \in Collections => w'.kept \cap points[w.coll] \subseteq points'[w.coll]
    BY <1>5, <2>1
  <2> QED BY <1>4, <2>1, <2>2, <2>3, <2>4
<1>8. CASE \E key \in Keys, i \in Ids : MergeNode(key, i)
  BY <1>2, <1>8, <1>9 DEF MergeNode
<1>12. CASE \E i, j \in Ids : MergeLink(i, j)
  BY <1>2, <1>12, <1>10 DEF MergeLink
<1>13. CASE \E i \in Ids : DeleteNode(i)
  <2>1. PICK i \in Ids : DeleteNode(i)
    BY <1>13
  <2>2. \A labels : w'.stayed \cap NodeStatements(labels) \subseteq NodeStatements(labels)'
    BY <2>1, <1>11
  <2>3. OnGraph({<<i, nodes[i]>>})
    BY <2>1 DEF DeleteNode
  <2> QED BY <1>2, <2>2, <2>3
<1> QED BY <1>6, <1>7, <1>8, <1>12, <1>13 DEF Server

\* A dump that is made is in its place or reported.
LEMMA LossStep == ASSUME TypeInv, LossInv, Next PROVE LossInv'
<1>1. Work(w)
  BY DEF TypeInv, WorkTyped
<1>2. CASE Server
  BY <1>2, ServerDoes DEF LossInv, LossIsReported, Snapshotting, InPlace
<1>3. CASE PhaseStep
  BY <1>3, PhaseDoes DEF LossInv, LossIsReported, Snapshotting, InPlace
<1>4. CASE Killed
  BY <1>1, <1>4 DEF Killed, Goto, LossInv, LossIsReported, Snapshotting, Fresh, Work
<1>5. CASE \E upload, cleanup \in BOOLEAN : Snapshot(upload, cleanup)
  <2>1. PICK upload \in BOOLEAN, cleanup \in BOOLEAN : Snapshot(upload, cleanup)
    BY <1>5
  <2>2. \/ /\ \E row \in Streamed : WriteDump(runs + 1, row)
           /\ runs' = runs + 1 /\ pc' = "discover"
        \/ pc' \in {"discover", "labels"} /\ ~w'.dumped
    BY <2>1, FreshIsWork DEF Snapshot, Run, Goto, Work
  <2>3. CASE (\E row \in Streamed : WriteDump(runs + 1, row)) /\ runs' = runs + 1 /\ pc' = "discover"
    <3>1. runs' \in files'["disk"].dumps
      BY <2>3 DEF WriteDump, TypeInv, FilesTyped, Places
    <3> QED BY <2>3, <3>1 DEF LossInv, Snapshotting, LossIsReported
  <2>4. CASE pc' \in {"discover", "labels"} /\ ~w'.dumped
    BY <2>4 DEF LossInv, Snapshotting, LossIsReported
  <2> QED BY <2>2, <2>3, <2>4
<1>6. CASE \E from \in Places, clear \in BOOLEAN : Restore(from, clear)
  <2>1. pc' \in {"clear", "collections", "free"} /\ ~w'.dumped
    BY <1>6, FreshIsWork DEF Restore, Goto, Work
  <2> QED BY <2>1 DEF LossInv, Snapshotting, LossIsReported
<1>7. CASE (\E label \in Labels : DumpLabel(label)) \/ DumpFails
  <2>1. pc = "labels" /\ pc' \in {"labels", "discover"} /\ ~w'.dumped
    BY <1>1, <1>7, FreshIsWork DEF DumpLabel, DumpFails, Goto, LossInv, Work
  <2> QED BY <2>1 DEF LossInv, Snapshotting, LossIsReported
<1>8. CASE DumpRels
  <2> DEFINE dump == File(w.got, RelStatements)
  <2>1. pc' = "discover" /\ UNCHANGED runs /\ \E part : WriteDump(runs, part)
    BY <1>8 DEF DumpRels, Goto
  <2>2. runs' \in files'["disk"].dumps
    BY <2>1 DEF WriteDump, TypeInv, FilesTyped, Places
  <2> QED BY <2>1, <2>2 DEF LossInv, Snapshotting, LossIsReported
<1>9. CASE Discover \/ (\E c \in Collections : BeginExport(c)) \/ Scroll \/ ExportFails
  <2>1. /\ UNCHANGED runs /\ w'.dumped = w.dumped /\ pc' \in {"export", "scroll"}
        /\ Snapshotting
    BY <1>1, <1>9 DEF Discover, BeginExport, Scroll, ExportFails, Goto, Work, Snapshotting
  <2>2. files'["disk"].dumps = files["disk"].dumps
    <3>1. CASE UNCHANGED files
      BY <3>1
    <3>2. CASE Scroll /\ ~UNCHANGED files
      <4>1. PICK export : files' = [files EXCEPT ![Target].exports[w.coll] = export]
        BY <3>2 DEF Scroll
      <4> QED BY <4>1 DEF TypeInv, FilesTyped, Places
    <3> QED BY <1>9, <3>1, <3>2 DEF Discover, BeginExport, ExportFails
  <2> QED BY <2>1, <2>2 DEF LossInv, Snapshotting, LossIsReported
<1>10. CASE Upload
  <2>1. /\ pc = "export" /\ pc' = "finish" /\ UNCHANGED <<cmd, runs>>
        /\ \/ UNCHANGED <<w, files>> /\ ~(cmd.upload /\ w.dumped)
           \/ /\ files' = [files EXCEPT !["s3"].dumps = @ \cup {runs}]
              /\ w' = [w EXCEPT !.keys = TRUE]
           \/ UNCHANGED files /\ w' = [w EXCEPT !.failed = TRUE]
    BY <1>10 DEF Upload, Goto
  <2>2. CASE UNCHANGED <<w, files>> /\ ~(cmd.upload /\ w.dumped)
    BY <2>1, <2>2 DEF LossInv, Snapshotting, LossIsReported
  <2>3. CASE files' = [files EXCEPT !["s3"].dumps = @ \cup {runs}] /\ w' = [w EXCEPT !.keys = TRUE]
    <3>1. w'.dumped = w.dumped
      BY <1>1, <2>3 DEF Work
    <3>2. files'["disk"] = files["disk"] /\ runs \in files'["s3"].dumps
      BY <2>3 DEF TypeInv, FilesTyped, Places
    <3> QED BY <2>1, <3>1, <3>2 DEF LossInv, Snapshotting, LossIsReported
  <2>4. CASE UNCHANGED files /\ w' = [w EXCEPT !.failed = TRUE]
    <3>1. w'.dumped = w.dumped /\ w'.failed
      BY <1>1, <2>4 DEF Work
    <3> QED BY <2>1, <2>4, <3>1 DEF LossInv, Snapshotting, LossIsReported
  <2> QED BY <2>1, <2>2, <2>3, <2>4
<1>11. CASE CleanUp
  <2>1. /\ pc = "finish" /\ pc' = "free" /\ UNCHANGED <<w, runs>>
        /\ files' = IF cmd.cleanup /\ cmd.upload /\ w.keys
                    THEN [files EXCEPT !["disk"].dumps = @ \ {runs}] ELSE files
    BY <1>11 DEF CleanUp
  <2>2. cmd.upload \/ files' = files
    BY <2>1 DEF TypeInv, ControlTyped, Options
  <2>3. files'["s3"] = files["s3"]
    BY <2>1 DEF TypeInv, FilesTyped, Places
  <2>4. w.dumped => InPlace(runs)' \/ w.failed
    BY <2>1, <2>2, <2>3 DEF LossInv, Snapshotting, InPlace, Places
  <2> QED BY <2>1, <2>4 DEF LossInv, Snapshotting, LossIsReported
<1>12. CASE \/ ClearGraph \/ RunIndexes \/ RunForeign \/ NextPhase
            \/ ListExports \/ (\E c \in Collections : BeginCollection(c)) \/ DeleteCollection
            \/ CreateCollection \/ UpsertBatch \/ CollectionFails \/ EndRestore
  <2>1. pc \notin {"discover", "export", "scroll", "finish", "free"} /\ ~w.dumped
    BY <1>12 DEF ClearGraph, RunIndexes, RunForeign, NextPhase, ListExports, BeginCollection,
       DeleteCollection, CreateCollection, UpsertBatch, CollectionFails, EndRestore, LossInv
  <2>2. w'.dumped = w.dumped
    BY <1>1, <1>12 DEF ClearGraph, RunIndexes, RunForeign, NextPhase, ListExports, BeginCollection, DeleteCollection,
       CreateCollection, UpsertBatch, CollectionFails, EndRestore, Abandon, Goto, Work
  <2> QED BY <2>1, <2>2 DEF LossInv, LossIsReported
<1> QED BY NextIs, <1>2, <1>3, <1>4, <1>5, <1>6, <1>7, <1>8, <1>9, <1>10, <1>11, <1>12

\* The nodes of a set of labels, read one label after the other.
LEMMA OneLabelMore ==
  ASSUME NEW labels, NEW label \in labels
  PROVE  NodeStatements({label}) \cup NodeStatements(labels \ {label}) = NodeStatements(labels)
BY DEF NodeStatements

\* What is dumped while nobody ingests is what is there.
LEMMA DumpStep == ASSUME TypeInv, LossInv, DumpInv, Next PROVE DumpInv'
<1>1. Work(w)
  BY DEF TypeInv, WorkTyped
<1>2. CASE Server
  BY <1>2, ServerDoes, ImageStays DEF DumpInv, QuietDumpIsExact, StayingIsDumped, ByLabels, Snapshotting
<1>3. CASE \E upload, cleanup \in BOOLEAN : Snapshot(upload, cleanup)
  <2>1. PICK upload \in BOOLEAN, cleanup \in BOOLEAN : Snapshot(upload, cleanup)
    BY <1>3
  <2> DEFINE labels == {LabelOf[nodes[i]] : i \in Used}
  <2>2. UNCHANGED graph /\ runs' = runs + 1 /\ runs \in 0 .. MaxRuns /\ runs < MaxRuns
    BY <2>1 DEF Snapshot, Run, store, TypeInv, ControlTyped
  <2>3. CASE (\E row \in Streamed : WriteDump(runs + 1, row)) /\ pc' = "discover"
    <3>1. runs' \in Runs
      BY <2>2, BackupAssumption DEF Runs
    <3>2. PICK row \in Streamed : WriteDump(runs', row)
      BY <2>2, <2>3
    <3>3. row.apoc
      BY RowIsFile DEF TypeInv
    <3>4. dumps'[runs'].apoc
      BY <3>1, <3>2, <3>3 DEF WriteDump, TypeInv, FilesTyped
    <3> QED BY <2>3, <3>4 DEF DumpInv, QuietDumpIsExact, StayingIsDumped, ByLabels
  <2>4. CASE /\ w' = [Fresh EXCEPT !.left = labels, !.stayed = NodeStatements(Labels)]
             /\ pc' = "labels"
    <3>1. w'.left = labels /\ w'.got = {} /\ w'.stayed = NodeStatements(Labels)
      BY <2>4, FreshIsWork DEF Fresh
    <3>2. NodeStatements(labels) = NodeStatements(Labels)
      BY BackupAssumption DEF NodeStatements, TypeInv, GraphTyped, Used
    <3> QED BY <2>2, <2>4, <3>1, <3>2, ImageStays
         DEF DumpInv, QuietDumpIsExact, StayingIsDumped, ByLabels, Snapshotting
  <2>5. CASE w' = [Fresh EXCEPT !.failed = TRUE] /\ pc' = "discover"
    <3>1. ~w'.dumped
      BY <2>5, FreshIsWork DEF Work
    <3> QED BY <2>5, <3>1 DEF DumpInv, QuietDumpIsExact, StayingIsDumped, ByLabels, Snapshotting
  <2> QED BY <2>1, <2>2, <2>3, <2>4, <2>5 DEF Snapshot, Goto
<1>4. CASE \E label \in Labels : DumpLabel(label)
  <2>1. PICK label \in Labels : DumpLabel(label)
    BY <1>4
  <2>2. /\ UNCHANGED graph /\ pc = "labels" /\ pc' = "labels" /\ label \in w.left
        /\ w' = [w EXCEPT !.left = @ \ {label}, !.got = @ \cup NodeStatements({label})]
    BY <2>1 DEF DumpLabel, store
  <2>3. /\ w'.left = w.left \ {label} /\ w'.got = w.got \cup NodeStatements({label})
        /\ w'.quiet = w.quiet /\ w'.stayed = w.stayed
    BY <1>1, <2>2 DEF Work
  <2>4. w'.got \cup NodeStatements(w'.left) = w.got \cup NodeStatements(w.left)
    BY <2>2, <2>3, OneLabelMore
  <2> QED BY <2>2, <2>3, <2>4, ImageStays DEF DumpInv, QuietDumpIsExact, StayingIsDumped, ByLabels, Snapshotting
<1>5. CASE DumpRels
  <2> DEFINE dump == File(w.got, RelStatements)
  <2>1. /\ pc = "labels" /\ w.left = {} /\ pc' = "discover" /\ UNCHANGED <<graph, runs>>
        /\ \/ WriteDump(runs, dump) /\ w' = [[w EXCEPT !.got = {}] EXCEPT !.dumped = TRUE]
           \/ w' = [[w EXCEPT !.got = {}] EXCEPT !.failed = TRUE]
    BY <1>5 DEF DumpRels, Goto, store
  <2>2. w'.quiet = w.quiet /\ w'.stayed = w.stayed
    BY <1>1, <2>1 DEF Work
  <2>3. CASE WriteDump(runs, dump)
    <3>1. dumps'[runs] = dump
      BY <2>1, <2>3 DEF WriteDump, TypeInv, FilesTyped, ControlTyped
    <3>2. NodeStatements({}) = {}
      BY DEF NodeStatements
    <3>3. /\ w.quiet => dump = Image
          /\ w.stayed \subseteq dump.nodes
      BY <2>1, <3>2 DEF DumpInv, Image, File
    <3> QED BY <2>1, <2>2, <3>1, <3>3, ImageStays DEF DumpInv, QuietDumpIsExact, StayingIsDumped, ByLabels, Snapshotting
  <2>4. CASE w' = [[w EXCEPT !.got = {}] EXCEPT !.failed = TRUE]
    <3>1. ~w'.dumped
      BY <1>1, <2>1, <2>4 DEF Work, LossInv
    <3> QED BY <2>1, <3>1 DEF DumpInv, QuietDumpIsExact, StayingIsDumped, ByLabels, Snapshotting
  <2> QED BY <2>1, <2>3, <2>4
<1>6. CASE DumpFails
  <2>1. pc' = "discover" /\ ~w'.dumped
    BY <1>6, FreshIsWork DEF DumpFails, Goto, Work
  <2> QED BY <2>1 DEF DumpInv, QuietDumpIsExact, StayingIsDumped, ByLabels, Snapshotting
<1>7. CASE \/ Discover \/ (\E c \in Collections : BeginExport(c)) \/ Scroll \/ ExportFails
           \/ Upload \/ CleanUp
  <2>1. Snapshotting /\ UNCHANGED <<graph, dumps, runs>> /\ pc' # "labels"
    BY <1>7 DEF Discover, BeginExport, Scroll, ExportFails, Upload, CleanUp, Goto, store,
       Snapshotting
  <2>2. w'.dumped = w.dumped /\ w'.quiet = w.quiet /\ w'.stayed = w.stayed
    BY <1>1, <1>7 DEF Discover, BeginExport, Scroll, ExportFails, Upload, CleanUp, Goto, Work
  <2> QED BY <2>1, <2>2, ImageStays DEF DumpInv, QuietDumpIsExact, StayingIsDumped, ByLabels, Snapshotting
<1>8. CASE \/ Killed \/ PhaseStep \/ ClearGraph \/ RunIndexes \/ RunForeign \/ NextPhase
           \/ \E from \in Places, clear \in BOOLEAN : Restore(from, clear)
           \/ ListExports \/ (\E c \in Collections : BeginCollection(c)) \/ DeleteCollection
           \/ CreateCollection \/ UpsertBatch \/ CollectionFails \/ EndRestore
  <2>1. pc' # "labels" /\ ~Snapshotting'
    <3>1. CASE PhaseStep
      BY <3>1, PhaseDoes DEF PhaseStep, Phases, Snapshotting
    <3> QED BY <1>8, <3>1 DEF Killed, ClearGraph, RunIndexes, RunForeign, NextPhase, Restore, ListExports,
            BeginCollection, DeleteCollection, CreateCollection, UpsertBatch, CollectionFails,
            EndRestore, Abandon, Goto, Snapshotting
  <2> QED BY <2>1 DEF DumpInv, QuietDumpIsExact, StayingIsDumped, ByLabels, Snapshotting
<1> QED BY NextIs, <1>2, <1>3, <1>4, <1>5, <1>6, <1>7, <1>8

\* A page reaches up to the next offset: what stays in the collection is not
\* passed over.
LEMMA ScrollStays == ASSUME TypeInv, StayInv, Scroll PROVE StayInv'
<1> DEFINE page == Page(w.offset)
           rest == From(w.offset) \ page
           got == w.got \cup page
<1>1. Work(w) /\ w.kept \subseteq Points /\ w.offset \in Nat /\ pc = "scroll"
  BY DEF TypeInv, WorkTyped, Work, Scroll
<1>2. w.coll \in Collections /\ w.coll \in Existing /\ w.kept \subseteq points[w.coll]
      /\ {p \in w.kept : p < w.offset} \subseteq w.got
  BY <1>1 DEF TypeInv, WorkTyped, StayInv, StayingIsExported
<1>3. points[w.coll] \subseteq Points /\ Points \subseteq Nat /\ rest \subseteq Points
  BY <1>2, ExistingHasPoints, BackupAssumption DEF TypeInv, From
<1>4. \A p \in w.kept : p \in got \/ p \in rest
  <2> SUFFICES ASSUME NEW p \in w.kept, p \notin w.got PROVE p \in From(w.offset)
    OBVIOUS
  <2>1. p \in Nat /\ p \in points[w.coll] /\ ~(p < w.offset)
    BY <1>1, <1>2, <1>3
  <2> QED BY <1>1, <2>1 DEF From
<1>5. CASE rest # {}
  <2>1. w' = [w EXCEPT !.got = got, !.offset = Min(rest)] /\ UNCHANGED <<points, pc>>
    BY <1>5 DEF Scroll, store
  <2>2. Min(rest) \in rest /\ \A p \in rest : Min(rest) <= p
    BY <1>3, <1>5, LeastOf
  <2>3. w'.got = got /\ w'.offset = Min(rest) /\ w'.kept = w.kept /\ w'.coll = w.coll
    BY <1>1, <2>1 DEF Work
  <2> HIDE DEF got, rest
  <2>4. {p \in w.kept : p < Min(rest)} \subseteq got
    <3> SUFFICES ASSUME NEW p \in w.kept, p < Min(rest), p \notin got PROVE FALSE
      OBVIOUS
    <3>1. p \in rest /\ p \in Nat /\ Min(rest) \in Nat
      BY <1>3, <1>4, <2>2
    <3> QED BY <2>2, <3>1
  <2> QED BY <1>1, <1>2, <2>1, <2>3, <2>4 DEF StayInv, StayingIsExported
<1>6. CASE rest = {}
  <2>1. /\ files' = [files EXCEPT ![Target].exports[w.coll] = [run |-> runs, points |-> got]]
        /\ pc' = "export" /\ UNCHANGED cmd
        /\ w' = [w EXCEPT !.got = {}, !.offset = 0, !.keys = @ \/ cmd.upload]
    BY <1>6 DEF Scroll, Goto
  <2>2. w'.kept = w.kept /\ w'.coll = w.coll
    BY <1>1, <2>1 DEF Work
  <2>3. Target \in Places /\ Target' = Target
    BY <2>1 DEF Target, Places
  <2> HIDE DEF got, rest
  <2>4. files'[Target].exports[w.coll].points = got
    BY <1>2, <2>1, <2>3 DEF TypeInv, FilesTyped
  <2>5. w.kept \subseteq got
    BY <1>4, <1>6
  <2> QED BY <2>1, <2>2, <2>3, <2>4, <2>5 DEF StayInv, StayingIsExported
<1> QED BY <1>5, <1>6

LEMMA StayStep == ASSUME TypeInv, StayInv, Next PROVE StayInv'
<1>1. Work(w) /\ w.kept \subseteq Points
  BY DEF TypeInv, WorkTyped, Work
<1>2. CASE Server
  <2>1. /\ UNCHANGED <<cmd, pc, files>> /\ w'.coll = w.coll /\ w'.got = w.got
        /\ w'.offset = w.offset /\ w'.kept \subseteq w.kept
    BY <1>2, ServerDoes
  <2>2. ASSUME pc = "scroll" PROVE w'.kept \subseteq points'[w'.coll]
    <3>1. w.coll \in Collections /\ w.kept \subseteq points[w.coll]
      BY <2>2 DEF TypeInv, WorkTyped, StayInv
    <3> QED BY <1>2, <2>1, <3>1, ServerDoes
  <2>3. Target' = Target
    BY <2>1 DEF Target
  <2> QED BY <2>1, <2>2, <2>3 DEF StayInv, StayingIsExported
<1>3. CASE \E c \in Collections : BeginExport(c)
  <2>1. PICK c \in Collections : BeginExport(c)
    BY <1>3
  <2>2. /\ pc' = "scroll" /\ UNCHANGED points
        /\ w' = [w EXCEPT !.left = @ \ {c}, !.coll = c, !.got = {}, !.offset = 0,
                         !.kept = points[c]]
        /\ pc = "export" /\ c \in w.left
    BY <2>1 DEF BeginExport, Goto, store
  <2>3. w'.coll = c /\ w'.kept = points[c] /\ w'.offset = 0
    BY <1>1, <2>2 DEF Work
  <2>4. points[c] \subseteq Points
    BY <2>2, ExistingHasPoints DEF TypeInv, WorkTyped
  <2>5. {p \in w'.kept : p < w'.offset} = {}
    <3>1. \A p \in w'.kept : p \in Nat
      BY <2>3, <2>4, BackupAssumption
    <3>2. \A p \in w'.kept : ~(p < 0)
      BY <3>1
    <3> QED BY <2>3, <3>2
  <2> QED BY <2>2, <2>3, <2>5 DEF StayInv, StayingIsExported
<1>4. CASE Scroll
  BY <1>4, ScrollStays
<1>5. CASE Discover \/ DumpRels \/ DumpFails \/ ExportFails
           \/ (\E label \in Labels : DumpLabel(label))
           \/ (\E upload, cleanup \in BOOLEAN : Snapshot(upload, cleanup))
  <2>1. pc' \in {"labels", "discover", "export"}
    BY <1>5 DEF Discover, DumpRels, DumpFails, ExportFails, DumpLabel, Snapshot, Goto
  <2>2. w'.coll = 0
    <3>1. CASE ExportFails
      BY <1>1, <3>1 DEF ExportFails, Goto, Work
    <3>2. CASE Snapshot(TRUE, TRUE) \/ Snapshot(TRUE, FALSE) \/ Snapshot(FALSE, TRUE)
               \/ Snapshot(FALSE, FALSE)
      BY <3>2, FreshIsWork DEF Snapshot, Goto, Work
    <3>3. CASE Discover \/ DumpRels \/ (\E label \in Labels : DumpLabel(label))
      BY <1>1, <3>3 DEF Discover, DumpRels, DumpLabel, Goto, Work, StayInv
    <3>4. CASE DumpFails
      BY <3>4, FreshIsWork DEF DumpFails, Goto, Work
    <3> QED BY <1>5, <3>1, <3>2, <3>3, <3>4
  <2> QED BY <2>1, <2>2 DEF StayInv, StayingIsExported
<1>6. CASE Upload
  <2>1. pc = "export" /\ pc' = "finish" /\ UNCHANGED cmd
        /\ (UNCHANGED files \/ files' = [files EXCEPT !["s3"].dumps = @ \cup {runs}])
    BY <1>6 DEF Upload, Goto
  <2>2. w'.coll = w.coll /\ w'.kept = w.kept
    BY <1>1, <1>6 DEF Upload, Goto, Work
  <2>3. Target' = Target /\ \A place \in Places : files'[place].exports = files[place].exports
    BY <2>1 DEF Target, TypeInv, FilesTyped, Places
  <2>4. Target \in Places
    BY DEF Target, Places
  <2> QED BY <2>1, <2>2, <2>3, <2>4 DEF StayInv, StayingIsExported
<1>7. CASE \/ Killed \/ PhaseStep \/ ClearGraph \/ RunIndexes \/ RunForeign \/ NextPhase \/ CleanUp
           \/ \E from \in Places, clear \in BOOLEAN : Restore(from, clear)
           \/ ListExports \/ (\E c \in Collections : BeginCollection(c)) \/ DeleteCollection
           \/ CreateCollection \/ UpsertBatch \/ CollectionFails \/ EndRestore
  <2>1. pc' \notin {"labels", "discover", "scroll", "export", "finish"}
    <3>1. CASE PhaseStep
      BY <3>1, PhaseDoes DEF PhaseStep, Phases
    <3> QED BY <1>7, <3>1 DEF Killed, ClearGraph, RunIndexes, RunForeign, NextPhase, CleanUp, Restore, ListExports,
            BeginCollection, DeleteCollection, CreateCollection, UpsertBatch, CollectionFails,
            EndRestore, Abandon, Goto
  <2> QED BY <2>1 DEF StayInv, StayingIsExported
<1> QED BY NextIs, <1>2, <1>3, <1>4, <1>5, <1>6, <1>7

\* A collection that is restored keeps what the restore has written of it.
LEMMA ThereStep == ASSUME TypeInv, ThereInv, Next PROVE ThereInv'
<1>1. Work(w)
  BY DEF TypeInv, WorkTyped
<1>2. CASE Server
  <2>1. UNCHANGED pc /\ w'.coll = w.coll /\ w'.got = w.got /\ w'.kept \subseteq w.kept
        /\ (w.coll \in Collections => (UNCHANGED points \/ w'.kept \cap points[w.coll] \subseteq points'[w.coll]))
    BY <1>2, ServerDoes
  <2>2. CASE pc = "upsert"
    BY <2>1, <2>2 DEF ThereInv, RestoredIsThere, TypeInv, WorkTyped, Phases
  <2>3. CASE pc = "restore" /\ w.coll \in Collections
    BY <2>1, <2>3 DEF ThereInv, RestoredIsThere, Phases
  <2> QED BY <2>1, <2>2, <2>3 DEF ThereInv, RestoredIsThere, Phases
<1>3. CASE PhaseStep
  <2>1. w'.coll = w.coll /\ pc' = pc /\ pc \in Phases
    BY <1>3, PhaseDoes DEF PhaseStep
  <2> QED BY <2>1 DEF ThereInv, RestoredIsThere, Phases
<1>4. CASE ClearGraph \/ RunIndexes \/ RunForeign \/ NextPhase \/ ListExports
  <2>1. pc \in Phases \cup {"clear", "index", "collections"}
        /\ pc' \in Phases \cup {"index", "collections", "restore"}
    BY <1>4 DEF ClearGraph, RunIndexes, RunForeign, NextPhase, ListExports, Goto, Phases
  <2>2. w'.coll = w.coll
    BY <1>1, <1>4 DEF ClearGraph, RunIndexes, RunForeign, NextPhase, ListExports, Goto, Work
  <2> QED BY <2>1, <2>2 DEF ThereInv, RestoredIsThere, Phases
<1>5. CASE \E c \in Collections : BeginCollection(c)
  <2>1. PICK c \in Collections : BeginCollection(c)
    BY <1>5
  <2>2. pc' \in {"create", "delete", "upsert"}
        /\ w' = [w EXCEPT !.left = @ \ {c}, !.coll = c,
                         !.got = files[cmd.from].exports[c].points,
                         !.kept = files[cmd.from].exports[c].points]
    BY <2>1 DEF BeginCollection, Goto
  <2>3. w'.kept = w'.got
    BY <1>1, <2>2 DEF Work
  <2> QED BY <2>2, <2>3 DEF ThereInv, RestoredIsThere, Phases
<1>6. CASE DeleteCollection \/ CreateCollection
  <2>1. pc \in {"delete", "create"} /\ pc' \in {"create", "upsert"} /\ UNCHANGED w
    BY <1>6 DEF DeleteCollection, CreateCollection
  <2> QED BY <2>1 DEF ThereInv, RestoredIsThere, Phases
<1>7. CASE UpsertBatch
  <2> DEFINE batch == {p \in w.got : Cardinality({q \in w.got : q < p}) < PageSize}
  <2>1. /\ pc = "upsert" /\ w' = [w EXCEPT !.got = @ \ batch]
        /\ points' = [points EXCEPT ![w.coll] = @ \cup batch]
        /\ pc' = (IF batch = w.got THEN "restore" ELSE "upsert")
    BY <1>7 DEF UpsertBatch, Goto
  <2>2. w.coll \in Collections /\ batch \subseteq w.got /\ w.kept \subseteq w.got \cup points[w.coll]
    BY <2>1 DEF TypeInv, WorkTyped, ThereInv
  <2> HIDE DEF batch
  <2>3. w'.got = w.got \ batch /\ w'.kept = w.kept /\ w'.coll = w.coll
    BY <1>1, <2>1 DEF Work
  <2>4. points'[w.coll] = points[w.coll] \cup batch
    BY <2>1, <2>2 DEF TypeInv, PointsTyped
  <2> QED BY <2>1, <2>2, <2>3, <2>4 DEF ThereInv, RestoredIsThere, Phases
<1>8. CASE CollectionFails
  <2>1. pc' \in {"restore", "free"} /\ w'.coll = 0
    BY <1>1, <1>8 DEF CollectionFails, Abandon, Goto, Work
  <2> QED BY <2>1 DEF ThereInv, RestoredIsThere, Phases
<1>9. CASE \E from \in Places, clear \in BOOLEAN : Restore(from, clear)
  <2>1. pc' \in {"clear", "collections", "free"} /\ w'.coll = 0
    BY <1>9, FreshIsWork DEF Restore, Goto, Work
  <2> QED BY <2>1 DEF ThereInv, RestoredIsThere, Phases
<1>10. CASE \/ Killed \/ EndRestore
            \/ \E upload, cleanup \in BOOLEAN : Snapshot(upload, cleanup)
            \/ (\E label \in Labels : DumpLabel(label)) \/ DumpRels \/ DumpFails
            \/ Discover \/ (\E c \in Collections : BeginExport(c)) \/ Scroll \/ ExportFails
            \/ Upload \/ CleanUp
  <2>1. pc' \in {"free", "labels", "discover", "export", "scroll", "finish"}
    BY <1>10 DEF Killed, EndRestore, Snapshot, DumpLabel, DumpRels, DumpFails, Discover,
       BeginExport, Scroll, ExportFails, Upload, CleanUp, Goto
  <2> QED BY <2>1 DEF ThereInv, RestoredIsThere, Phases
<1> QED BY NextIs, <1>2, <1>3, <1>4, <1>5, <1>6, <1>7, <1>8, <1>9, <1>10

LEMMA RunAlways == Spec => [](TypeInv /\ RunInv)
<1>1. Init => RunInv
  <2> SUFFICES ASSUME Init PROVE RunInv
    OBVIOUS
  <2>1. pc = "free" /\ ~w.dumped
    BY FreshIsWork DEF Init
  <2> QED BY <2>1 DEF RunInv, LossInv, LossIsReported, DumpInv, QuietDumpIsExact, StayingIsDumped, ByLabels,
          Snapshotting,
          StayInv, StayingIsExported, ThereInv, RestoredIsThere, Phases
<1>2. TypeInv /\ RunInv /\ [Next]_vars => RunInv'
  <2> SUFFICES ASSUME TypeInv, RunInv, [Next]_vars PROVE RunInv'
    OBVIOUS
  <2>1. CASE Next
    BY <2>1, LossStep, DumpStep, StayStep, ThereStep DEF RunInv
  <2>2. CASE UNCHANGED vars
    <3>1. UNCHANGED <<graph, points, cmd, pc, w, dumps, files, runs>>
      BY <2>2 DEF vars, store
    <3>2. LossInv'
      BY <3>1 DEF RunInv, LossInv, LossIsReported, Snapshotting, InPlace
    <3>3. DumpInv'
      BY <3>1, ImageStays DEF RunInv, DumpInv, QuietDumpIsExact, StayingIsDumped, ByLabels,
          Snapshotting
    <3>4. StayInv' /\ ThereInv'
      BY <3>1 DEF RunInv, StayInv, StayingIsExported, Target, ThereInv, RestoredIsThere
    <3> QED BY <3>2, <3>3, <3>4 DEF RunInv
  <2> QED BY <2>1, <2>2
<1> QED BY <1>1, <1>2, TypeAlways, PTL DEF Spec

\* A run whose dump ends up in no place exits with 1, whatever failed and
\* wherever it was killed.
THEOREM NoSilentLoss == Spec => []LossIsReported
<1>1. RunInv => LossIsReported
  BY DEF RunInv, LossInv
<1> QED BY <1>1, RunAlways, PTL

\* Without an ingestion in between, what the fallback writes is the whole graph,
\* however many labels, nodes and relationships it has.
THEOREM DumpIsExact == Spec => []QuietDumpIsExact
<1>1. RunInv => QuietDumpIsExact
  BY DEF RunInv, DumpInv
<1> QED BY <1>1, RunAlways, PTL

\* Whatever the server creates and deletes between the queries of two labels, a
\* node that was there all the time is in the file.
THEOREM DumpHasStaying == Spec => []StayingIsDumped
<1>1. RunInv => StayingIsDumped
  BY DEF RunInv, DumpInv
<1> QED BY <1>1, RunAlways, PTL

\* For every size of pages and every interleaving with the server, the export has
\* every point that was in the collection from its first page to its last.
THEOREM ExportHasStaying == Spec => []StayingIsExported
<1>1. RunInv => StayingIsExported
  BY DEF RunInv, StayInv
<1> QED BY <1>1, RunAlways, PTL

\* A collection that is restored without a failure has the points of its export,
\* but for those deleted since, for every size of batches.
THEOREM RestoreKeepsPoints == Spec => []RestoredIsThere
<1>1. RunInv => RestoredIsThere
  BY DEF RunInv, ThereInv
<1> QED BY <1>1, RunAlways, PTL

(***************************************************************************)
(* The graph in the course of a restore                                    *)
(***************************************************************************)

\* Nothing that the report of errors leaves out has come in between; the errors are
\* those of the DROP INDEX statements that have been run.
Drops == IF pc \in {"nodes", "index"} THEN 0 ELSE Cardinality(Dump.marks)
Undisturbed == ~Dump.apoc /\ cmd.clear /\ w.quiet /\ w.errors = Drops /\ ~w.lost

\* id gives the node that each statement has created; marks are on those nodes.
Created(id, statements) ==
  /\ Used = {id[n] : n \in statements}
  /\ \A n \in statements : nodes[id[n]] = n[2]
  /\ \A m, n \in statements : id[m] = id[n] => m = n
Marked(id, statements) == \A n \in statements : mark[id[n]] = n[1]
Between(m, n, statements) == {s \in statements : s[1] = StandsFor(m) /\ s[2] = StandsFor(n)}
Linked(id, statements) ==
  \A m, n \in Dump.nodes : rels[<<id[m], id[n]>>] = Cardinality(Between(m, n, statements))
MarksAreOnNodes == \A i \in Ids \ Used : mark[i] = None

NodesExact ==
  pc \in {"nodes", "index"} /\ Undisturbed =>
    /\ MarksAreOnNodes /\ \A p \in Ids \X Ids : rels[p] = 0
    /\ \E id \in [Dump.nodes \ Rest -> Ids] :
         Created(id, Dump.nodes \ Rest) /\ Marked(id, Dump.nodes \ Rest)
RelsExact ==
  pc = "rels" /\ Undisturbed =>
    /\ MarksAreOnNodes
    /\ \E id \in [Dump.nodes -> Ids] :
         Created(id, Dump.nodes) /\ Marked(id, Dump.nodes) /\ Linked(id, Dump.rels \ Rest)
MarksExact ==
  pc = "marks" /\ Undisturbed =>
    /\ \A i \in Used : mark[i] # None /\ LabelOf[nodes[i]] \in Dump.marks => LabelOf[nodes[i]] \in Rest
    /\ \E id \in [Dump.nodes -> Ids] : Created(id, Dump.nodes) /\ Linked(id, Dump.rels)

\* Each node of the dump is to be created, or is, or is an error, and so is each
\* DROP INDEX that has been run.
Counts ==
  /\ pc \in {"nodes", "index"} /\ ~Dump.apoc /\ w.quiet =>
       Cardinality(Dump.nodes) <= Cardinality(Used) + w.errors + Cardinality(Rest)
  /\ pc \in {"rels", "marks"} /\ ~Dump.apoc /\ w.quiet =>
       Cardinality(Dump.nodes) + Cardinality(Dump.marks) <= Cardinality(Used) + w.errors
  /\ pc \in Phases \cup {"index"} /\ ~Dump.apoc => Drops <= w.errors
  /\ MissingIsCounted

ExactInv == NodesExact /\ RelsExact /\ MarksExact /\ RestoreIsExact

\* The graph and what is left to do say all.
LEMMA ExactStays ==
  ASSUME UNCHANGED <<graph, cmd, pc, dumps>>, Rest' = Rest, w'.source = w.source,
         w'.quiet = w.quiet, w'.errors = w.errors, w'.lost = w.lost
  PROVE  (Counts => Counts') /\ (ExactInv => ExactInv')
<1>1. UNCHANGED <<nodes, mark, rels, cmd, pc>> /\ Used' = Used /\ Dump' = Dump
      /\ Undisturbed' = Undisturbed /\ GraphRestored' = GraphRestored /\ Drops' = Drops
  BY DEF graph, Used, Dump, Undisturbed, Drops, GraphRestored
<1>2. Counts => Counts'
  BY <1>1 DEF Counts, MissingIsCounted
<1> SUFFICES ASSUME ExactInv PROVE ExactInv'
  BY <1>2
<1>3. NodesExact'
  <2> SUFFICES ASSUME (pc \in {"nodes", "index"} /\ Undisturbed)' PROVE
        (/\ MarksAreOnNodes /\ \A p \in Ids \X Ids : rels[p] = 0
         /\ \E id \in [Dump.nodes \ Rest -> Ids] :
              Created(id, Dump.nodes \ Rest) /\ Marked(id, Dump.nodes \ Rest))'
    BY DEF NodesExact
  <2>1. /\ MarksAreOnNodes /\ \A p \in Ids \X Ids : rels[p] = 0
        /\ \E id \in [Dump.nodes \ Rest -> Ids] :
             Created(id, Dump.nodes \ Rest) /\ Marked(id, Dump.nodes \ Rest)
    BY <1>1 DEF ExactInv, NodesExact
  <2>2. Dump'.nodes \ Rest' = Dump.nodes \ Rest
    BY <1>1
  <2>3. MarksAreOnNodes' /\ \A p \in Ids \X Ids : rels'[p] = 0
    BY <1>1, <2>1 DEF MarksAreOnNodes
  <2>4. PICK id \in [Dump.nodes \ Rest -> Ids] :
          Created(id, Dump.nodes \ Rest) /\ Marked(id, Dump.nodes \ Rest)
    BY <2>1
  <2>5. Created(id, Dump.nodes \ Rest)' /\ Marked(id, Dump.nodes \ Rest)'
    BY <1>1, <2>2, <2>4 DEF Created, Marked
  <2>6. id \in [Dump'.nodes \ Rest' -> Ids]
    BY <2>2
  <2> HIDE DEF Rest, Dump
  <2> QED BY <2>3, <2>5, <2>6
<1>4. RelsExact'
  BY <1>1 DEF ExactInv, RelsExact, MarksAreOnNodes, Created, Marked, Linked, Between
<1>5. MarksExact'
  BY <1>1 DEF ExactInv, MarksExact, Created, Linked, Between
<1>6. RestoreIsExact'
  <2> SUFFICES ASSUME GraphRestored', Undisturbed' PROVE RestoreIsExact'
    BY DEF RestoreIsExact, Undisturbed, Drops, GraphRestored
  <2>1. RestoreIsExact /\ GraphRestored /\ Undisturbed
    BY <1>1 DEF ExactInv
  <2> QED BY <1>1, <2>1 DEF RestoreIsExact, Undisturbed, Drops, GraphRestored
<1> QED BY <1>3, <1>4, <1>5, <1>6 DEF ExactInv

\* Once somebody ingests, or something is reported or lost, nothing is claimed.
LEMMA DisturbedIsExact == ~Undisturbed => ExactInv
BY DEF Undisturbed, Drops, GraphRestored, ExactInv, NodesExact, RelsExact, MarksExact,
   RestoreIsExact

\* A transaction that creates nodes carries on where the others stopped.
LEMMA CreateNodesExact ==
  ASSUME TypeInv, NodesExact, pc = "nodes", Undisturbed, NEW statements \in SUBSET Rest,
         Performed(statements), UNCHANGED <<pc, dumps>>, w'.source = w.source
  PROVE  NodesExact'
<1> DEFINE D == Dump.nodes \ Rest
           N == Dump.nodes \ Rest'
<1>1. FiniteFile(Dump) /\ w.source \in Runs /\ Rest \subseteq NodeStatement /\ IsFiniteSet(Rest)
      /\ Rest \subseteq Dump.nodes
  BY SourceIsFile DEF Phases, Rest, TypeInv, WorkTyped
<1>2. Dump' = Dump /\ Rest' = Rest \ statements /\ N = D \cup statements
      /\ D \cap statements = {}
  BY <1>1 DEF Dump, Performed
<1>3. IsFiniteSet(statements) /\ statements \subseteq NodeStatement /\ CreateNodes(statements)
  BY <1>1, FS_Subset DEF Performed, Execute
<1>4. PICK old \in [D -> Ids] : Created(old, D) /\ Marked(old, D)
  BY DEF NodesExact
<1>5. PICK new \in [statements -> Ids \ Used] :
        /\ \A s \in statements : nodes'[new[s]] = s[2] /\ mark'[new[s]] = s[1]
        /\ \A s, t \in statements : new[s] = new[t] => s = t
        /\ \A i \in Ids \ {new[s] : s \in statements} :
             nodes'[i] = nodes[i] /\ mark'[i] = mark[i]
        /\ Used' = Used \cup {new[s] : s \in statements}
        /\ UNCHANGED rels
  BY <1>3, CreateNodesDoes DEF TypeInv
<1> DEFINE id == [n \in N |-> IF n \in statements THEN new[n] ELSE old[n]]
<1> HIDE DEF D, N
<1>6. id \in [N -> Ids]
  BY <1>2
<1>7. \A n \in statements : n \in N /\ id[n] = new[n] /\ id[n] \in Ids \ Used
  BY <1>2
<1>8. \A n \in D : n \in N /\ id[n] = old[n] /\ id[n] \in Used
  BY <1>2, <1>4 DEF Created
<1>9. \A n \in N : n \in D \/ n \in statements
  BY <1>2
<1> HIDE DEF id
<1>10. Used' = {id[n] : n \in N}
  <2>1. Used = {id[n] : n \in D}
    BY <1>4, <1>8 DEF Created
  <2>2. {new[s] : s \in statements} = {id[n] : n \in statements}
    BY <1>7
  <2> QED BY <1>2, <1>5, <2>1, <2>2
<1>11. \A n \in N : nodes'[id[n]] = n[2] /\ mark'[id[n]] = n[1]
  <2>1. ASSUME NEW n \in D PROVE nodes'[id[n]] = n[2] /\ mark'[id[n]] = n[1]
    <3>1. id[n] \in Used /\ id[n] \in Ids
      BY <1>6, <1>8
    <3>2. id[n] \in Ids \ {new[s] : s \in statements}
      BY <3>1
    <3>3. nodes[id[n]] = n[2] /\ mark[id[n]] = n[1]
      BY <1>4, <1>8 DEF Created, Marked
    <3> QED BY <1>5, <3>2, <3>3
  <2> QED BY <1>5, <1>7, <1>9, <2>1
<1>12. \A m, n \in N : id[m] = id[n] => m = n
  BY <1>4, <1>5, <1>7, <1>8, <1>9 DEF Created
<1>13. MarksAreOnNodes'
  <2>1. \A i \in Ids \ Used' : mark'[i] = mark[i] /\ i \in Ids \ Used
    BY <1>5
  <2> QED BY <2>1 DEF NodesExact, MarksAreOnNodes
<1>14. \A p \in Ids \X Ids : rels'[p] = 0
  BY <1>5 DEF NodesExact
<1>15. PICK g : g = id
  OBVIOUS
<1>16. N = Dump'.nodes \ Rest' /\ g \in [Dump'.nodes \ Rest' -> Ids]
  BY <1>2, <1>6, <1>15 DEF N
<1>17. Created(g, Dump.nodes \ Rest)' /\ Marked(g, Dump.nodes \ Rest)'
  BY <1>10, <1>11, <1>12, <1>15, <1>16 DEF Created, Marked
<1> QED BY <1>13, <1>14, <1>16, <1>17 DEF NodesExact

\* A node that a statement has created is what the ends of relationships match.
LEMMA EndsMatch ==
  ASSUME NEW id, NEW S, S \subseteq NodeStatement, Created(id, S), Marked(id, S),
         NEW n \in S, NEW end \in Ids \X Labels
  PROVE  Matches(id[n], end) <=> end = StandsFor(n)
<1>1. nodes[id[n]] = n[2] /\ mark[id[n]] = n[1] /\ n[2] \in Keys /\ n[2] # None
  BY BackupAssumption DEF Created, Marked, NodeStatement
<1>2. end = <<end[1], end[2]>>
  OBVIOUS
<1> QED BY <1>1, <1>2 DEF Matches, StandsFor

\* A transaction that creates relationships adds those of its statements.
LEMMA CreateRelsExact ==
  ASSUME TypeInv, RelsExact, pc = "rels", Undisturbed, NEW statements \in SUBSET Rest,
         Performed(statements), UNCHANGED <<pc, dumps>>, w'.source = w.source
  PROVE  RelsExact'
<1> DEFINE D == Dump.rels \ Rest
           N == Dump.rels \ Rest'
<1>1. FiniteFile(Dump) /\ Rest \subseteq Dump.rels
  BY SourceIsFile DEF Phases, Rest, TypeInv, WorkTyped
<1>2. Dump' = Dump /\ N = D \cup statements /\ D \cap statements = {}
      /\ D \in SUBSET Dump.rels /\ statements \in SUBSET Dump.rels
  BY <1>1 DEF Dump, Performed
<1>3. /\ \A i, j \in Ids : rels'[<<i, j>>] =
           rels[<<i, j>>] + Cardinality({s \in statements : Matches(i, s[1]) /\ Matches(j, s[2])})
      /\ UNCHANGED <<nodes, mark>>
  BY DEF Performed, Execute, CreateRels
<1>4. PICK id \in [Dump.nodes -> Ids] :
        Created(id, Dump.nodes) /\ Marked(id, Dump.nodes) /\ Linked(id, D)
  BY DEF RelsExact
<1>5. Dump.nodes \subseteq NodeStatement /\ Dump.rels \subseteq RelStatement
      /\ IsFiniteSet(Dump.rels)
  BY <1>1 DEF FiniteFile, DumpFile
<1> HIDE DEF D, N
<1>6. ASSUME NEW m \in Dump.nodes, NEW n \in Dump.nodes
      PROVE  rels'[<<id[m], id[n]>>] = Cardinality(Between(m, n, N))
  <2>1. ASSUME NEW s \in statements
        PROVE  /\ Matches(id[m], s[1]) <=> s[1] = StandsFor(m)
               /\ Matches(id[n], s[2]) <=> s[2] = StandsFor(n)
    <3>1. s[1] \in Ids \X Labels /\ s[2] \in Ids \X Labels
      BY <1>2, <1>5 DEF RelStatement
    <3> QED BY <1>4, <1>5, <3>1, EndsMatch
  <2>2. {s \in statements : Matches(id[m], s[1]) /\ Matches(id[n], s[2])}
          = Between(m, n, statements)
    BY <2>1 DEF Between
  <2>3. /\ Between(m, n, N) = Between(m, n, D) \cup Between(m, n, statements)
        /\ Between(m, n, D) \cap Between(m, n, statements) = {}
        /\ Between(m, n, D) \in SUBSET Dump.rels
        /\ Between(m, n, statements) \in SUBSET Dump.rels
    BY <1>2 DEF Between
  <2>4. /\ IsFiniteSet(Between(m, n, D)) /\ IsFiniteSet(Between(m, n, statements))
    BY <1>5, <2>3, FS_Subset
  <2>5. Cardinality(Between(m, n, N))
          = Cardinality(Between(m, n, D)) + Cardinality(Between(m, n, statements))
    <3>1. Cardinality(Between(m, n, D) \cap Between(m, n, statements)) = 0
      BY <2>3, FS_EmptySet
    <3>2. /\ Cardinality(Between(m, n, D)) \in Nat
          /\ Cardinality(Between(m, n, statements)) \in Nat
      BY <2>4, FS_CardinalityType
    <3>3. Cardinality(Between(m, n, D) \cup Between(m, n, statements))
            = Cardinality(Between(m, n, D)) + Cardinality(Between(m, n, statements))
                - Cardinality(Between(m, n, D) \cap Between(m, n, statements))
      BY <2>4, FS_Union
    <3> QED BY <2>3, <3>1, <3>2, <3>3
  <2>6. rels[<<id[m], id[n]>>] = Cardinality(Between(m, n, D))
    BY <1>4 DEF Linked
  <2> QED BY <1>3, <2>2, <2>5, <2>6
<1>7. Linked(id, Dump.rels \ Rest)'
  BY <1>2, <1>6 DEF Linked, Between, N
<1>8. MarksAreOnNodes' /\ Created(id, Dump.nodes)' /\ Marked(id, Dump.nodes)'
  BY <1>2, <1>3, <1>4 DEF RelsExact, MarksAreOnNodes, Created, Marked, Used
<1> QED BY <1>2, <1>4, <1>7, <1>8 DEF RelsExact

\* A statement takes the marks away from the nodes of its label.
LEMMA RemoveMarksExact ==
  ASSUME MarksExact, pc = "marks", Undisturbed, NEW statements \in SUBSET Rest,
         Performed(statements), UNCHANGED <<pc, dumps>>, w'.source = w.source
  PROVE  MarksExact'
<1>1. /\ \A i \in Ids : mark'[i] = IF nodes[i] # None /\ LabelOf[nodes[i]] \in statements
                                 THEN None ELSE mark[i]
      /\ UNCHANGED <<nodes, rels>> /\ Rest' = Rest \ statements
  BY DEF Performed, Execute, RemoveMarks
<1>2. Dump' = Dump /\ Used' = Used
  BY <1>1 DEF Dump, Used
<1>3. \A i \in Used : mark'[i] # None /\ LabelOf[nodes[i]] \in Dump.marks => LabelOf[nodes[i]] \in Rest'
  BY <1>1 DEF MarksExact, Used
<1>4. PICK id \in [Dump.nodes -> Ids] : Created(id, Dump.nodes) /\ Linked(id, Dump.rels)
  BY DEF MarksExact
<1>5. Created(id, Dump.nodes)' /\ Linked(id, Dump.rels)'
  BY <1>1, <1>2, <1>4 DEF Created, Linked, Between
<1> QED BY <1>1, <1>2, <1>3, <1>4, <1>5 DEF MarksExact

LEMMA PhaseExact == ASSUME TypeInv, Counts, ExactInv, PhaseStep PROVE ExactInv'
<1>1. UNCHANGED <<cmd, pc, dumps>> /\ w'.source = w.source /\ w'.quiet = w.quiet
      /\ pc \in Phases /\ w.errors \in Nat /\ Drops' = Drops /\ Dump' = Dump
  BY PhaseDoes DEF PhaseStep, TypeInv, WorkTyped, Work, Drops, Dump
<1>10. Drops \in Nat /\ (~Dump.apoc => Drops <= w.errors)
  BY <1>1, SourceIsFile, FS_CardinalityType DEF Counts, Drops, FiniteFile
<1>2. RestoreIsExact'
  BY <1>1 DEF Phases, RestoreIsExact, GraphRestored
<1>3. ASSUME NEW statements \in SUBSET Rest, Performed(statements), Undisturbed
      PROVE  NodesExact' /\ RelsExact' /\ MarksExact'
  <2>1. NodesExact /\ RelsExact /\ MarksExact
    BY DEF ExactInv
  <2>2. CASE pc = "nodes"
    BY <1>1, <1>3, <2>1, <2>2, CreateNodesExact DEF RelsExact, MarksExact
  <2>3. CASE pc = "rels"
    BY <1>1, <1>3, <2>1, <2>3, CreateRelsExact DEF NodesExact, MarksExact
  <2>4. CASE pc = "marks"
    BY <1>1, <1>3, <2>1, <2>4, RemoveMarksExact DEF NodesExact, RelsExact
  <2> QED BY <1>1, <2>2, <2>3, <2>4 DEF Phases
<1>4. ASSUME NEW statements \in SUBSET Rest, Performed(statements), ~Undisturbed
      PROVE  ~Undisturbed'
  BY <1>1, <1>4 DEF Performed, Undisturbed
<1>5. ASSUME NEW statements, Unanswered(statements) PROVE ~Undisturbed'
  BY <1>5 DEF Unanswered, Undisturbed
<1>6. ASSUME NEW statement, Counted(statement) PROVE ~Undisturbed'
  BY <1>1, <1>6, <1>10 DEF Counted, Undisturbed
<1>7. ASSUME ~Undisturbed' PROVE NodesExact' /\ RelsExact' /\ MarksExact'
  BY <1>7 DEF NodesExact, RelsExact, MarksExact
<1>8. ASSUME Unperformed PROVE NodesExact' /\ RelsExact' /\ MarksExact'
  <2>1. UNCHANGED <<nodes, mark, rels>> /\ Used' = Used /\ Dump' = Dump /\ Rest' = Rest
        /\ Undisturbed' = Undisturbed
    BY <1>1, <1>8 DEF Unperformed, graph, Used, Dump, Undisturbed
  <2> QED BY <1>1, <1>8, <2>1, ExactStays DEF Unperformed, ExactInv
<1>9. NodesExact' /\ RelsExact' /\ MarksExact'
  BY <1>3, <1>4, <1>5, <1>6, <1>7, <1>8, PhaseDoes
<1> QED BY <1>2, <1>9 DEF ExactInv

LEMMA UsedGrows ==
  ASSUME TypeInv, pc = "nodes", NEW statements \in SUBSET Rest, Execute(statements)
  PROVE  Cardinality(Used') = Cardinality(Used) + Cardinality(statements)
         /\ Cardinality(statements) \in Nat
<1>1. IsFiniteSet(statements) /\ statements \subseteq NodeStatement /\ CreateNodes(statements)
  BY SourceIsFile, FS_Subset DEF Phases, Rest, Execute
<1>2. PICK id \in [statements -> Ids \ Used] :
        /\ Used' = Used \cup {id[s] : s \in statements}
        /\ Cardinality({id[s] : s \in statements}) = Cardinality(statements)
  <2>1. \E id \in [statements -> Ids \ Used] :
          /\ \A s \in statements : nodes'[id[s]] = s[2] /\ mark'[id[s]] = s[1]
          /\ \A s, t \in statements : id[s] = id[t] => s = t
          /\ \A i \in Ids \ {id[s] : s \in statements} :
               nodes'[i] = nodes[i] /\ mark'[i] = mark[i]
          /\ Used' = Used \cup {id[s] : s \in statements}
          /\ Cardinality({id[s] : s \in statements}) = Cardinality(statements)
          /\ nodes' \in [Ids -> Keys \cup {None}] /\ mark' \in [Ids -> Ids \cup {None}]
          /\ UNCHANGED rels
    <3>1. GraphTyped
      BY DEF TypeInv
    <3> QED BY <1>1, <3>1, CreateNodesDoes, Zenon
  <2> QED BY <2>1, Zenon
<1> DEFINE New == {id[s] : s \in statements}
<1>3. New \in SUBSET Ids /\ Used \cap New = {}
  OBVIOUS
<1> HIDE DEF New
<1>4. IsFiniteSet(New)
  BY <1>3, BackupAssumption, FS_Subset
<1>5. Cardinality(Used \cap New) = 0
  BY <1>3, FS_EmptySet
<1>6. Cardinality(Used \cup New) = Cardinality(Used) + Cardinality(New) - Cardinality(Used \cap New)
  BY <1>4, UsedIsFinite, FS_Union
<1>7. Cardinality(New) \in Nat
  BY <1>4, FS_CardinalityType
<1> QED BY <1>2, <1>5, <1>6, <1>7, UsedIsFinite DEF New

LEMMA PhaseCounts == ASSUME TypeInv, Counts, PhaseStep PROVE Counts'
<1>1. UNCHANGED <<cmd, pc, dumps>> /\ w'.source = w.source /\ w'.quiet = w.quiet
      /\ pc \in Phases /\ w.errors \in Nat /\ Dump' = Dump /\ Drops' = Drops
  BY PhaseDoes DEF PhaseStep, TypeInv, WorkTyped, Work, Dump, Drops
<1>2. MissingIsCounted'
  BY <1>1 DEF Phases, MissingIsCounted, GraphRestored
<1>3. Cardinality(Dump.nodes) \in Nat /\ Cardinality(Used) \in Nat /\ Cardinality(Dump.marks) \in Nat
  BY <1>1, SourceIsFile, FS_CardinalityType, UsedIsFinite DEF FiniteFile
<1>7. w'.errors \in {w.errors, w.errors + 1} /\ (~Dump.apoc => Drops <= w'.errors)
  <2>1. w'.errors \in {w.errors, w.errors + 1}
    BY PhaseDoes DEF Performed, Unanswered, Unperformed, Counted
  <2>2. Drops \in Nat /\ (~Dump.apoc => Drops <= w.errors)
    BY <1>1, <1>3 DEF Counts, Drops
  <2> QED BY <1>1, <2>1, <2>2
<1>4. CASE pc = "nodes" /\ w.quiet /\ ~Dump.apoc
  <2>1. IsFiniteSet(Rest) /\ Cardinality(Rest) \in Nat
    BY <1>1, <1>4, SourceIsFile, FS_CardinalityType DEF Rest
  <2>2. Cardinality(Dump.nodes) <= Cardinality(Used) + w.errors + Cardinality(Rest)
    BY <1>4 DEF Counts
  <2>3. ASSUME NEW statements \in SUBSET Rest, Performed(statements)
        PROVE  Cardinality(Dump.nodes) <= Cardinality(Used') + w'.errors + Cardinality(Rest')
    <3>1. Execute(statements) /\ Rest' = Rest \ statements /\ w'.errors = w.errors
      BY <2>3 DEF Performed
    <3>2. Cardinality(Used') = Cardinality(Used) + Cardinality(statements)
          /\ Cardinality(statements) \in Nat
      BY <1>4, <3>1, UsedGrows
    <3>3. Rest \cap statements = statements
      OBVIOUS
    <3>4. Cardinality(Rest \ statements) = Cardinality(Rest) - Cardinality(Rest \cap statements)
      BY <2>1, FS_Difference
    <3>5. Cardinality(Rest') = Cardinality(Rest) - Cardinality(statements)
      BY <3>1, <3>3, <3>4
    <3> QED BY <1>3, <2>1, <2>2, <3>1, <3>2, <3>5, <1>1
  <2>4. ASSUME NEW statements \in SUBSET Rest, Unanswered(statements)
        PROVE  Cardinality(Dump.nodes) <= Cardinality(Used') + w'.errors + Cardinality(Rest')
    <3>1. Execute(statements) /\ Rest' = Rest /\ w'.errors = w.errors
      BY <2>4 DEF Unanswered
    <3>2. Cardinality(Used') = Cardinality(Used) + Cardinality(statements)
          /\ Cardinality(statements) \in Nat
      BY <1>4, <3>1, UsedGrows
    <3> QED BY <1>1, <1>3, <2>1, <2>2, <3>1, <3>2
  <2>5. ASSUME Unperformed
        PROVE  Cardinality(Dump.nodes) <= Cardinality(Used') + w'.errors + Cardinality(Rest')
    BY <2>2, <2>5 DEF Unperformed, graph, Used
  <2>6. ASSUME NEW statement \in Rest, Counted(statement)
        PROVE  Cardinality(Dump.nodes) <= Cardinality(Used') + w'.errors + Cardinality(Rest')
    <3>1. Used' = Used /\ Rest' = Rest \ {statement} /\ w'.errors = w.errors + 1
      BY <2>6 DEF Counted, graph, Used
    <3>2. Cardinality(Rest \ {statement}) = Cardinality(Rest) - 1
      BY <2>1, FS_RemoveElement
    <3> QED BY <1>1, <1>3, <2>1, <2>2, <3>1, <3>2
  <2>7. Cardinality(Dump.nodes) <= Cardinality(Used') + w'.errors + Cardinality(Rest')
    BY <2>3, <2>4, <2>5, <2>6, PhaseDoes
  <2> QED BY <1>1, <1>2, <1>4, <1>7, <2>7 DEF Counts
<1>5. CASE pc \in {"rels", "marks"} /\ w.quiet /\ ~Dump.apoc
  <2>1. Used' = Used
    <3>1. ASSUME NEW statements, Execute(statements) PROVE Used' = Used
      BY <1>5, <3>1 DEF Execute, CreateRels, RemoveMarks, Used
    <3> QED BY <3>1, PhaseDoes DEF Performed, Unanswered, Unperformed, Counted, graph, Used
  <2>3. Cardinality(Dump.nodes) + Cardinality(Dump.marks) <= Cardinality(Used) + w.errors
    BY <1>5 DEF Counts
  <2>4. Cardinality(Dump.nodes) + Cardinality(Dump.marks) <= Cardinality(Used) + w'.errors
    BY <1>1, <1>3, <1>7, <2>3
  <2> QED BY <1>1, <1>2, <1>5, <1>7, <2>1, <2>4 DEF Counts
<1>6. CASE ~w.quiet \/ Dump.apoc
  BY <1>1, <1>2, <1>6, <1>7 DEF Counts
<1> QED BY <1>1, <1>4, <1>5, <1>6 DEF Phases

\* The cleared graph has no node, and every statement is to be run.
LEMMA ClearGraphExact ==
  ASSUME TypeInv, ClearGraph PROVE Counts' /\ ExactInv'
<1>1. /\ UNCHANGED <<cmd, dumps>> /\ pc = "clear" /\ pc' = "nodes"
      /\ w' = [w EXCEPT !.left = IF Dump.apoc THEN {} ELSE Dump.nodes]
  BY DEF ClearGraph, Goto
<1>2. Work(w) /\ w.alone = {} /\ w.errors \in Nat
  BY <1>1 DEF TypeInv, WorkTyped, Work
<1>3. /\ ~Dump.apoc => w'.left = Dump.nodes
      /\ w'.alone = {} /\ w'.source = w.source /\ w'.errors = w.errors
  BY <1>1, <1>2 DEF Work
<1>8. Dump' = Dump
  BY <1>1, <1>3 DEF Dump
<1>4. (~Dump.apoc => Rest' = Dump'.nodes) /\ IsFiniteSet(Dump.nodes)
  BY <1>1, <1>3, <1>8, SourceIsFile DEF Rest, FiniteFile
<1>5. Counts'
  <2>1. Used' \in SUBSET Ids
    BY DEF Used
  <2>2. Cardinality(Used') \in Nat /\ Cardinality(Dump.nodes) \in Nat
    BY <1>4, <2>1, BackupAssumption, FS_Subset, FS_CardinalityType
  <2>3. ~Dump.apoc => Cardinality(Dump'.nodes) <= Cardinality(Used') + w'.errors + Cardinality(Rest')
    BY <1>2, <1>3, <1>4, <1>8, <2>2
  <2>4. Drops' = 0 /\ 0 <= w'.errors
    BY <1>1, <1>2, <1>3 DEF Drops
  <2> QED BY <1>1, <1>8, <2>3, <2>4 DEF Counts, MissingIsCounted, GraphRestored
<1>6. NodesExact'
  <2> SUFFICES ASSUME cmd.clear, ~Dump.apoc PROVE NodesExact'
    BY <1>1, <1>8 DEF NodesExact, Undisturbed
  <2>1. /\ nodes' = [i \in Ids |-> None] /\ mark' = [i \in Ids |-> None]
        /\ rels' = [p \in Ids \X Ids |-> 0]
    BY DEF ClearGraph
  <2>2. Used' = {} /\ Dump'.nodes \ Rest' = {}
    BY <1>4, <2>1 DEF Used
  <2>3. PICK id : id = [n \in {} |-> n]
    OBVIOUS
  <2>4. id \in [{} -> Ids]
    BY <2>3
  <2>5. Created(id, Dump.nodes \ Rest)' /\ Marked(id, Dump.nodes \ Rest)'
    BY <2>2 DEF Created, Marked
  <2>6. MarksAreOnNodes' /\ \A p \in Ids \X Ids : rels'[p] = 0
    BY <2>1 DEF MarksAreOnNodes
  <2>7. id \in [Dump'.nodes \ Rest' -> Ids]
    BY <2>2, <2>4
  <2> HIDE DEF Rest, Dump
  <2> QED BY <2>5, <2>6, <2>7 DEF NodesExact
<1>7. RelsExact' /\ MarksExact' /\ RestoreIsExact'
  BY <1>1 DEF RelsExact, MarksExact, RestoreIsExact, GraphRestored
<1> QED BY <1>5, <1>6, <1>7 DEF ExactInv

\* The DROP INDEX statements are counted, and the graph is as it was.
LEMMA RunIndexesExact == ASSUME TypeInv, Counts, ExactInv, RunIndexes PROVE Counts' /\ ExactInv'
<1> DEFINE drops == Cardinality(Dump.marks)
<1>1. /\ UNCHANGED <<graph, cmd, dumps>> /\ pc = "index" /\ pc' = "rels" /\ ~Dump.apoc
      /\ \/ w' = [w EXCEPT !.left = Dump.rels, !.errors = @ + drops]
         \/ w' = [[w EXCEPT !.left = Dump.rels, !.errors = @ + drops] EXCEPT !.errors = @ + 1]
  BY DEF RunIndexes, Goto, store
<1>2. Work(w) /\ w.alone = {} /\ w.left = {} /\ Rest = {} /\ w.errors \in Nat
  BY <1>1 DEF TypeInv, WorkTyped, Work, Rest
<1>3. drops \in Nat /\ Cardinality(Dump.nodes) \in Nat
  BY <1>1, SourceIsFile, FS_CardinalityType DEF FiniteFile
<1>4. /\ w'.source = w.source /\ w'.quiet = w.quiet /\ w'.lost = w.lost /\ w'.alone = {}
      /\ w'.left = Dump.rels
      /\ w'.errors = w.errors + drops \/ w'.errors = w.errors + drops + 1
  <2> HIDE DEF drops
  <2>1. PICK k : k \in {w.errors + drops, w.errors + drops + 1}
                 /\ w' = [w EXCEPT !.left = Dump.rels, !.errors = k]
    BY <1>1, <1>2 DEF Work
  <2> QED BY <1>2, <2>1 DEF Work
<1>5. UNCHANGED <<nodes, mark, rels>> /\ Used' = Used /\ Dump' = Dump /\ Rest' = Dump.rels
      /\ Drops = 0 /\ Drops' = drops
  BY <1>1, <1>4 DEF graph, Used, Dump, Rest, Drops
<1> HIDE DEF drops
<1>6. Counts'
  <2>1. Cardinality({}) = 0 /\ Cardinality(Used) \in Nat
    BY FS_EmptySet, UsedIsFinite
  <2>2. w.quiet => Cardinality(Dump.nodes) <= Cardinality(Used) + w.errors
    BY <1>1, <1>2, <1>3, <2>1 DEF Counts
  <2>3. w'.quiet => Cardinality(Dump.nodes) + drops <= Cardinality(Used) + w'.errors
    BY <1>2, <1>3, <1>4, <2>1, <2>2
  <2>4. Drops' <= w'.errors
    BY <1>2, <1>3, <1>4, <1>5
  <2> QED BY <1>1, <1>5, <2>3, <2>4 DEF Counts, MissingIsCounted, GraphRestored, drops
<1>7. RelsExact'
  <2> SUFFICES ASSUME Undisturbed' PROVE RelsExact'
    BY DEF RelsExact
  <2>1. Undisturbed
    BY <1>1, <1>2, <1>3, <1>4, <1>5 DEF Undisturbed
  <2>2. PICK id \in [Dump.nodes -> Ids] : Created(id, Dump.nodes) /\ Marked(id, Dump.nodes)
    BY <1>1, <1>2, <2>1 DEF ExactInv, NodesExact
  <2>3. MarksAreOnNodes /\ \A p \in Ids \X Ids : rels[p] = 0
    BY <1>1, <2>1 DEF ExactInv, NodesExact
  <2>4. ASSUME NEW m \in Dump.nodes, NEW n \in Dump.nodes
        PROVE  Cardinality(Between(m, n, Dump.rels \ Rest')) = 0
    <3>1. Between(m, n, Dump.rels \ Rest') = {}
      BY <1>5 DEF Between
    <3> QED BY <3>1, FS_EmptySet
  <2>5. Linked(id, Dump.rels \ Rest)'
    BY <1>5, <2>2, <2>3, <2>4 DEF Linked, Between
  <2>6. Created(id, Dump.nodes)' /\ Marked(id, Dump.nodes)' /\ MarksAreOnNodes'
    BY <1>5, <2>2, <2>3 DEF Created, Marked, MarksAreOnNodes
  <2> QED BY <1>5, <2>2, <2>5, <2>6 DEF RelsExact
<1> QED BY <1>1, <1>6, <1>7
     DEF ExactInv, NodesExact, MarksExact, RestoreIsExact, GraphRestored

\* Nothing is claimed of what APOC has written.
LEMMA RunForeignExact == ASSUME TypeInv, RunForeign PROVE Counts' /\ ExactInv'
<1>1. UNCHANGED dumps /\ pc' = "rels" /\ Dump.apoc /\ w' = [w EXCEPT !.errors = @ + 1]
  BY DEF RunForeign, Goto
<1>2. w'.source = w.source
  BY <1>1 DEF TypeInv, WorkTyped, Work
<1>3. Dump'.apoc /\ ~Undisturbed'
  BY <1>1, <1>2 DEF Dump, Undisturbed
<1>4. Counts'
  BY <1>1, <1>3 DEF Counts, MissingIsCounted
<1>5. ExactInv'
  BY <1>1, <1>3 DEF ExactInv, NodesExact, RelsExact, MarksExact, RestoreIsExact, GraphRestored
<1> QED BY <1>4, <1>5

LEMMA NextPhaseExact == ASSUME TypeInv, Counts, ExactInv, NextPhase PROVE Counts' /\ ExactInv'
<1>1. UNCHANGED <<graph, cmd, dumps>> /\ w.left = {} /\ w.alone = {} /\ Rest = {}
  BY DEF NextPhase, Done, store, Rest
<1>2. \/ pc = "nodes" /\ pc' = "index" /\ w' = w
      \/ pc = "rels" /\ pc' = "marks" /\ w' = [w EXCEPT !.left = Dump.marks]
      \/ pc = "marks" /\ pc' = "collections" /\ w' = w
  BY DEF NextPhase, Goto
<1>3. /\ w'.source = w.source /\ w'.quiet = w.quiet /\ w'.errors = w.errors /\ w'.lost = w.lost
      /\ w'.alone = {} /\ w.errors \in Nat
      /\ pc' = "index" => w'.left = {}
      /\ pc' = "marks" => w'.left = Dump.marks
  BY <1>1, <1>2 DEF TypeInv, WorkTyped, Work
<1>8. UNCHANGED <<nodes, mark, rels>> /\ Used' = Used /\ Dump' = Dump
  BY <1>1, <1>3 DEF graph, Used, Dump
<1>4. Drops' = Drops /\ Undisturbed' = Undisturbed
  BY <1>1, <1>2, <1>3, <1>8 DEF Drops, Undisturbed
<1>5. CASE pc = "nodes"
  <2>1. pc' = "index" /\ Rest' = Rest
    BY <1>1, <1>2, <1>3, <1>5 DEF Rest
  <2>2. Counts'
    BY <1>3, <1>4, <1>5, <1>8, <2>1 DEF Counts, MissingIsCounted, GraphRestored, Phases
  <2>3. NodesExact'
    <3> SUFFICES ASSUME Undisturbed PROVE NodesExact'
      BY <1>4 DEF NodesExact
    <3>1. PICK id \in [Dump.nodes \ Rest -> Ids] :
            Created(id, Dump.nodes \ Rest) /\ Marked(id, Dump.nodes \ Rest)
      BY <1>5 DEF ExactInv, NodesExact
    <3>2. MarksAreOnNodes /\ \A p \in Ids \X Ids : rels[p] = 0
      BY <1>5 DEF ExactInv, NodesExact
    <3>3. Dump'.nodes \ Rest' = Dump.nodes \ Rest
      BY <1>8, <2>1
    <3>4. Created(id, Dump.nodes \ Rest)' /\ Marked(id, Dump.nodes \ Rest)'
      BY <1>8, <3>1, <3>3 DEF Created, Marked
    <3>5. MarksAreOnNodes' /\ \A p \in Ids \X Ids : rels'[p] = 0
      BY <1>8, <3>2 DEF MarksAreOnNodes
    <3>6. id \in [Dump'.nodes \ Rest' -> Ids]
      BY <3>1, <3>3
    <3> HIDE DEF Rest, Dump
    <3> QED BY <3>4, <3>5, <3>6 DEF NodesExact
  <2> QED BY <2>1, <2>2, <2>3
       DEF ExactInv, RelsExact, MarksExact, RestoreIsExact, GraphRestored
<1>6. CASE pc = "rels"
  <2>1. pc' = "marks" /\ Rest' = Dump.marks
    BY <1>2, <1>3, <1>6 DEF Rest
  <2>2. Counts'
    BY <1>3, <1>4, <1>6, <1>8, <2>1 DEF Counts, MissingIsCounted, GraphRestored, Phases
  <2>3. ASSUME Undisturbed PROVE MarksExact'
    <3>1. PICK id \in [Dump.nodes -> Ids] : Created(id, Dump.nodes) /\ Linked(id, Dump.rels)
      BY <1>1, <1>6, <2>3 DEF ExactInv, RelsExact
    <3>2. Created(id, Dump.nodes)' /\ Linked(id, Dump.rels)'
      BY <1>8, <3>1 DEF Created, Linked, Between
    <3> QED BY <1>8, <2>1, <3>1, <3>2 DEF MarksExact
  <2>4. ~Undisturbed => MarksExact'
    BY <1>4 DEF MarksExact
  <2> QED BY <2>1, <2>2, <2>3, <2>4
       DEF ExactInv, NodesExact, RelsExact, RestoreIsExact, GraphRestored
<1>7. CASE pc = "marks"
  <2>1. pc' = "collections"
    BY <1>2, <1>7
  <2>2. Counts'
    BY <1>3, <1>7, <1>8, <2>1 DEF Counts, MissingIsCounted, Phases
  <2>3. ASSUME Undisturbed PROVE RestoreIsExact'
    <3>1. PICK id \in [Dump.nodes -> Ids] : Created(id, Dump.nodes) /\ Linked(id, Dump.rels)
      BY <1>7, <2>3 DEF ExactInv, MarksExact
    <3>2. \A i \in Used : LabelOf[nodes[i]] \in Dump.marks => mark[i] = None
      BY <1>1, <1>7, <2>3 DEF ExactInv, MarksExact
    <3> QED BY <1>8, <3>1, <3>2 DEF RestoreIsExact, Created, Linked, Between
  <2>4. ~Undisturbed => RestoreIsExact'
    BY <1>4, <2>1 DEF RestoreIsExact, Undisturbed, Drops
  <2> QED BY <2>1, <2>2, <2>3, <2>4 DEF ExactInv, NodesExact, RelsExact, MarksExact
<1> QED BY <1>2, <1>5, <1>6, <1>7

LEMMA ExactStep == ASSUME TypeInv, Counts, ExactInv, Next PROVE Counts' /\ ExactInv'
<1>1. Work(w)
  BY DEF TypeInv, WorkTyped
<1>2. CASE Server
  <2>1. /\ UNCHANGED <<cmd, pc, dumps>> /\ w'.left = w.left /\ w'.alone = w.alone
        /\ w'.source = w.source /\ w'.errors = w.errors /\ w'.lost = w.lost
        /\ ~w'.quiet \/ (UNCHANGED graph /\ w'.quiet = w.quiet)
    BY <1>2, ServerDoes
  <2>2. CASE ~w'.quiet
    <3>1. Dump' = Dump /\ Drops' = Drops
      BY <2>1 DEF Dump, Drops
    <3> QED BY <2>1, <2>2, <3>1 DEF Counts, MissingIsCounted, Undisturbed, ExactInv, NodesExact,
            RelsExact, MarksExact, RestoreIsExact
  <2>3. CASE UNCHANGED graph /\ w'.quiet = w.quiet
    <3>1. Rest' = Rest
      BY <2>1 DEF Rest
    <3> QED BY <2>1, <2>3, <3>1, ExactStays
  <2> QED BY <2>1, <2>2, <2>3
<1>3. CASE PhaseStep
  BY <1>3, PhaseExact, PhaseCounts
<1>4. CASE ClearGraph
  BY <1>4, ClearGraphExact
<1>9. CASE RunIndexes \/ RunForeign
  BY <1>9, RunIndexesExact, RunForeignExact
<1>5. CASE NextPhase
  BY <1>5, NextPhaseExact
<1>6. CASE \/ ListExports \/ (\E c \in Collections : BeginCollection(c)) \/ DeleteCollection
           \/ CreateCollection \/ UpsertBatch \/ CollectionFails \/ EndRestore
  <2>1. /\ UNCHANGED <<graph, cmd, dumps>>
        /\ pc \in {"collections", "restore", "delete", "create", "upsert"}
        /\ pc' \in {"restore", "delete", "create", "upsert", "free"}
    BY <1>6 DEF ListExports, BeginCollection, DeleteCollection, CreateCollection, UpsertBatch,
       CollectionFails, EndRestore, Abandon, Goto, store
  <2>2. w'.source = w.source /\ w'.quiet = w.quiet /\ w'.errors = w.errors /\ w'.lost = w.lost
    BY <1>1, <1>6 DEF ListExports, BeginCollection, DeleteCollection, CreateCollection,
       UpsertBatch, CollectionFails, EndRestore, Abandon, Goto, Work
  <2>3. UNCHANGED <<nodes, mark, rels>> /\ Used' = Used /\ Dump' = Dump
        /\ (GraphRestored' => GraphRestored)
    BY <2>1, <2>2 DEF graph, Used, Dump, GraphRestored
  <2>4. MissingIsCounted'
    BY <2>2, <2>3 DEF Counts, MissingIsCounted
  <2>5. RestoreIsExact'
    <3> SUFFICES ASSUME GraphRestored', Undisturbed' PROVE RestoreIsExact'
      BY DEF RestoreIsExact, Undisturbed, Drops, GraphRestored
    <3>1. RestoreIsExact /\ GraphRestored /\ Undisturbed
      BY <2>1, <2>2, <2>3 DEF ExactInv, Undisturbed, Drops
    <3> DEFINE Copy(id) ==
          /\ Used = {id[n] : n \in Dump.nodes}
          /\ \A m, n \in Dump.nodes :
               /\ nodes[id[n]] = n[2] /\ (id[m] = id[n] => m = n)
               /\ rels[<<id[m], id[n]>>] =
                    Cardinality({s \in Dump.rels : s[1] = StandsFor(m) /\ s[2] = StandsFor(n)})
    <3>2. (\A i \in Used : LabelOf[nodes[i]] \in Dump.marks => mark[i] = None) /\ \E id \in [Dump.nodes -> Ids] : Copy(id)
      BY <3>1 DEF RestoreIsExact, Undisturbed, Drops, GraphRestored
    <3>3. PICK id \in [Dump.nodes -> Ids] : Copy(id)
      BY <3>2
    <3>4. /\ Copy(id)' /\ id \in [Dump'.nodes -> Ids]
          /\ \A i \in Used' : LabelOf[nodes'[i]] \in Dump'.marks => mark'[i] = None
      BY <2>3, <3>2, <3>3
    <3> QED BY <3>4 DEF RestoreIsExact
  <2> QED BY <2>1, <2>4, <2>5 DEF Counts, ExactInv, NodesExact, RelsExact, MarksExact, Phases
<1>7. CASE \E from \in Places, clear \in BOOLEAN : Restore(from, clear)
  <2>1. pc' \in {"clear", "collections", "free"} /\ (pc' = "collections" => w'.source = 0)
    BY <1>7, FreshIsWork DEF Restore, Goto
  <2> QED BY <2>1 DEF Counts, MissingIsCounted, ExactInv, NodesExact, RelsExact, MarksExact,
          RestoreIsExact, GraphRestored, Phases
<1>8. CASE \/ Killed
           \/ \E upload, cleanup \in BOOLEAN : Snapshot(upload, cleanup)
           \/ (\E label \in Labels : DumpLabel(label)) \/ DumpRels \/ DumpFails
           \/ Discover \/ (\E c \in Collections : BeginExport(c)) \/ Scroll \/ ExportFails
           \/ Upload \/ CleanUp
  <2>1. pc' \in {"free", "labels", "discover", "export", "scroll", "finish"}
    BY <1>8 DEF Killed, Snapshot, DumpLabel, DumpRels, DumpFails, Discover, BeginExport, Scroll,
       ExportFails, Upload, CleanUp, Goto
  <2> QED BY <2>1 DEF Counts, MissingIsCounted, ExactInv, NodesExact, RelsExact, MarksExact,
          RestoreIsExact, GraphRestored, Phases
<1> QED BY NextIs, <1>2, <1>3, <1>4, <1>5, <1>6, <1>7, <1>8, <1>9

LEMMA ExactAlways == Spec => [](Counts /\ ExactInv)
<1>1. Init => Counts /\ ExactInv
  BY DEF Init, Counts, MissingIsCounted, ExactInv, NodesExact, RelsExact, MarksExact,
     RestoreIsExact, GraphRestored, Phases
<1>2. TypeInv /\ Counts /\ ExactInv /\ [Next]_vars => (Counts /\ ExactInv)'
  <2> SUFFICES ASSUME TypeInv, Counts, ExactInv, [Next]_vars PROVE Counts' /\ ExactInv'
    OBVIOUS
  <2>1. CASE Next
    BY <2>1, ExactStep
  <2>2. CASE UNCHANGED vars
    BY <2>2, ExactStays DEF vars, store, Rest
  <2> QED BY <2>1, <2>2
<1> QED BY <1>1, <1>2, TypeAlways, PTL DEF Spec

\* The workers may run their batches in any order and fail in any of them: every
\* node of a file that the fallback wrote, whole or in part, is created or counted,
\* for every file and size of batches.
THEOREM NodesAreCounted == Spec => []MissingIsCounted
<1>1. Counts => MissingIsCounted
  BY DEF Counts
<1> QED BY <1>1, ExactAlways, PTL

\* A restore of such a file that reports nothing but its DROP INDEX statements has
\* made a copy of the file's graph: the
\* statements that are done stand for their nodes one by one, and batches that
\* failed and were tried again one by one leave no duplicate.
THEOREM RestoresExactly == Spec => []RestoreIsExact
<1>1. ExactInv => RestoreIsExact
  BY DEF ExactInv
<1> QED BY <1>1, ExactAlways, PTL

===============================================================================
