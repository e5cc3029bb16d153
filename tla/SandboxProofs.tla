--------------------------- MODULE SandboxProofs ---------------------------
(***************************************************************************)
(* Proofs about SandboxUploads and HybridTraversal, for every number of     *)
(* uploads, sessions, functions and files, every production graph and       *)
(* every bound.                                                            *)
(***************************************************************************)
EXTENDS HybridTraversal, FiniteSetTheorems, WellFoundedInduction, TLAPS

IsBox(b) ==
  /\ DOMAIN b = {"active", "node", "edges", "chunks", "files"}
  /\ b.node \in [Ids -> Node \cup {None}]
  /\ b.edges \subseteq Ids \X Ids

Connected(b) == \A e \in b.edges : b.node[e[1]] # None /\ b.node[e[2]] # None

\* Box b may become c by the work of upload u.
Grows(b, c, u) ==
  /\ IsBox(c)
  /\ c.active = b.active
  /\ b.files \subseteq c.files
  /\ Connected(b) => Connected(c)
  /\ \A id \in Ids :
       c.node[id] # None /\ c.node[id].origin = "sandbox" =>
         c.node[id] = b.node[id] \/ c.node[id].text = u

(***************************************************************************)
(* What the operations on a sandbox do to it                               *)
(***************************************************************************)

\* Loading production nodes, with edges between them only, adds no sandbox text.
LEMMA LoadProdGrows ==
  ASSUME NEW b, IsBox(b), NEW u, NEW ids \in SUBSET ProdIds,
         NEW rels \in SUBSET (ids \X ids)
  PROVE  /\ Grows(b, LoadProd(b, ids, rels), u)
         /\ \A id \in ids : /\ LoadProd(b, ids, rels).node[id] # None
                            /\ LoadProd(b, ids, rels).node[id].origin = "production"
<1> DEFINE c == LoadProd(b, ids, rels)
<1>1. ids \subseteq Ids /\ rels \subseteq Ids \X Ids
  BY GraphAssumption
<1>2. /\ DOMAIN c = DOMAIN b
      /\ c.active = b.active /\ c.files = b.files /\ c.edges = b.edges \cup rels
      /\ c.node = [id \in Ids |->
                     IF id \in ids
                     THEN [origin |-> "production", file |-> ProdFile[id], text |-> None]
                     ELSE b.node[id]]
  BY DEF LoadProd, IsBox
<1>3. \A id \in ids : c.node[id] \in Node /\ c.node[id].origin = "production"
  <2> SUFFICES ASSUME NEW id \in ids
               PROVE  c.node[id] \in Node /\ c.node[id].origin = "production"
    OBVIOUS
  <2>1. ProdFile[id] \in Files
    BY GraphAssumption
  <2>2. c.node[id] = [origin |-> "production", file |-> ProdFile[id], text |-> None]
    BY <1>1, <1>2
  <2> QED BY <2>1, <2>2 DEF Node
<1>4. \A id \in Ids \ ids : c.node[id] = b.node[id]
  BY <1>2
<1>5. c.node \in [Ids -> Node \cup {None}]
  <2>1. \A id \in Ids : c.node[id] \in Node \cup {None}
    BY <1>3, <1>4 DEF IsBox
  <2> HIDE DEF c
  <2> QED BY <1>2, <2>1
<1>6. IsBox(c)
  BY <1>1, <1>2, <1>5 DEF IsBox
<1>7. Connected(b) => Connected(c)
  <2> SUFFICES ASSUME Connected(b), NEW e \in c.edges
               PROVE  c.node[e[1]] # None /\ c.node[e[2]] # None
    BY DEF Connected
  <2>1. \A id \in ids : c.node[id] # None
    BY <1>3, NoneAssumption
  <2>2. CASE e \in rels
    BY <2>1, <2>2
  <2>3. CASE e \in b.edges
    <3>1. e[1] \in Ids /\ e[2] \in Ids /\ b.node[e[1]] # None /\ b.node[e[2]] # None
      BY <2>3 DEF Connected, IsBox
    <3> QED BY <3>1, <2>1, <1>4
  <2> QED BY <1>2, <2>2, <2>3
<1>8. \A id \in Ids : c.node[id] # None /\ c.node[id].origin = "sandbox" =>
                        c.node[id] = b.node[id]
  BY <1>3, <1>4
<1> QED BY <1>2, <1>3, <1>6, <1>7, <1>8, NoneAssumption DEF Grows

\* Ingesting a document writes sandbox texts of its upload only, and every call
\* edge ends at a definition, a node that was there or a stub.
LEMMA DefineGrows ==
  ASSUME NEW b, IsBox(b), NEW u \in Uploads, NEW m \in Modules, NEW doc \in Documents
  PROVE  Grows(b, Define(b, u, m, doc), u)
<1> DEFINE c == Define(b, u, m, doc)
           calls == CallEdges(m, doc)
           defs == Defs(m, doc)
           stubs == {id \in Ids \ defs : b.node[id] = None /\ \E e \in calls : e[2] = id}
<1>1. doc.file \in Files /\ \E D \in SUBSET Names : doc.calls \in [D -> SUBSET Names]
  BY DEF Documents, Definitions
<1>2. defs \subseteq Ids /\ calls \subseteq Ids \X Ids /\ calls \subseteq defs \X Ids
  BY <1>1 DEF Ids, Defs, Callees, CallEdges
<1>3. /\ DOMAIN c = DOMAIN b /\ c.active = b.active /\ c.files = b.files
      /\ c.edges \subseteq b.edges \cup calls
  BY DEF Define, IsBox
<1>4. c.node = [id \in Ids |->
                 IF id \in defs
                 THEN [origin |-> "sandbox", file |-> doc.file, text |-> u]
                 ELSE IF b.node[id] = None /\ \E e \in calls : e[2] = id
                 THEN [origin |-> "stub", file |-> None, text |-> None]
                 ELSE b.node[id]]
  BY DEF Define, IsBox
<1>5. \A id \in defs : c.node[id] \in Node /\ c.node[id].text = u
  <2> SUFFICES ASSUME NEW id \in defs
               PROVE  c.node[id] \in Node /\ c.node[id].text = u
    OBVIOUS
  <2>1. c.node[id] = [origin |-> "sandbox", file |-> doc.file, text |-> u]
    BY <1>2, <1>4
  <2> QED BY <1>1, <2>1 DEF Node
<1>6. \A id \in stubs : c.node[id] \in Node /\ c.node[id].origin = "stub"
  <2> SUFFICES ASSUME NEW id \in stubs
               PROVE  c.node[id] \in Node /\ c.node[id].origin = "stub"
    OBVIOUS
  <2>1. c.node[id] = [origin |-> "stub", file |-> None, text |-> None]
    BY <1>4
  <2> QED BY <2>1 DEF Node
<1>7. \A id \in Ids \ (defs \cup stubs) : c.node[id] = b.node[id]
  BY <1>4
<1>8. IsBox(c)
  <2>1. \A id \in Ids : c.node[id] \in Node \cup {None}
    BY <1>5, <1>6, <1>7 DEF IsBox
  <2>2. c.node \in [Ids -> Node \cup {None}]
    <3> HIDE DEF c
    <3> QED BY <1>4, <2>1
  <2> QED BY <1>2, <1>3, <2>2 DEF IsBox
<1>9. Connected(b) => Connected(c)
  <2> SUFFICES ASSUME Connected(b), NEW e \in c.edges
               PROVE  c.node[e[1]] # None /\ c.node[e[2]] # None
    BY DEF Connected
  <2>1. \A id \in defs \cup stubs : c.node[id] # None
    BY <1>5, <1>6, NoneAssumption
  <2>2. \A id \in Ids : b.node[id] # None => c.node[id] # None
    BY <1>7, <2>1
  <2>3. CASE e \in calls
    <3>1. e[1] \in defs /\ e[2] \in Ids
      BY <1>2, <2>3
    <3>2. e[2] \in defs \/ e[2] \in stubs \/ b.node[e[2]] # None
      BY <3>1, <2>3
    <3> QED BY <3>1, <3>2, <2>1, <2>2
  <2>4. CASE e \in b.edges
    <3>1. e[1] \in Ids /\ e[2] \in Ids /\ b.node[e[1]] # None /\ b.node[e[2]] # None
      BY <2>4 DEF Connected, IsBox
    <3> QED BY <3>1, <2>2
  <2> QED BY <1>3, <2>3, <2>4
<1>10. \A id \in Ids : c.node[id] # None /\ c.node[id].origin = "sandbox" =>
                         c.node[id] = b.node[id] \/ c.node[id].text = u
  BY <1>5, <1>6, <1>7
<1> QED BY <1>3, <1>8, <1>9, <1>10 DEF Grows

LEMMA FilledGrows ==
  ASSUME NEW b, IsBox(b), NEW u \in Uploads, NEW m \in Modules, NEW doc \in Documents
  PROVE  Grows(b, Filled(b, u, m, doc), u)
<1> DEFINE d == Define(b, u, m, doc)
           c == Filled(b, u, m, doc)
<1>1. Grows(b, d, u)
  BY DefineGrows
<1>2. IsBox(d)
  BY <1>1 DEF Grows
<1>3. /\ DOMAIN c = DOMAIN d /\ c.node = d.node /\ c.edges = d.edges
      /\ c.active = d.active /\ c.files = d.files
  <2> HIDE DEF d
  <2> QED BY <1>2 DEF Filled, Embed, IsBox, d
<1> HIDE DEF c, d
<1> QED BY <1>1, <1>3 DEF Grows, IsBox, Connected, c

\* Dropping deleted functions takes their edges along.
LEMMA IngestedGrows ==
  ASSUME NEW b, IsBox(b), NEW u, NEW doc
  PROVE  /\ Grows(b, Ingested(b, doc), u)
         /\ doc.file \in Ingested(b, doc).files
<1> DEFINE gone == {id \in Ids : IsProd(b, id) /\ b.node[id].file = doc.file}
           c == Ingested(b, doc)
<1>1. /\ DOMAIN c = DOMAIN b /\ c.active = b.active
      /\ c.files = b.files \cup {doc.file}
      /\ c.node = [id \in Ids |-> IF id \in gone THEN None ELSE b.node[id]]
      /\ c.edges = {e \in b.edges : e[1] \notin gone /\ e[2] \notin gone}
  BY DEF Ingested, DropDeleted, IsBox
<1>2. IsBox(c)
  <2>1. \A id \in Ids : c.node[id] \in Node \cup {None}
    BY <1>1 DEF IsBox
  <2> HIDE DEF c, gone
  <2> QED BY <1>1, <2>1 DEF IsBox
<1>3. Connected(b) => Connected(c)
  <2> SUFFICES ASSUME Connected(b), NEW e \in c.edges
               PROVE  c.node[e[1]] # None /\ c.node[e[2]] # None
    BY DEF Connected
  <2>1. e[1] \in Ids /\ e[2] \in Ids /\ b.node[e[1]] # None /\ b.node[e[2]] # None
    BY <1>1 DEF Connected, IsBox
  <2> QED BY <1>1, <2>1
<1>4. \A id \in Ids : c.node[id] # None => c.node[id] = b.node[id]
  BY <1>1
<1> HIDE DEF c, gone
<1> QED BY <1>1, <1>2, <1>3, <1>4 DEF Grows, c

\* Rewiring stubs to nodes that are no stubs keeps the graph connected.
LEMMA RewireGrows ==
  ASSUME NEW b, IsBox(b), NEW u, NEW D, NEW to \in [D -> Ids],
         \A n \in D : b.node[to[n]] # None /\ b.node[to[n]].origin # "stub"
  PROVE  Grows(b, Rewire(b, to), u)
<1> DEFINE c == Rewire(b, to)
           stubs == {id \in Ids : b.node[id] # None /\ b.node[id].origin = "stub"
                                   /\ id[1] \in DOMAIN to}
           moved(id) == IF id \in stubs THEN to[id[1]] ELSE id
<1>1. /\ DOMAIN c = DOMAIN b /\ c.active = b.active /\ c.files = b.files
      /\ c.node = [id \in Ids |-> IF id \in stubs THEN None ELSE b.node[id]]
      /\ c.edges = {<<moved(e[1]), moved(e[2])>> : e \in b.edges}
  BY DEF Rewire, IsBox
<1>2. \A id \in Ids : moved(id) \in Ids \ stubs
  OBVIOUS
<1>3. \A id \in Ids : b.node[id] # None => c.node[moved(id)] # None
  <2> SUFFICES ASSUME NEW id \in Ids, b.node[id] # None
               PROVE  c.node[moved(id)] # None
    OBVIOUS
  <2>1. c.node[moved(id)] = b.node[moved(id)]
    BY <1>1, <1>2
  <2>2. b.node[moved(id)] # None
    OBVIOUS
  <2> QED BY <2>1, <2>2
<1>4. IsBox(c)
  <2>1. \A id \in Ids : c.node[id] \in Node \cup {None}
    BY <1>1 DEF IsBox
  <2>2. c.edges \subseteq Ids \X Ids
    BY <1>1, <1>2 DEF IsBox
  <2> HIDE DEF c, stubs
  <2> QED BY <1>1, <2>1, <2>2 DEF IsBox
<1>5. Connected(b) => Connected(c)
  <2> SUFFICES ASSUME Connected(b), NEW e \in c.edges
               PROVE  c.node[e[1]] # None /\ c.node[e[2]] # None
    BY DEF Connected
  <2>1. PICK x \in b.edges : e = <<moved(x[1]), moved(x[2])>>
    BY <1>1
  <2>2. x[1] \in Ids /\ x[2] \in Ids /\ b.node[x[1]] # None /\ b.node[x[2]] # None
    BY DEF Connected, IsBox
  <2> HIDE DEF c, moved
  <2> QED BY <2>1, <2>2, <1>3
<1>6. \A id \in Ids : c.node[id] # None => c.node[id] = b.node[id]
  BY <1>1
<1> HIDE DEF c, stubs
<1> QED BY <1>1, <1>4, <1>5, <1>6 DEF Grows, c

LEMMA GrowsOn ==
  ASSUME NEW b, NEW c, NEW d, NEW u, Grows(b, c, u), Grows(c, d, u)
  PROVE  Grows(b, d, u)
BY DEF Grows

(***************************************************************************)
(* The invariant                                                           *)
(***************************************************************************)

Typed ==
  /\ clears \in [Sids -> Nat]
  /\ table \in [Sids -> Uploads \cup {None}]
  /\ DOMAIN box = Uploads
  /\ tmp \in [Sids -> [Files -> Documents \cup {None}]]
  /\ pc \in [Uploads -> Steps]
  /\ req \in [Uploads -> Requests \cup {None}]
  /\ held \in [Uploads -> Uploads \cup {None}]
  /\ parsed \in [Uploads -> Seq(Documents \cup {None})]
  /\ done \in [Uploads -> Nat]
  /\ born \in [Uploads -> Nat]

\* What upload u has parsed and ingested, by where it is.
Progress(u) ==
  /\ req[u] \in Requests
  /\ held[u] \in Uploads
  /\ Len(parsed[u]) <= Len(Docs(u))
  /\ pc[u] = "parsing" => Len(parsed[u]) < Len(Docs(u))
  /\ pc[u] = "parsed" => parsed[u] # <<>>
  /\ pc[u] \notin {"parsing", "parsed"} => Len(parsed[u]) = Len(Docs(u))
  /\ done[u] <= Len(parsed[u])
  /\ pc[u] \in {"resolving", "ok"} => done[u] = Len(parsed[u])
  /\ \A i \in 1 .. Len(parsed[u]) :
       parsed[u][i] # None \/ (pc[u] = "parsed" /\ i = Len(parsed[u]))

Progressing ==
  /\ \A u \in Uploads : pc[u] \in InFlight \cup {"ok"} => Progress(u)
  /\ \A u \in Uploads : pc[u] = "new" => parsed[u] = <<>> /\ done[u] = 0

\* A box belongs to the upload that created it; the uploads that hold it share
\* its session id and destroy count; the table leads to the current one.
Owned ==
  /\ \A u \in Uploads : pc[u] = "new" => held[u] = None
  /\ \A u \in Uploads : held[u] # None =>
       /\ held[held[u]] = held[u]
       /\ req[u] \in Requests
       /\ Sid(held[u]) = Sid(u)
       /\ born[held[u]] = born[u]
       /\ born[u] <= clears[Sid(u)]
       /\ born[u] = clears[Sid(u)] => table[Sid(u)] = held[u]
  /\ \A s \in Sids : table[s] # None =>
       /\ held[table[s]] = table[s]
       /\ Sid(table[s]) = s
       /\ born[table[s]] = clears[s]
       /\ box[table[s]].active

\* A box is well formed, connected, and has the texts of its uploads only.
GoodBox(b) ==
  /\ IsBox(box[b])
  /\ Connected(box[b])
  /\ \A id \in Ids :
       box[b].node[id] # None /\ box[b].node[id].origin = "sandbox" =>
         held[box[b].node[id].text] = b

GoodBoxes ==
  /\ \A b \in Uploads : held[b] = b => GoodBox(b)
  /\ \A b \in Uploads : held[b] # b => box[b] = None

\* Files have their own names, and ingested documents are in the box.
Loaded ==
  /\ \A s \in Sids, f \in Files : tmp[s][f] # None => tmp[s][f].file = f
  /\ \A u \in Uploads : pc[u] \in InFlight \cup {"ok"} =>
       /\ \A i \in 1 .. Len(parsed[u]) :
            parsed[u][i] # None => parsed[u][i].file = Docs(u)[i].file
       /\ born[u] = clears[Sid(u)] =>
            \A i \in 1 .. done[u] : parsed[u][i].file \in box[held[u]].files

IInv == Typed /\ Progressing /\ Owned /\ GoodBoxes /\ Loaded

LEMMA DocsOfRequest ==
  ASSUME NEW r \in Requests
  PROVE  /\ r.sid \in Sids /\ r.mod \in Modules
         /\ r.docs \in Seq(Documents) /\ r.docs # <<>>
         /\ Len(r.docs) \in Nat \ {0}
         /\ \A i \in 1 .. Len(r.docs) : r.docs[i] \in Documents /\ r.docs[i].file \in Files
<1>1. r.docs \in Batches /\ r.mod \in Targets /\ r.sid \in Sids
  BY DEF Requests
<1>2. r.docs \in Seq(Documents) /\ r.docs # <<>>
  BY <1>1, BatchAssumption
<1>3. \A d \in Documents : d.file \in Files
  BY DEF Documents
<1> QED BY <1>1, <1>2, <1>3, BatchAssumption

LEMMA InitIInv == Init => IInv
<1> SUFFICES ASSUME Init PROVE IInv
  OBVIOUS
<1>1. Typed
  <2>1. <<>> \in Seq(Documents \cup {None})
    OBVIOUS
  <2> QED BY <2>1 DEF Init, Typed, Steps
<1>2. \A u \in Uploads : pc[u] = "new" /\ held[u] = None
  BY DEF Init
<1>3. \A s \in Sids : table[s] = None
  BY DEF Init
<1>4. Progressing
  BY <1>2 DEF Progressing, InFlight, Init
<1>5. Owned
  BY <1>2, <1>3 DEF Owned
<1>6. GoodBoxes
  BY <1>2, NoneAssumption DEF GoodBoxes, Init
<1>7. Loaded
  BY <1>2 DEF Loaded, Init, InFlight
<1> QED BY <1>1, <1>4, <1>5, <1>6, <1>7 DEF IInv

(***************************************************************************)
(* What the steps of an upload do to the sandboxes                         *)
(***************************************************************************)

LEMMA HeldBox ==
  ASSUME IInv, NEW u \in Uploads, pc[u] \in InFlight
  PROVE  /\ Progress(u)
         /\ held[u] \in Uploads /\ held[u] # None
         /\ held[held[u]] = held[u]
         /\ GoodBox(held[u])
<1>1. Progress(u)
  BY DEF IInv, Progressing
<1>2. held[u] \in Uploads /\ held[u] # None
  BY <1>1, NoneAssumption DEF Progress
<1> QED BY <1>1, <1>2 DEF IInv, Owned, GoodBoxes

\* While u pulls, ingests or resolves, all its parses have succeeded.
LEMMA AllParsed ==
  ASSUME IInv, NEW u \in Uploads, pc[u] \in {"pulling", "ingesting", "resolving"}
  PROVE  \A i \in 1 .. Len(parsed[u]) : parsed[u][i] \in Documents /\ parsed[u][i] # None
<1>1. Progress(u)
  BY HeldBox DEF InFlight
<1>2. parsed[u] \in Seq(Documents \cup {None})
  BY DEF IInv, Typed
<1> QED BY <1>1, <1>2 DEF Progress

LEMMA PullGrows ==
  ASSUME IInv, NEW u \in Uploads, Pull(u)
  PROVE  \/ UNCHANGED box
         \/ \E c : Grows(box[held[u]], c, u) /\ box' = [box EXCEPT ![held[u]] = c]
<1> DEFINE m == req[u].mod
           ns == ParsedNames(u)
           c == LoadProd(box[held[u]], Pulled(m, ns), PulledCalls(m, ns))
<1>1. IsBox(box[held[u]])
  BY HeldBox DEF Pull, InFlight, GoodBox
<1>2. Pulled(m, ns) \in SUBSET ProdIds
  BY DEF Pulled
<1>3. PulledCalls(m, ns) \in SUBSET (Pulled(m, ns) \X Pulled(m, ns))
  BY GraphAssumption DEF PulledCalls
<1>4. Grows(box[held[u]], c, u)
  BY <1>1, <1>2, <1>3, LoadProdGrows
<1>5. UNCHANGED box \/ box' = [box EXCEPT ![held[u]] = c]
  BY DEF Pull
<1> HIDE DEF c
<1> QED BY <1>4, <1>5

LEMMA IngestGrows ==
  ASSUME IInv, NEW u \in Uploads, IngestNext(u)
  PROVE  \E c : /\ Grows(box[held[u]], c, u)
                /\ box' = [box EXCEPT ![held[u]] = c]
                /\ done'[u] # done[u] => parsed[u][done[u] + 1].file \in c.files
<1> DEFINE doc == parsed[u][done[u] + 1]
           b == Filled(box[held[u]], u, req[u].mod, doc)
<1>1. IsBox(box[held[u]]) /\ req[u] \in Requests
  BY HeldBox DEF IngestNext, InFlight, GoodBox, Progress
<1>2. doc \in Documents
  <2>1. done[u] + 1 \in 1 .. Len(parsed[u])
    BY DEF IngestNext, IInv, Typed
  <2> QED BY <2>1, AllParsed DEF IngestNext
<1>3. Grows(box[held[u]], b, u)
  BY <1>1, <1>2, DocsOfRequest, FilledGrows
<1>4. Grows(box[held[u]], Ingested(b, doc), u) /\ doc.file \in Ingested(b, doc).files
  <2> HIDE DEF b, doc
  <2>1. IsBox(b)
    BY <1>3 DEF Grows
  <2>2. Grows(b, Ingested(b, doc), u) /\ doc.file \in Ingested(b, doc).files
    BY <2>1, IngestedGrows
  <2> QED BY <1>3, <2>2, GrowsOn
<1>5. CASE Fits(b, doc)
  <2>1. box' = [box EXCEPT ![held[u]] = Ingested(b, doc)]
    BY <1>5 DEF IngestNext
  <2> HIDE DEF b
  <2> QED BY <2>1, <1>4
<1>6. CASE ~Fits(b, doc)
  <2>1. box' = [box EXCEPT ![held[u]] = b] /\ done' = done
    BY <1>6 DEF IngestNext
  <2> HIDE DEF b
  <2> QED BY <2>1, <1>3
<1> QED BY <1>5, <1>6

LEMMA ResolveGrows ==
  ASSUME IInv, NEW u \in Uploads, Resolve(u)
  PROVE  \/ UNCHANGED box
         \/ \E c : Grows(box[held[u]], c, u) /\ box' = [box EXCEPT ![held[u]] = c]
<1> DEFINE found == {id \in ProdIds : id[1] \in names[u]}
           D == {id[1] : id \in found}
           b == LoadProd(box[held[u]], found, {})
<1>1. IsBox(box[held[u]])
  BY HeldBox DEF Resolve, InFlight, GoodBox
<1>2. /\ Grows(box[held[u]], b, u)
      /\ \A id \in found : b.node[id] # None /\ b.node[id].origin = "production"
  <2>1. {} \in SUBSET (found \X found) /\ found \in SUBSET ProdIds
    OBVIOUS
  <2> QED BY <1>1, <2>1, LoadProdGrows
<1>3. CASE UNCHANGED box
  BY <1>3
<1>4. ASSUME NEW to \in [D -> found], box' = [box EXCEPT ![held[u]] = Rewire(b, to)]
      PROVE  \E c : Grows(box[held[u]], c, u) /\ box' = [box EXCEPT ![held[u]] = c]
  <2>1. IsBox(b)
    BY <1>2 DEF Grows
  <2>2. to \in [D -> Ids]
    BY GraphAssumption
  <2>3. \A n \in D : b.node[to[n]] # None /\ b.node[to[n]].origin # "stub"
    <3> HIDE DEF b, found
    <3> QED BY <1>2
  <2> HIDE DEF b, found, D
  <2>4. Grows(b, Rewire(b, to), u)
    BY <2>1, <2>2, <2>3, RewireGrows
  <2>5. Grows(box[held[u]], Rewire(b, to), u)
    BY <1>2, <2>4, GrowsOn
  <2> QED BY <1>4, <2>5
<1>5. UNCHANGED box \/ \E to \in [D -> found] : box' = [box EXCEPT ![held[u]] = Rewire(b, to)]
  BY DEF Resolve
<1> HIDE DEF b, found, D
<1> QED BY <1>3, <1>4, <1>5

(***************************************************************************)
(* Preservation by the steps of an upload                                  *)
(***************************************************************************)

\* What every step of an upload leaves alone.
LEMMA WorkFrame ==
  ASSUME NEW u \in Uploads, UploadStep(u)
  PROVE  /\ pc[u] \in InFlight
         /\ UNCHANGED <<sessionVars, table, req, held, opened, born>>
<1>1. CASE ParseFile(u)
  BY <1>1 DEF ParseFile, InFlight, history
<1>2. CASE ParseDone(u)
  BY <1>2 DEF ParseDone, InFlight, history
<1>3. CASE Pull(u)
  BY <1>3 DEF Pull, InFlight, history
<1>4. CASE IngestNext(u)
  BY <1>4 DEF IngestNext, InFlight
<1>5. CASE IngestDone(u)
  BY <1>5 DEF IngestDone, InFlight, history
<1>6. CASE Resolve(u)
  BY <1>6 DEF Resolve, InFlight, history
<1> QED BY <1>1, <1>2, <1>3, <1>4, <1>5, <1>6 DEF UploadStep

LEMMA WorkTyped ==
  ASSUME IInv, NEW u \in Uploads, UploadStep(u)
  PROVE  Typed' /\ pc' = [pc EXCEPT ![u] = pc'[u]] /\ pc'[u] # "new"
<1> USE DEF Typed, Steps, InFlight
<1>1. Typed /\ Progress(u) /\ held[u] \in Uploads /\ UNCHANGED <<clears, table, req, held, born>>
  BY WorkFrame, HeldBox DEF IInv, sessionVars
<1>2. /\ req[u] \in Requests /\ Sid(u) \in Sids /\ Docs(u) \in Seq(Documents)
      /\ \A i \in 1 .. Len(Docs(u)) : Docs(u)[i] \in Documents /\ Docs(u)[i].file \in Files
  BY <1>1, DocsOfRequest DEF Progress, Sid, Docs
<1>3. NoFiles \in [Files -> Documents \cup {None}]
  BY DEF NoFiles
<1>4. ASSUME NEW a \in {"ok", "error"}, Answer(u, a)
      PROVE  tmp' \in [Sids -> [Files -> Documents \cup {None}]] /\ pc' = [pc EXCEPT ![u] = a]
  BY <1>1, <1>2, <1>3, <1>4 DEF Answer
<1>5. CASE ParseFile(u)
  <2>1. parsed[u] \in Seq(Documents \cup {None}) /\ Len(parsed[u]) + 1 \in 1 .. Len(Docs(u))
    BY <1>1, <1>2, <1>5 DEF Progress, ParseFile
  <2>2. tmp[Sid(u)][Docs(u)[Len(parsed[u]) + 1].file] \in Documents \cup {None}
    BY <1>1, <1>2, <2>1
  <2>3. parsed' \in [Uploads -> Seq(Documents \cup {None})]
    BY <1>1, <1>5, <2>1, <2>2 DEF ParseFile
  <2>4. UNCHANGED <<box, tmp, done>> /\ pc' = [pc EXCEPT ![u] = "parsed"]
    BY <1>5 DEF ParseFile
  <2> QED BY <1>1, <2>3, <2>4
<1>6. CASE ParseDone(u)
  <2>1. UNCHANGED <<box, parsed, done>>
    BY <1>6 DEF ParseDone
  <2>2. CASE Answer(u, "error")
    BY <1>1, <1>4, <2>1, <2>2
  <2>3. CASE /\ Len(parsed[u]) # Len(Docs(u))
             /\ tmp' = Written(Sid(u), Docs(u)[Len(parsed[u]) + 1])
             /\ pc' = [pc EXCEPT ![u] = "parsing"]
    <3>1. Len(parsed[u]) + 1 \in 1 .. Len(Docs(u))
      BY <1>1, <1>2, <2>3 DEF Progress
    <3> QED BY <1>1, <1>2, <2>1, <2>3, <3>1 DEF Written
  <2>4. CASE tmp' = tmp /\ (pc' = [pc EXCEPT ![u] = "pulling"] \/ pc' = [pc EXCEPT ![u] = "ingesting"])
    BY <1>1, <2>1, <2>4
  <2> QED BY <1>6, <2>2, <2>3, <2>4 DEF ParseDone
<1>7. CASE Pull(u)
  <2>1. DOMAIN box' = DOMAIN box
    BY <1>7, PullGrows
  <2> QED BY <1>1, <1>7, <2>1 DEF Pull
<1>8. CASE IngestNext(u)
  <2>1. DOMAIN box' = DOMAIN box
    BY <1>8, IngestGrows
  <2>2. /\ UNCHANGED parsed
        /\ \/ UNCHANGED <<pc, tmp>> /\ done' = [done EXCEPT ![u] = @ + 1]
           \/ Answer(u, "error") /\ UNCHANGED done
    <3> DEFINE doc == parsed[u][done[u] + 1]
               fits == Fits(Filled(box[held[u]], u, req[u].mod, doc), doc)
    <3>1. CASE fits
      BY <1>8, <3>1 DEF IngestNext
    <3>2. CASE ~fits
      BY <1>8, <3>2 DEF IngestNext
    <3> QED BY <3>1, <3>2
  <2>3. done' \in [Uploads -> Nat]
    <3>1. done \in [Uploads -> Nat]
      BY <1>1
    <3>2. CASE done' = [done EXCEPT ![u] = @ + 1]
      <4> HIDE DEF Typed
      <4> QED BY <3>1, <3>2
    <3> QED BY <2>2, <3>1, <3>2
  <2>4. pc[u] = "ingesting"
    BY <1>8 DEF IngestNext
  <2> QED BY <1>1, <1>4, <2>1, <2>2, <2>3, <2>4
<1>9. CASE IngestDone(u)
  <2>1. UNCHANGED <<box, parsed, done>>
    BY <1>9 DEF IngestDone
  <2>2. (tmp' = tmp /\ pc' = [pc EXCEPT ![u] = "resolving"]) \/ Answer(u, "ok")
    BY <1>9 DEF IngestDone
  <2> QED BY <1>1, <1>4, <2>1, <2>2
<1>10. CASE Resolve(u)
  <2>1. DOMAIN box' = DOMAIN box
    BY <1>10, ResolveGrows
  <2>2. UNCHANGED <<parsed, done>> /\ Answer(u, "ok")
    BY <1>10 DEF Resolve
  <2> QED BY <1>1, <1>4, <2>1, <2>2
<1> QED BY <1>5, <1>6, <1>7, <1>8, <1>9, <1>10 DEF UploadStep

LEMMA WorkGrows ==
  ASSUME IInv, NEW u \in Uploads, UploadStep(u)
  PROVE  \/ UNCHANGED box
         \/ \E c : Grows(box[held[u]], c, u) /\ box' = [box EXCEPT ![held[u]] = c]
<1>1. CASE ParseFile(u) \/ ParseDone(u) \/ IngestDone(u)
  BY <1>1 DEF ParseFile, ParseDone, IngestDone
<1> QED BY <1>1, PullGrows, IngestGrows, ResolveGrows DEF UploadStep

LEMMA WorkOwned ==
  ASSUME IInv, NEW u \in Uploads, UploadStep(u)
  PROVE  Owned' /\ GoodBoxes'
<1>1. UNCHANGED <<clears, table, req, held, born>>
  BY WorkFrame DEF sessionVars
<1>2. \A v \in Uploads : pc'[v] = "new" => pc[v] = "new"
  BY WorkTyped DEF IInv, Typed
<1>3. held[u] \in Uploads /\ held[u] # None /\ held[held[u]] = held[u] /\ GoodBox(held[u])
  BY WorkFrame, HeldBox
<1>4. ASSUME NEW b \in Uploads, held[b] = b
      PROVE  GoodBox(b)' /\ box'[b].active = box[b].active
  <2>1. GoodBox(b)
    BY <1>4 DEF IInv, GoodBoxes
  <2>2. CASE box'[b] = box[b]
    BY <1>1, <2>1, <2>2 DEF GoodBox
  <2>3. CASE b = held[u] /\ Grows(box[b], box'[b], u)
    <3>1. IsBox(box'[b]) /\ Connected(box'[b]) /\ box'[b].active = box[b].active
      BY <2>1, <2>3 DEF Grows, GoodBox
    <3>2. \A id \in Ids :
            box'[b].node[id] # None /\ box'[b].node[id].origin = "sandbox" =>
              held[box'[b].node[id].text] = b
      BY <2>1, <2>3 DEF Grows, GoodBox
    <3> QED BY <1>1, <3>1, <3>2 DEF GoodBox
  <2>4. box'[b] = box[b] \/ (b = held[u] /\ Grows(box[b], box'[b], u))
    BY <1>3, WorkGrows DEF IInv, Typed
  <2> QED BY <2>2, <2>3, <2>4
<1>5. \A b \in Uploads : held[b] # b => box'[b] = None
  <2>1. \A b \in Uploads : held[b] # b => box[b] = None
    BY DEF IInv, GoodBoxes
  <2>2. \A b \in Uploads : b # held[u] => box'[b] = box[b]
    BY WorkGrows DEF IInv, Typed
  <2> QED BY <1>3, <2>1, <2>2
<1>6. GoodBoxes'
  BY <1>1, <1>4, <1>5 DEF GoodBoxes
<1>7. \A s \in Sids : table[s] # None => box'[table[s]].active = box[table[s]].active
  <2>1. \A s \in Sids : table[s] # None => table[s] \in Uploads /\ held[table[s]] = table[s]
    BY DEF IInv, Owned, Typed
  <2> QED BY <1>4, <2>1
<1>8. Owned'
  BY <1>1, <1>2, <1>7 DEF IInv, Owned, Sid
<1> QED BY <1>6, <1>8

LEMMA WorkProgressing ==
  ASSUME IInv, NEW u \in Uploads, UploadStep(u)
  PROVE  Progressing'
<1>1. UNCHANGED <<req, held>> /\ pc[u] \in InFlight /\ Progress(u)
  BY WorkFrame, HeldBox
<1>2. pc' = [pc EXCEPT ![u] = pc'[u]] /\ pc'[u] # "new"
  BY WorkTyped
<1>3. parsed[u] \in Seq(Documents \cup {None}) /\ done[u] \in Nat /\ Docs(u)' = Docs(u)
      /\ Len(Docs(u)) \in Nat
  <2>1. req[u] \in Requests
    BY <1>1 DEF Progress
  <2> QED BY <1>1, <2>1, DocsOfRequest DEF IInv, Typed, Docs
<1>4. \A v \in Uploads \ {u} : parsed'[v] = parsed[v] /\ done'[v] = done[v]
  BY DEF UploadStep, ParseFile, ParseDone, Pull, IngestNext, IngestDone, Resolve, IInv, Typed
<1>5. ASSUME NEW v \in Uploads \ {u}, pc'[v] \in InFlight \cup {"ok"}
      PROVE  Progress(v)'
  <2>1. pc'[v] = pc[v]
    BY <1>2 DEF IInv, Typed
  <2>2. Progress(v)
    BY <1>5, <2>1 DEF IInv, Progressing
  <2> QED BY <1>1, <1>4, <2>1, <2>2 DEF Progress, Docs
<1>6. ASSUME pc'[u] \in InFlight \cup {"ok"}
      PROVE  Progress(u)'
  <2> USE DEF InFlight
  <2>1. CASE ParseFile(u)
    <3>1. /\ pc[u] = "parsing" /\ pc'[u] = "parsed" /\ UNCHANGED done
          /\ \E d : parsed'[u] = Append(parsed[u], d) /\ d \in Documents \cup {None}
      <4>1. pc'[u] = "parsed" /\ pc[u] = "parsing" /\ UNCHANGED done
        BY <2>1 DEF ParseFile, IInv, Typed
      <4>2. parsed'[u] = Append(parsed[u], tmp[Sid(u)][Docs(u)[Len(parsed[u]) + 1].file])
        BY <2>1 DEF ParseFile, IInv, Typed
      <4>3. tmp[Sid(u)][Docs(u)[Len(parsed[u]) + 1].file] \in Documents \cup {None}
        <5>1. Len(parsed[u]) + 1 \in 1 .. Len(Docs(u))
          BY <1>1, <1>3, <4>1 DEF Progress
        <5>2. Sid(u) \in Sids /\ Docs(u)[Len(parsed[u]) + 1].file \in Files
          BY <1>1, <5>1, DocsOfRequest DEF Progress, Sid, Docs
        <5> QED BY <5>2 DEF IInv, Typed
      <4> QED BY <4>1, <4>2, <4>3
    <3>2. PICK d \in Documents \cup {None} : parsed'[u] = Append(parsed[u], d)
      BY <3>1
    <3>3. /\ Len(parsed'[u]) = Len(parsed[u]) + 1
          /\ \A i \in 1 .. Len(parsed[u]) : parsed'[u][i] = parsed[u][i]
      BY <1>3, <3>2
    <3>4. \A i \in 1 .. Len(parsed[u]) : parsed[u][i] # None
      BY <1>1, <3>1 DEF Progress
    <3>5. parsed'[u] # <<>>
      BY <1>3, <3>3
    <3> QED BY <1>1, <1>3, <3>1, <3>3, <3>4, <3>5 DEF Progress
  <2>2. CASE ParseDone(u)
    <3>1. UNCHANGED <<parsed, done>> /\ pc[u] = "parsed"
      BY <2>2 DEF ParseDone
    <3>2. pc'[u] \in {"parsing", "pulling", "ingesting"}
          /\ parsed[u][Len(parsed[u])] # None
          /\ (pc'[u] = "parsing" <=> Len(parsed[u]) # Len(Docs(u)))
      BY <1>6, <2>2 DEF ParseDone, Answer, IInv, Typed
    <3>3. Len(parsed[u]) \in 1 .. Len(Docs(u))
      BY <1>1, <1>3, <3>1 DEF Progress
    <3>4. \A i \in 1 .. Len(parsed[u]) : parsed[u][i] # None
      BY <1>1, <3>1, <3>2 DEF Progress
    <3> QED BY <1>1, <1>3, <3>1, <3>2, <3>3, <3>4 DEF Progress
  <2>3. CASE Pull(u)
    <3>1. UNCHANGED <<parsed, done>> /\ pc[u] = "pulling" /\ pc'[u] = "ingesting"
      BY <2>3 DEF Pull, IInv, Typed
    <3> QED BY <1>1, <1>3, <3>1 DEF Progress
  <2>4. CASE IngestNext(u)
    <3> DEFINE doc == parsed[u][done[u] + 1]
               fits == Fits(Filled(box[held[u]], u, req[u].mod, doc), doc)
    <3>1. CASE fits
      <4>1. UNCHANGED <<parsed, pc>> /\ pc[u] = "ingesting" /\ done'[u] = done[u] + 1
            /\ done[u] < Len(parsed[u])
        BY <2>4, <3>1 DEF IngestNext, IInv, Typed
      <4> QED BY <1>1, <1>3, <4>1 DEF Progress
    <3>2. CASE ~fits
      <4>1. pc'[u] = "error"
        BY <2>4, <3>2 DEF IngestNext, Answer, IInv, Typed
      <4> QED BY <1>6, <4>1
    <3> QED BY <3>1, <3>2
  <2>5. CASE IngestDone(u)
    <3>1. UNCHANGED <<parsed, done>> /\ pc[u] = "ingesting" /\ pc'[u] \in {"ok", "resolving"}
          /\ done[u] = Len(parsed[u])
      BY <2>5 DEF IngestDone, Answer, IInv, Typed
    <3> QED BY <1>1, <1>3, <3>1 DEF Progress
  <2>6. CASE Resolve(u)
    <3>1. UNCHANGED <<parsed, done>> /\ pc[u] = "resolving" /\ pc'[u] = "ok"
      BY <2>6 DEF Resolve, Answer, IInv, Typed
    <3> QED BY <1>1, <1>3, <3>1 DEF Progress
  <2> QED BY <2>1, <2>2, <2>3, <2>4, <2>5, <2>6 DEF UploadStep
<1>7. \A v \in Uploads : pc'[v] = "new" => v # u /\ pc[v] = "new"
  BY <1>2 DEF IInv, Typed
<1> QED BY <1>4, <1>5, <1>6, <1>7 DEF IInv, Progressing

\* The temporary directory after a step of u: emptied, one document more, or as it was.
LEMMA WorkFiles ==
  ASSUME IInv, NEW u \in Uploads, UploadStep(u)
  PROVE  /\ Sid(u) \in Sids
         /\ \/ UNCHANGED tmp
            \/ tmp' = [tmp EXCEPT ![Sid(u)] = NoFiles] /\ pc'[u] \notin InFlight
            \/ /\ \E doc \in Documents : tmp' = Written(Sid(u), doc)
               /\ pc'[u] \in InFlight
         /\ pc'[u] \notin InFlight => tmp' = [tmp EXCEPT ![Sid(u)] = NoFiles]
<1>1. Progress(u) /\ pc \in [Uploads -> Steps]
  BY WorkFrame, HeldBox DEF IInv, Typed
<1>2. Sid(u) \in Sids
  BY <1>1, DocsOfRequest DEF Progress, Sid
<1>3. ASSUME NEW a \in {"ok", "error"}, Answer(u, a)
      PROVE  tmp' = [tmp EXCEPT ![Sid(u)] = NoFiles] /\ pc'[u] \notin InFlight
  BY <1>1, <1>3 DEF Answer, InFlight
<1>4. CASE ParseFile(u)
  BY <1>1, <1>2, <1>4 DEF ParseFile, InFlight
<1>5. CASE ParseDone(u)
  <2>1. CASE Answer(u, "error")
    BY <1>2, <1>3, <2>1
  <2>2. CASE /\ Len(parsed[u]) # Len(Docs(u))
             /\ tmp' = Written(Sid(u), Docs(u)[Len(parsed[u]) + 1])
             /\ pc' = [pc EXCEPT ![u] = "parsing"]
    <3>1. Len(parsed[u]) \in Nat /\ Len(Docs(u)) \in Nat
      BY <1>1, DocsOfRequest DEF IInv, Typed, Docs, Progress
    <3>2. Len(parsed[u]) + 1 \in 1 .. Len(Docs(u))
      BY <1>1, <2>2, <3>1 DEF Progress
    <3>3. Docs(u)[Len(parsed[u]) + 1] \in Documents
      BY <1>1, <3>2, DocsOfRequest DEF Docs, Progress
    <3> QED BY <1>1, <1>2, <2>2, <3>3 DEF InFlight
  <2>3. CASE tmp' = tmp /\ (pc' = [pc EXCEPT ![u] = "pulling"] \/ pc' = [pc EXCEPT ![u] = "ingesting"])
    BY <1>1, <1>2, <2>3 DEF InFlight
  <2> QED BY <1>5, <2>1, <2>2, <2>3 DEF ParseDone
<1>6. CASE Pull(u)
  BY <1>1, <1>2, <1>6 DEF Pull, InFlight
<1>7. CASE IngestNext(u)
  <2> DEFINE doc == parsed[u][done[u] + 1]
             fits == Fits(Filled(box[held[u]], u, req[u].mod, doc), doc)
  <2>1. CASE fits
    BY <1>2, <1>7, <2>1 DEF IngestNext, InFlight
  <2>2. CASE ~fits
    BY <1>2, <1>3, <1>7, <2>2 DEF IngestNext
  <2> QED BY <2>1, <2>2
<1>8. CASE IngestDone(u)
  <2>1. CASE tmp' = tmp /\ pc' = [pc EXCEPT ![u] = "resolving"]
    BY <1>1, <1>2, <2>1 DEF InFlight
  <2>2. CASE Answer(u, "ok")
    BY <1>2, <1>3, <2>2
  <2> QED BY <1>8, <2>1, <2>2 DEF IngestDone
<1>9. CASE Resolve(u)
  BY <1>2, <1>3, <1>9 DEF Resolve
<1> QED BY <1>4, <1>5, <1>6, <1>7, <1>8, <1>9 DEF UploadStep

LEMMA WorkLoaded ==
  ASSUME IInv, NEW u \in Uploads, UploadStep(u)
  PROVE  Loaded'
<1>1. /\ UNCHANGED <<clears, req, held, born>> /\ pc[u] \in InFlight /\ Progress(u)
      /\ held[u] \in Uploads /\ held[held[u]] = held[u]
  BY WorkFrame, HeldBox DEF sessionVars
<1>2. pc' = [pc EXCEPT ![u] = pc'[u]] /\ pc \in [Uploads -> Steps]
  BY WorkTyped DEF IInv, Typed
<1>3. \A s \in Sids, f \in Files : tmp'[s][f] # None => tmp'[s][f].file = f
  <2>1. \A s \in Sids, f \in Files : tmp[s][f] # None => tmp[s][f].file = f
    BY DEF IInv, Loaded
  <2>2. tmp \in [Sids -> [Files -> Documents \cup {None}]] /\ Sid(u) \in Sids
    BY WorkFiles DEF IInv, Typed
  <2>3. CASE tmp' = tmp
    BY <2>1, <2>3
  <2>4. CASE tmp' = [tmp EXCEPT ![Sid(u)] = NoFiles]
    BY <2>1, <2>2, <2>4 DEF NoFiles
  <2>5. CASE \E doc \in Documents : tmp' = Written(Sid(u), doc)
    BY <2>1, <2>2, <2>5 DEF Written
  <2> QED BY <2>3, <2>4, <2>5, WorkFiles
<1>4. \A b \in Uploads : held[b] = b => box[b].files \subseteq box'[b].files
  BY WorkGrows DEF Grows, IInv, Typed
<1>5. \A v \in Uploads : pc[v] \in InFlight \cup {"ok"} =>
        held[v] \in Uploads /\ held[held[v]] = held[v]
  BY NoneAssumption DEF IInv, Progressing, Progress, Owned
<1>6. \A v \in Uploads \ {u} : parsed'[v] = parsed[v] /\ done'[v] = done[v]
  BY DEF UploadStep, ParseFile, ParseDone, Pull, IngestNext, IngestDone, Resolve, IInv, Typed
<1>7. ASSUME NEW v \in Uploads \ {u}, pc'[v] \in InFlight \cup {"ok"}
      PROVE  /\ \A i \in 1 .. Len(parsed'[v]) :
                  parsed'[v][i] # None => parsed'[v][i].file = Docs(v)'[i].file
             /\ born'[v] = clears'[Sid(v)'] =>
                  \A i \in 1 .. done'[v] : parsed'[v][i].file \in box'[held'[v]].files
  <2>1. pc[v] \in InFlight \cup {"ok"} /\ Docs(v)' = Docs(v) /\ Sid(v)' = Sid(v)
    BY <1>1, <1>2, <1>7 DEF Docs, Sid
  <2>2. box[held[v]].files \subseteq box'[held[v]].files
    BY <1>4, <1>5, <2>1
  <2> QED BY <1>1, <1>6, <2>1, <2>2 DEF IInv, Loaded
<1>8. ASSUME pc'[u] \in InFlight \cup {"ok"}
      PROVE  /\ \A i \in 1 .. Len(parsed'[u]) :
                  parsed'[u][i] # None => parsed'[u][i].file = Docs(u)'[i].file
             /\ born'[u] = clears'[Sid(u)'] =>
                  \A i \in 1 .. done'[u] : parsed'[u][i].file \in box'[held'[u]].files
  <2>1. Docs(u)' = Docs(u) /\ Sid(u)' = Sid(u)
    BY <1>1 DEF Docs, Sid
  <2>2. box[held[u]].files \subseteq box'[held[u]].files
    BY <1>1, <1>4
  <2>3. /\ \A i \in 1 .. Len(parsed[u]) :
             parsed[u][i] # None => parsed[u][i].file = Docs(u)[i].file
        /\ born[u] = clears[Sid(u)] =>
             \A i \in 1 .. done[u] : parsed[u][i].file \in box[held[u]].files
    BY <1>1 DEF IInv, Loaded
  <2>4. CASE ParseFile(u)
    <3> DEFINE f == Docs(u)[Len(parsed[u]) + 1].file
    <3>1. UNCHANGED <<box, done>> /\ parsed'[u] = Append(parsed[u], tmp[Sid(u)][f])
      BY <2>4 DEF ParseFile, IInv, Typed
    <3>2. parsed[u] \in Seq(Documents \cup {None}) /\ done[u] \in Nat
      BY DEF IInv, Typed
    <3>3. Len(Docs(u)) \in Nat /\ Sid(u) \in Sids
      BY <1>1, DocsOfRequest DEF Docs, Sid, Progress
    <3>4. Len(parsed[u]) + 1 \in 1 .. Len(Docs(u))
      BY <1>1, <2>4, <3>2, <3>3 DEF ParseFile, Progress
    <3>5. f \in Files
      BY <1>1, <3>4, DocsOfRequest DEF Docs, Progress
    <3>6. tmp[Sid(u)][f] # None => tmp[Sid(u)][f].file = f
      BY <3>3, <3>5 DEF IInv, Loaded
    <3>7. tmp[Sid(u)][f] \in Documents \cup {None}
      BY <3>3, <3>5 DEF IInv, Typed
    <3>8. /\ Len(parsed'[u]) = Len(parsed[u]) + 1
          /\ \A i \in 1 .. Len(parsed[u]) : parsed'[u][i] = parsed[u][i]
          /\ parsed'[u][Len(parsed[u]) + 1] = tmp[Sid(u)][f]
      BY <3>1, <3>2, <3>7
    <3>9. done[u] <= Len(parsed[u])
      BY <1>1 DEF Progress
    <3> HIDE DEF f
    <3>10. \A i \in 1 .. Len(parsed'[u]) :
             parsed'[u][i] # None => parsed'[u][i].file = Docs(u)[i].file
      BY <2>3, <3>2, <3>6, <3>8 DEF f
    <3>11. \A i \in 1 .. done[u] : parsed'[u][i] = parsed[u][i]
      BY <3>2, <3>8, <3>9
    <3> QED BY <1>1, <2>1, <2>3, <3>1, <3>10, <3>11
  <2>5. CASE IngestNext(u)
    <3> DEFINE doc == parsed[u][done[u] + 1]
               fits == Fits(Filled(box[held[u]], u, req[u].mod, doc), doc)
    <3>1. CASE fits
      <4>1. UNCHANGED parsed /\ done'[u] = done[u] + 1 /\ done[u] \in Nat
        BY <2>5, <3>1 DEF IngestNext, IInv, Typed
      <4>2. doc.file \in box'[held[u]].files
        <5> HIDE DEF doc, fits
        <5>1. PICK c : box' = [box EXCEPT ![held[u]] = c] /\ doc.file \in c.files
          BY <2>5, <4>1, IngestGrows DEF doc
        <5> QED BY <5>1, <1>1 DEF IInv, Typed
      <4>3. ASSUME born[u] = clears[Sid(u)], NEW i \in 1 .. done'[u]
            PROVE  parsed[u][i].file \in box'[held[u]].files
        <5>1. i \in 1 .. done[u] \/ i = done[u] + 1
          BY <4>1
        <5>2. CASE i \in 1 .. done[u]
          BY <2>2, <2>3, <4>3, <5>2
        <5> QED BY <4>2, <5>1, <5>2
      <4> HIDE DEF fits, doc
      <4> QED BY <1>1, <2>1, <2>3, <4>1, <4>3
    <3>2. CASE ~fits
      <4>1. pc'[u] = "error"
        BY <2>5, <3>2, <1>2 DEF IngestNext, Answer
      <4> QED BY <1>8, <4>1 DEF InFlight
    <3> QED BY <3>1, <3>2
  <2>6. CASE ParseDone(u) \/ Pull(u) \/ IngestDone(u) \/ Resolve(u)
    <3>1. UNCHANGED <<parsed, done>>
      BY <2>6 DEF ParseDone, Pull, IngestDone, Resolve
    <3> QED BY <1>1, <2>1, <2>2, <2>3, <3>1
  <2> QED BY <2>4, <2>5, <2>6 DEF UploadStep
<1> QED BY <1>3, <1>7, <1>8 DEF Loaded

(***************************************************************************)
(* Preservation by the other handlers                                      *)
(***************************************************************************)

\* Destroying the sandbox of s cuts off every upload that holds it.
LEMMA DestroyKeeps ==
  ASSUME IInv, NEW s \in Sids, Destroy(s),
         UNCHANGED <<uploadVars, opened, born>>,
         UNCHANGED tmp \/ tmp' = [tmp EXCEPT ![s] = NoFiles]
  PROVE  IInv'
<1> DEFINE b == table[s]
<1>1. /\ clears' = [clears EXCEPT ![s] = @ + 1]
      /\ table' = [table EXCEPT ![s] = None]
      /\ UNCHANGED <<pc, req, held, parsed, done, names, born>>
  BY DEF Destroy, uploadVars
<1>2. box' = IF b = None THEN box ELSE [box EXCEPT ![b] = ClearedBox]
  BY DEF Destroy
<1>3. b # None => b \in Uploads /\ held[b] = b /\ Sid(b) = s
  BY DEF IInv, Typed, Owned
<1>4. /\ clears'[s] = clears[s] + 1 /\ clears[s] \in Nat
      /\ \A z \in Sids \ {s} : clears'[z] = clears[z] /\ table'[z] = table[z]
      /\ table'[s] = None
  BY <1>1 DEF IInv, Typed
<1>5. tmp' \in [Sids -> [Files -> Documents \cup {None}]]
  <2>1. NoFiles \in [Files -> Documents \cup {None}]
    BY DEF NoFiles
  <2> QED BY <2>1 DEF IInv, Typed
<1>6. Typed'
  <2>1. clears' \in [Sids -> Nat] /\ table' \in [Sids -> Uploads \cup {None}]
    BY <1>1 DEF IInv, Typed
  <2>2. DOMAIN box' = Uploads
    BY <1>2 DEF IInv, Typed
  <2> QED BY <1>1, <1>5, <2>1, <2>2 DEF IInv, Typed
<1>7. Progressing'
  BY <1>1 DEF IInv, Progressing, Progress, Docs
<1>8. ASSUME NEW u \in Uploads, held[u] # None
      PROVE  /\ Sid(u) \in Sids /\ Sid(u)' = Sid(u) /\ Sid(held[u])' = Sid(held[u])
             /\ born[u] \in Nat /\ born[u] <= clears[Sid(u)]
             /\ born'[u] = clears'[Sid(u)'] => Sid(u) # s
  <2>1. req[u] \in Requests /\ born[u] <= clears[Sid(u)] /\ born[u] \in Nat
    BY <1>8 DEF IInv, Owned, Typed
  <2>2. Sid(u) \in Sids
    BY <2>1, DocsOfRequest DEF Sid
  <2>3. Sid(u)' = Sid(u) /\ Sid(held[u])' = Sid(held[u])
    BY <1>1 DEF Sid
  <2> QED BY <1>1, <1>4, <2>1, <2>2, <2>3
<1>9. \A z \in Sids : table'[z] # None =>
        z # s /\ table'[z] = table[z] /\ table[z] # b /\ box'[table[z]] = box[table[z]]
  <2> SUFFICES ASSUME NEW z \in Sids, table'[z] # None
               PROVE  z # s /\ table'[z] = table[z] /\ table[z] # b
                      /\ box'[table[z]] = box[table[z]]
    OBVIOUS
  <2>1. z # s /\ table'[z] = table[z]
    BY <1>4
  <2>2. table[z] \in Uploads /\ Sid(table[z]) = z
    BY <2>1 DEF IInv, Typed, Owned
  <2>3. table[z] # b
    BY <1>3, <2>1, <2>2
  <2> QED BY <1>2, <1>3, <2>1, <2>2, <2>3 DEF IInv, Typed
<1>10. Owned'
  <2>1. \A u \in Uploads : pc'[u] = "new" => held'[u] = None
    BY <1>1 DEF IInv, Owned
  <2>2. ASSUME NEW u \in Uploads, held'[u] # None
        PROVE  /\ held'[held'[u]] = held'[u]
               /\ req'[u] \in Requests
               /\ Sid(held[u])' = Sid(u)'
               /\ born'[held'[u]] = born'[u]
               /\ born'[u] <= clears'[Sid(u)']
               /\ born'[u] = clears'[Sid(u)'] => table'[Sid(u)'] = held'[u]
    <3>1. held[u] # None
      BY <1>1, <2>2
    <3>2. /\ held[held[u]] = held[u] /\ req[u] \in Requests /\ Sid(held[u]) = Sid(u)
          /\ born[held[u]] = born[u]
          /\ born[u] = clears[Sid(u)] => table[Sid(u)] = held[u]
      BY <3>1 DEF IInv, Owned
    <3>3. born'[u] <= clears'[Sid(u)']
      BY <1>1, <1>4, <1>8, <3>1 DEF IInv, Typed
    <3> QED BY <1>1, <1>4, <1>8, <3>1, <3>2, <3>3
  <2>3. \A z \in Sids : table'[z] # None =>
          /\ held'[table'[z]] = table'[z]
          /\ req'[table'[z]].sid = z
          /\ born'[table'[z]] = clears'[z]
          /\ box'[table'[z]].active
    BY <1>1, <1>4, <1>9 DEF IInv, Owned, Sid
  <2> QED BY <2>1, <2>2, <2>3, <1>1 DEF Owned, Sid
<1>11. GoodBoxes'
  <2>1. IsBox(ClearedBox) /\ Connected(ClearedBox) /\ \A id \in Ids : ClearedBox.node[id] = None
    BY DEF IsBox, Connected, ClearedBox, EmptyBox, EmptyNodes
  <2>2. \A c \in Uploads : box'[c] = box[c] \/ (b # None /\ c = b /\ box'[c] = ClearedBox)
    BY <1>2 DEF IInv, Typed
  <2> HIDE DEF b
  <2>3. \A c \in Uploads : held[c] = c => GoodBox(c)'
    BY <1>1, <2>1, <2>2 DEF IInv, GoodBoxes, GoodBox
  <2>4. \A c \in Uploads : held[c] # c => box'[c] = None
    BY <1>3, <2>2 DEF IInv, GoodBoxes
  <2> QED BY <1>1, <2>3, <2>4 DEF GoodBoxes
<1>12. Loaded'
  <2>1. \A z \in Sids, f \in Files : tmp'[z][f] # None => tmp'[z][f].file = f
    <3>1. CASE UNCHANGED tmp
      BY <3>1 DEF IInv, Loaded
    <3>2. CASE tmp' = [tmp EXCEPT ![s] = NoFiles]
      <4>1. \A z \in Sids : tmp'[z] = IF z = s THEN NoFiles ELSE tmp[z]
        BY <3>2 DEF IInv, Typed
      <4> QED BY <4>1 DEF IInv, Loaded, NoFiles
    <3> QED BY <3>1, <3>2
  <2>2. ASSUME NEW u \in Uploads, pc'[u] \in InFlight \cup {"ok"}
        PROVE  /\ \A i \in 1 .. Len(parsed'[u]) :
                    parsed'[u][i] # None => parsed'[u][i].file = Docs(u)'[i].file
               /\ born'[u] = clears'[Sid(u)'] =>
                    \A i \in 1 .. done'[u] : parsed'[u][i].file \in box'[held'[u]].files
    <3>1. held[u] # None /\ held[u] \in Uploads
      BY <1>1, <2>2, NoneAssumption DEF IInv, Progressing, Progress
    <3>2. Sid(held[u]) = Sid(u)
      BY <3>1 DEF IInv, Owned
    <3>3. Docs(u)' = Docs(u)
      BY <1>1 DEF Docs
    <3>4. born'[u] = clears'[Sid(u)'] =>
            /\ born[u] = clears[Sid(u)]
            /\ box'[held[u]] = box[held[u]]
      BY <1>1, <1>2, <1>3, <1>4, <1>8, <3>1, <3>2 DEF IInv, Typed
    <3> QED BY <1>1, <2>2, <3>3, <3>4 DEF IInv, Loaded
  <2> QED BY <2>1, <2>2 DEF Loaded
<1> QED BY <1>6, <1>7, <1>10, <1>11, <1>12 DEF IInv

\* An accepted upload joins the sandbox in the table or opens its own; nobody
\* holds a box of its name yet.
LEMMA UploadKeeps ==
  ASSUME IInv, NEW u \in Uploads, NEW r \in Requests, Upload(u, r)
  PROVE  IInv'
<1> DEFINE s == r.sid
           b == table[s]
<1>1. /\ pc[u] = "new" /\ held[u] = None
      /\ s \in Sids /\ r.docs[1] \in Documents /\ r.docs[1].file \in Files
      /\ Len(r.docs) \in Nat \ {0}
  BY DocsOfRequest DEF Upload, IInv, Owned
<1>2. /\ req' = [req EXCEPT ![u] = r]
      /\ born' = [born EXCEPT ![u] = clears[s]]
      /\ UNCHANGED <<clears, parsed, done>>
  BY DEF Upload, sessionVars
<1>3. /\ \A v \in Uploads : held[v] # u
      /\ \A z \in Sids : table[z] # u
  <2>1. u # None
    BY NoneAssumption
  <2>2. \A v \in Uploads : held[v] # None => held[held[v]] = held[v]
    BY DEF IInv, Owned
  <2>3. \A z \in Sids : table[z] # None => held[table[z]] = table[z]
    BY DEF IInv, Owned
  <2> QED BY <1>1, <2>1, <2>2, <2>3
<1>4. \A v \in Uploads \ {u} :
        req'[v] = req[v] /\ born'[v] = born[v] /\ Docs(v)' = Docs(v)
  BY <1>2 DEF IInv, Typed, Sid, Docs
<1>5. req'[u] = r /\ born'[u] = clears[s] /\ Docs(u)' = r.docs
      /\ clears[s] \in Nat
  BY <1>1, <1>2 DEF IInv, Typed, Sid, Docs
<1>6. done[u] \in Nat /\ parsed[u] \in Seq(Documents \cup {None})
  BY DEF IInv, Typed
<1>7. CASE live[s] = 0
  <2>1. pc' = [pc EXCEPT ![u] = "error"] /\ UNCHANGED <<table, box, tmp, held>>
    BY <1>7 DEF Upload
  <2>2. Typed'
    BY <1>2, <1>5, <2>1 DEF IInv, Typed, Steps
  <2>3. \A v \in Uploads : pc'[v] \in InFlight \cup {"ok"} => v # u /\ pc'[v] = pc[v]
    BY <2>1 DEF IInv, Typed, InFlight
  <2>4. Progressing'
    BY <1>2, <1>4, <2>1, <2>3 DEF IInv, Progressing, Progress
  <2>5. \A v \in Uploads : held[v] # None => v # u /\ held[v] \in Uploads /\ held[v] # u
    BY <1>1, <1>3 DEF IInv, Typed
  <2>6. \A v \in Uploads : pc'[v] = "new" => pc[v] = "new"
    BY <2>1 DEF IInv, Typed
  <2>7. Owned'
    <3>1. \A v \in Uploads : held[v] # None =>
            /\ held[held[v]] = held[v] /\ req'[v] \in Requests
            /\ req'[held[v]].sid = req'[v].sid /\ born'[held[v]] = born'[v]
            /\ born'[v] <= clears[req'[v].sid]
            /\ born'[v] = clears[req'[v].sid] => table[req'[v].sid] = held[v]
      BY <1>4, <2>5 DEF IInv, Owned, Sid
    <3>2. \A z \in Sids : table[z] # None =>
            /\ held[table[z]] = table[z] /\ req'[table[z]].sid = z
            /\ born'[table[z]] = clears[z] /\ box[table[z]].active
      BY <1>3, <1>4 DEF IInv, Owned, Typed, Sid
    <3> QED BY <1>2, <2>1, <2>6, <3>1, <3>2 DEF IInv, Owned, Sid
  <2>8. GoodBoxes'
    BY <2>1 DEF IInv, GoodBoxes, GoodBox
  <2>9. Loaded'
    BY <1>2, <1>4, <2>1, <2>3 DEF IInv, Loaded, Sid
  <2> QED BY <2>2, <2>4, <2>7, <2>8, <2>9 DEF IInv
<1>8. CASE live[s] # 0
  <2>1. OpenBox(u, s) /\ tmp' = Written(s, r.docs[1]) /\ pc' = [pc EXCEPT ![u] = "parsing"]
    BY <1>8 DEF Upload
  <2>2. ASSUME NEW x \in Uploads,
               held' = [held EXCEPT ![u] = x], table'[s] = x,
               \A z \in Sids \ {s} : table'[z] = table[z],
               table' \in [Sids -> Uploads \cup {None}],
               \/ x = b /\ UNCHANGED box
               \/ x = u /\ b = None /\ box' = [box EXCEPT ![u] = EmptyBox]
        PROVE  Owned' /\ GoodBoxes'
    <3>1. /\ \A v \in Uploads \ {u} : held'[v] = held[v] /\ held[v] # u
          /\ held'[u] = x
      BY <1>3, <2>2 DEF IInv, Typed
    <3>2. x # None /\ held'[x] = x /\ req'[x].sid = s /\ born'[x] = clears[s] /\ box'[x].active
          /\ (x # u => x = b /\ held[x] = x)
      <4>1. CASE x = u
        <5>1. (x = u /\ b = None) \/ b = u
          BY <2>2, <4>1
        <5>2. box'[u] = EmptyBox
          BY <1>1, <1>3, <2>2, <4>1, <5>1 DEF IInv, Typed
        <5> QED BY <1>5, <3>1, <4>1, <5>2, NoneAssumption DEF EmptyBox
      <4>2. CASE x # u
        <5>1. x = b /\ b # None /\ UNCHANGED box
          BY <2>2, <4>2, NoneAssumption
        <5>2. held[b] = b /\ req[b].sid = s /\ born[b] = clears[s] /\ box[b].active
          BY <1>1, <5>1 DEF IInv, Owned, Sid
        <5> QED BY <1>4, <3>1, <4>2, <5>1, <5>2
      <4> QED BY <4>1, <4>2
    <3>3. ASSUME NEW v \in Uploads, held'[v] # None
          PROVE  /\ held'[held'[v]] = held'[v]
                 /\ req'[v] \in Requests
                 /\ req'[held'[v]].sid = req'[v].sid
                 /\ born'[held'[v]] = born'[v]
                 /\ born'[v] <= clears[req'[v].sid]
                 /\ born'[v] = clears[req'[v].sid] => table'[req'[v].sid] = held'[v]
      <4>1. CASE v = u
        <5>1. held'[v] = x /\ req'[v].sid = s /\ born'[v] = clears[s] /\ req'[v] = r
          BY <1>5, <3>1, <4>1
        <5> QED BY <1>5, <2>2, <3>2, <5>1
      <4>2. CASE v # u
        <5>1. held'[v] = held[v] /\ held[v] # u /\ held[v] \in Uploads
          BY <3>1, <3>3, <4>2 DEF IInv, Typed
        <5>2. /\ held[held[v]] = held[v] /\ req[v] \in Requests /\ Sid(held[v]) = Sid(v)
              /\ born[held[v]] = born[v] /\ born[v] <= clears[Sid(v)]
              /\ born[v] = clears[Sid(v)] => table[Sid(v)] = held[v]
          BY <3>3, <5>1 DEF IInv, Owned
        <5>3. Sid(v) \in Sids
          BY <5>2, DocsOfRequest DEF Sid
        <5>4. /\ req'[v] = req[v] /\ born'[v] = born[v] /\ born'[held[v]] = born[held[v]]
              /\ req'[held[v]].sid = req[held[v]].sid
              /\ held'[held[v]] = held[held[v]]
          BY <1>4, <3>1, <4>2, <5>1
        <5>5. born[v] = clears[Sid(v)] => table'[Sid(v)] = held[v]
          <6>1. CASE Sid(v) = s
            <7>1. born[v] = clears[s] => b = held[v] /\ b # None
              BY <3>3, <5>1, <5>2, <6>1
            <7>2. b # None => x = b
              BY <2>2
            <7> QED BY <2>2, <6>1, <7>1, <7>2
          <6>2. CASE Sid(v) # s
            BY <2>2, <5>2, <5>3, <6>2
          <6> QED BY <6>1, <6>2
        <5> QED BY <5>1, <5>2, <5>4, <5>5 DEF Sid
      <4> QED BY <4>1, <4>2
    <3>4. ASSUME NEW z \in Sids, table'[z] # None
          PROVE  /\ held'[table'[z]] = table'[z] /\ req'[table'[z]].sid = z
                 /\ born'[table'[z]] = clears[z] /\ box'[table'[z]].active
      <4>1. CASE z = s
        BY <2>2, <3>2, <4>1 DEF Sid
      <4>2. CASE z # s
        <5>1. table'[z] = table[z] /\ table[z] \in Uploads /\ table[z] # u
          BY <1>3, <2>2, <3>4, <4>2 DEF IInv, Typed
        <5>2. /\ held[table[z]] = table[z] /\ Sid(table[z]) = z
              /\ born[table[z]] = clears[z] /\ box[table[z]].active
          BY <3>4, <5>1 DEF IInv, Owned
        <5>3. box'[table[z]] = box[table[z]]
          BY <2>2, <5>1 DEF IInv, Typed
        <5> QED BY <1>4, <3>1, <5>1, <5>2, <5>3 DEF Sid
      <4> QED BY <4>1, <4>2
    <3>5. \A v \in Uploads : pc'[v] = "new" => held'[v] = None
      BY <2>1, <3>1 DEF IInv, Owned, Typed
    <3>6. Owned'
      BY <1>2, <3>3, <3>4, <3>5 DEF Owned, Sid
    <3>7. \A c \in Uploads : held'[c] = c => GoodBox(c)'
      <4> SUFFICES ASSUME NEW c \in Uploads, held'[c] = c PROVE GoodBox(c)'
        OBVIOUS
      <4>1. CASE box' = [box EXCEPT ![u] = EmptyBox] /\ c = u
        <5>1. box'[c] = EmptyBox
          BY <4>1 DEF IInv, Typed
        <5>2. IsBox(EmptyBox) /\ Connected(EmptyBox) /\ \A id \in Ids : EmptyBox.node[id] = None
          BY DEF IsBox, Connected, EmptyBox, EmptyNodes
        <5> QED BY <5>1, <5>2 DEF GoodBox
      <4>2. CASE box'[c] = box[c] /\ c # u
        <5>1. GoodBox(c)
          BY <3>1, <4>2 DEF IInv, GoodBoxes
        <5>2. \A v \in Uploads : held[v] = c => held'[v] = c
          BY <1>1, <3>1, NoneAssumption
        <5>3. \A id \in Ids :
                box[c].node[id] # None /\ box[c].node[id].origin = "sandbox" =>
                  box[c].node[id].text \in Uploads /\ held[box[c].node[id].text] = c
          BY <5>1 DEF GoodBox, IsBox, Node
        <5>4. IsBox(box[c]) /\ Connected(box[c])
          BY <5>1 DEF GoodBox
        <5> QED BY <4>2, <5>2, <5>3, <5>4 DEF GoodBox
      <4>3. \/ box' = [box EXCEPT ![u] = EmptyBox] /\ c = u
            \/ box'[c] = box[c] /\ c # u
        BY <1>1, <1>3, <2>2, <3>1 DEF IInv, Typed
      <4> QED BY <4>1, <4>2, <4>3
    <3>8. \A c \in Uploads : held'[c] # c => box'[c] = None
      BY <2>2, <3>1, <3>2, NoneAssumption, <1>1 DEF IInv, GoodBoxes, Typed
    <3> QED BY <3>6, <3>7, <3>8 DEF GoodBoxes
  <2>3. \E x \in Uploads :
          /\ held' = [held EXCEPT ![u] = x] /\ table'[s] = x
          /\ \A z \in Sids \ {s} : table'[z] = table[z]
          /\ table' \in [Sids -> Uploads \cup {None}]
          /\ \/ x = b /\ UNCHANGED box
             \/ x = u /\ b = None /\ box' = [box EXCEPT ![u] = EmptyBox]
    <3>1. b # None => b \in Uploads /\ box[b].active
      BY <1>1 DEF IInv, Typed, Owned
    <3>2. CASE b # None
      BY <1>1, <2>1, <3>1, <3>2 DEF OpenBox, IInv, Typed
    <3>3. CASE b = None
      <4>1. /\ held' = [held EXCEPT ![u] = u] /\ table' = [table EXCEPT ![s] = u]
            /\ box' = [box EXCEPT ![u] = EmptyBox]
        BY <2>1, <3>3 DEF OpenBox
      <4> QED BY <1>1, <3>3, <4>1 DEF IInv, Typed
    <3> QED BY <3>2, <3>3
  <2>4. Owned' /\ GoodBoxes'
    BY <2>2, <2>3
  <2>5. /\ held'[u] \in Uploads
        /\ \A v \in Uploads \ {u} : held'[v] = held[v] /\ pc'[v] = pc[v]
        /\ \A c \in Uploads : c # u => box'[c] = box[c]
        /\ held' \in [Uploads -> Uploads \cup {None}] /\ DOMAIN box' = Uploads
        /\ table' \in [Sids -> Uploads \cup {None}]
    BY <2>1, <2>3 DEF IInv, Typed
  <2>6. Typed'
    <3>1. tmp' \in [Sids -> [Files -> Documents \cup {None}]]
      BY <1>1, <2>1 DEF IInv, Typed, Written
    <3> QED BY <1>2, <1>5, <2>1, <2>5, <3>1 DEF IInv, Typed, Steps, InFlight
  <2>7. parsed[u] = <<>> /\ done[u] = 0
    BY <1>1 DEF IInv, Progressing
  <2>8. Progressing'
    <3>1. Progress(u)'
      BY <1>1, <1>2, <1>5, <2>1, <2>5, <2>7 DEF IInv, Typed, Progress
    <3>2. ASSUME NEW v \in Uploads \ {u}, pc'[v] \in InFlight \cup {"ok"}
          PROVE  Progress(v)'
      <4>1. Progress(v) /\ pc'[v] = pc[v] /\ held'[v] = held[v]
        BY <2>5, <3>2 DEF IInv, Progressing
      <4> QED BY <1>2, <1>4, <4>1 DEF Progress
    <3>3. \A v \in Uploads : pc'[v] = "new" => pc[v] = "new"
      BY <2>1, <2>5 DEF IInv, Typed
    <3> QED BY <1>2, <3>1, <3>2, <3>3 DEF IInv, Progressing
  <2>9. Loaded'
    <3>1. \A z \in Sids, f \in Files : tmp'[z][f] # None => tmp'[z][f].file = f
      BY <1>1, <2>1 DEF IInv, Typed, Loaded, Written
    <3>2. ASSUME NEW v \in Uploads, pc'[v] \in InFlight \cup {"ok"}
          PROVE  /\ \A i \in 1 .. Len(parsed'[v]) :
                      parsed'[v][i] # None => parsed'[v][i].file = Docs(v)'[i].file
                 /\ born'[v] = clears'[req'[v].sid] =>
                      \A i \in 1 .. done'[v] : parsed'[v][i].file \in box'[held'[v]].files
      <4>1. CASE v = u
        BY <1>2, <2>7, <4>1
      <4>2. CASE v # u
        <5>1. pc[v] \in InFlight \cup {"ok"} /\ held'[v] = held[v]
          BY <2>5, <3>2, <4>2
        <5>2. held[v] # u /\ held[v] \in Uploads
          BY <1>3, <5>1 DEF IInv, Progressing, Progress
        <5>3. box'[held[v]] = box[held[v]]
          BY <2>5, <5>2
        <5> QED BY <1>2, <1>4, <4>2, <5>1, <5>3 DEF IInv, Loaded, Sid
      <4> QED BY <4>1, <4>2
    <3> QED BY <3>1, <3>2 DEF Loaded, Sid
  <2> QED BY <2>4, <2>6, <2>8, <2>9 DEF IInv
<1> QED BY <1>7, <1>8

LEMMA StutterKeeps ==
  ASSUME IInv, UNCHANGED <<clears, table, box, tmp, uploadVars, born>>
  PROVE  IInv'
<1>1. UNCHANGED <<clears, table, box, tmp, pc, req, held, parsed, done, born>>
  BY DEF uploadVars
<1>2. Typed' /\ Owned' /\ GoodBoxes'
  BY <1>1 DEF IInv, Typed, Owned, GoodBoxes, GoodBox, Sid
<1>3. Progressing'
  BY <1>1 DEF IInv, Progressing, Progress, Docs
<1>4. Loaded'
  BY <1>1 DEF IInv, Loaded, Docs, Sid
<1> QED BY <1>2, <1>3, <1>4 DEF IInv

LEMMA NextIInv == IInv /\ [Next]_vars => IInv'
<1> SUFFICES ASSUME IInv, [Next]_vars PROVE IInv'
  OBVIOUS
<1>1. ASSUME NEW s \in Sids, SessionStart(s) PROVE IInv'
  BY <1>1, StutterKeeps DEF SessionStart, history
<1>2. ASSUME NEW s \in Sids, Expire(s) PROVE IInv'
  BY <1>2, StutterKeeps DEF Expire, history
<1>3. ASSUME NEW s \in Sids, SessionEnd(s) PROVE IInv'
  BY <1>3, DestroyKeeps DEF SessionEnd
<1>4. ASSUME NEW s \in Sids, SandboxClear(s) PROVE IInv'
  BY <1>4, DestroyKeeps DEF SandboxClear
<1>5. ASSUME NEW u \in Uploads, NEW r \in Requests, Upload(u, r) PROVE IInv'
  BY <1>5, UploadKeeps
<1>6. ASSUME NEW u \in Uploads, UploadStep(u) PROVE IInv'
  BY <1>6, WorkTyped, WorkProgressing, WorkOwned, WorkLoaded DEF IInv
<1>7. CASE UNCHANGED vars
  BY <1>7, StutterKeeps DEF vars, history, sessionVars
<1> QED BY <1>1, <1>2, <1>3, <1>4, <1>5, <1>6, <1>7 DEF Next

THEOREM Invariant == Spec => []IInv
<1>1. Init => IInv
  BY InitIInv
<1>2. IInv /\ [Next]_vars => IInv'
  BY NextIInv
<1> QED BY <1>1, <1>2, PTL DEF Spec

(***************************************************************************)
(* The theorems                                                            *)
(***************************************************************************)

\* What a destroyed sandbox held, and what uploads accepted before the destroy
\* still put into it, never shows in the sandbox its session id leads to.
THEOREM DestroyedSandboxesStayHidden == Spec => []DestroyedStaysHidden
<1>1. IInv => DestroyedStaysHidden
  <2> SUFFICES ASSUME IInv, NEW s \in Sids, NEW id \in Ids, table[s] # None,
                      box[table[s]].node[id] # None,
                      box[table[s]].node[id].origin = "sandbox"
               PROVE  LET u == box[table[s]].node[id].text
                      IN req[u].sid = s /\ born[u] = clears[s]
    BY DEF DestroyedStaysHidden
  <2> DEFINE u == box[table[s]].node[id].text
  <2>1. table[s] \in Uploads /\ held[table[s]] = table[s]
        /\ Sid(table[s]) = s /\ born[table[s]] = clears[s]
    BY DEF IInv, Typed, Owned
  <2>2. GoodBox(table[s])
    BY <2>1 DEF IInv, GoodBoxes
  <2>3. held[u] = table[s] /\ u \in Uploads
    BY <2>2 DEF GoodBox, IsBox, Node
  <2> HIDE DEF u
  <2>4. held[u] # None
    BY <2>1, <2>3, NoneAssumption
  <2>5. Sid(held[u]) = Sid(u) /\ born[held[u]] = born[u]
    BY <2>3, <2>4 DEF IInv, Owned
  <2> QED BY <2>1, <2>3, <2>5 DEF Sid, u
<1> QED BY <1>1, Invariant, PTL

\* An upload answered ok is loaded where its session looks, until a destroy.
THEOREM AnsweredUploadsAreLoaded == Spec => []AnsweredIsLoaded
<1>1. IInv => AnsweredIsLoaded
  <2> SUFFICES ASSUME IInv, NEW u \in Uploads, pc[u] = "ok", born[u] = clears[Sid(u)]
               PROVE  /\ table[Sid(u)] = held[u]
                      /\ \A i \in 1 .. Len(Docs(u)) : Docs(u)[i].file \in box[held[u]].files
    BY DEF AnsweredIsLoaded
  <2>1. Progress(u) /\ held[u] # None
    BY NoneAssumption DEF IInv, Progressing, Progress
  <2>2. table[Sid(u)] = held[u]
    BY <2>1 DEF IInv, Owned
  <2>3. done[u] = Len(Docs(u)) /\ Len(parsed[u]) = Len(Docs(u))
        /\ \A i \in 1 .. Len(parsed[u]) : parsed[u][i] # None
    BY <2>1 DEF Progress
  <2>4. \A i \in 1 .. Len(Docs(u)) :
          parsed[u][i].file = Docs(u)[i].file /\ parsed[u][i].file \in box[held[u]].files
    BY <2>3 DEF IInv, Loaded
  <2> QED BY <2>2, <2>4
<1> QED BY <1>1, Invariant, PTL

\* No order of loading, shadowing, deleting and rewiring leaves an edge in the
\* air, for every production graph and every document.
THEOREM SandboxGraphsAreConnected == Spec => []EdgesHaveNodes
<1>1. IInv => EdgesHaveNodes
  BY DEF IInv, GoodBoxes, GoodBox, Connected, EdgesHaveNodes
<1> QED BY <1>1, Invariant, PTL

\* When no upload of a session is under way, its temporary directory is gone.
THEOREM TempFilesAreRemoved == Spec => []NoTempFilesLeft
<1>1. Init => NoTempFilesLeft
  BY DEF Init, NoTempFilesLeft, NoFiles
<1>2. IInv /\ NoTempFilesLeft /\ [Next]_vars => NoTempFilesLeft'
  <2> SUFFICES ASSUME IInv, NoTempFilesLeft, [Next]_vars,
                      NEW s \in Sids,
                      \A u \in Uploads : pc'[u] \in InFlight => req'[u].sid # s
               PROVE  tmp'[s] = NoFiles
    BY DEF NoTempFilesLeft, NoFiles, Sid
  <2>1. (\A u \in Uploads : pc[u] \in InFlight => req[u].sid # s) => tmp[s] = NoFiles
    BY DEF NoTempFilesLeft, Sid
  <2>2. tmp \in [Sids -> [Files -> Documents \cup {None}]]
        /\ pc \in [Uploads -> Steps] /\ req \in [Uploads -> Requests \cup {None}]
    BY DEF IInv, Typed
  <2>3. CASE UNCHANGED <<pc, req, tmp>>
    BY <2>1, <2>3
  <2>4. ASSUME NEW z \in Sids, SessionEnd(z)
        PROVE  tmp'[s] = NoFiles
    <3>1. tmp' = [tmp EXCEPT ![z] = NoFiles] /\ UNCHANGED <<pc, req>>
      BY <2>4 DEF SessionEnd, uploadVars
    <3> QED BY <2>1, <2>2, <3>1
  <2>5. ASSUME NEW u \in Uploads, NEW r \in Requests, Upload(u, r)
        PROVE  tmp'[s] = NoFiles
    <3>1. pc[u] = "new" /\ \A v \in Uploads \ {u} : pc'[v] = pc[v] /\ req'[v] = req[v]
      BY <2>2, <2>5 DEF Upload
    <3>2. tmp[s] = NoFiles
      BY <2>1, <3>1 DEF InFlight
    <3>3. UNCHANGED tmp \/ (tmp' = Written(r.sid, r.docs[1]) /\ pc'[u] = "parsing" /\ req'[u] = r)
      BY <2>2, <2>5 DEF Upload
    <3>4. r.sid = s => UNCHANGED tmp
      BY <3>3 DEF InFlight
    <3> QED BY <2>2, <3>2, <3>3, <3>4 DEF Written
  <2>6. ASSUME NEW u \in Uploads, UploadStep(u)
        PROVE  tmp'[s] = NoFiles
    <3>1. UNCHANGED req /\ pc[u] \in InFlight /\ pc' = [pc EXCEPT ![u] = pc'[u]]
      BY <2>6, WorkFrame, WorkTyped
    <3>2. \A v \in Uploads \ {u} : pc'[v] = pc[v]
      BY <2>2, <3>1
    <3>3. CASE Sid(u) = s
      <4>1. pc'[u] \notin InFlight
        BY <3>1, <3>3 DEF Sid
      <4> QED BY <2>2, <2>6, <3>3, <4>1, WorkFiles
    <3>4. CASE Sid(u) # s
      <4>1. tmp[s] = NoFiles
        BY <2>1, <3>1, <3>2, <3>4 DEF Sid
      <4>2. tmp'[s] = tmp[s]
        BY <2>2, <2>6, <3>4, WorkFiles DEF Written
      <4> QED BY <4>1, <4>2
    <3> QED BY <3>3, <3>4
  <2>7. ASSUME NEW z \in Sids, SessionStart(z) \/ Expire(z) \/ SandboxClear(z)
        PROVE  UNCHANGED <<pc, req, tmp>>
    BY <2>7 DEF SessionStart, Expire, SandboxClear, uploadVars
  <2> QED BY <2>3, <2>4, <2>5, <2>6, <2>7 DEF Next, vars, uploadVars
<1> QED BY <1>1, <1>2, Invariant, PTL DEF Spec

(***************************************************************************)
(* A sandbox that one upload has to itself                                 *)
(***************************************************************************)

\* The documents that set said[b] go into box b.
Said ==
  /\ DOMAIN said = Uploads /\ DOMAIN names = Uploads
  /\ \A b \in Uploads : held[b] # b => said[b] = EmptyNodes

Alone(b) == held[b] = b /\ Sole(b)
\* A step that leaves upload b where it is.
SameWork(b) ==
  /\ pc'[b] = pc[b] /\ req'[b] = req[b] /\ parsed'[b] = parsed[b]
  /\ done'[b] = done[b] /\ names'[b] = names[b]
IsEmpty(b, c, sd) ==
  c.node = EmptyNodes /\ c.edges = {} /\ c.files = {} /\ sd = EmptyNodes

LEMMA EmptyBoxes ==
  /\ IsBox(EmptyBox) /\ IsBox(ClearedBox)
  /\ EmptyBox.node = EmptyNodes /\ EmptyBox.edges = {} /\ EmptyBox.files = {}
  /\ ClearedBox.node = EmptyNodes /\ ClearedBox.edges = {} /\ ClearedBox.files = {}
BY DEF EmptyBox, ClearedBox, IsBox, EmptyNodes

\* Destroying empties one box and what is said of it.
LEMMA DestroyDoes ==
  ASSUME IInv, Said, NEW s \in Sids, Destroy(s), NEW b \in Uploads
  PROVE  \/ box'[b] = box[b] /\ said'[b] = said[b]
         \/ box'[b] = ClearedBox /\ said'[b] = EmptyNodes
<1>1. CASE table[s] = None
  BY <1>1 DEF Destroy
<1>2. CASE table[s] # None
  <2>1. table[s] \in Uploads
    BY <1>2 DEF IInv, Typed
  <2>2. box' = [box EXCEPT ![table[s]] = ClearedBox] /\ said' = [said EXCEPT ![table[s]] = EmptyNodes]
    BY <1>2 DEF Destroy
  <2> QED BY <2>1, <2>2 DEF IInv, Typed, Said
<1> QED BY <1>1, <1>2

\* An upload joins a box that is there or opens its own.
LEMMA UploadDoes ==
  ASSUME IInv, NEW u \in Uploads, NEW r \in Requests, Upload(u, r)
  PROVE  /\ held[u] = None /\ parsed[u] = <<>> /\ done[u] = 0 /\ \A v \in Uploads : held[v] # u
         /\ \A v \in Uploads \ {u} : /\ pc'[v] = pc[v] /\ req'[v] = req[v] /\ held'[v] = held[v]
                                     /\ box'[v] = box[v] /\ opened'[v] = opened[v]
         /\ UNCHANGED <<parsed, done, names, said>>
         /\ \A s \in Sids \ {r.sid} : table'[s] = table[s]
         /\ \/ held'[u] # u /\ UNCHANGED <<box, table, opened>>
            \/ /\ held'[u] = u /\ box'[u] = EmptyBox /\ pc'[u] = "parsing"
               /\ live[r.sid] # 0 /\ table'[r.sid] = u
<1>1. pc[u] = "new" /\ held[u] = None /\ parsed[u] = <<>> /\ done[u] = 0 /\ r.sid \in Sids /\ u # None
  BY DocsOfRequest, NoneAssumption DEF Upload, IInv, Owned, Progressing
<1>2. /\ \A v \in Uploads : held[v] # u
      /\ \A z \in Sids : table[z] # u
  <2>1. \A v \in Uploads : held[v] # None => held[held[v]] = held[v]
    BY DEF IInv, Owned
  <2>2. \A z \in Sids : table[z] # None => held[table[z]] = table[z]
    BY DEF IInv, Owned
  <2> QED BY <1>1, <2>1, <2>2
<1>3. /\ UNCHANGED <<parsed, done, names, said>> /\ req' = [req EXCEPT ![u] = r]
      /\ \A v \in Uploads \ {u} : req'[v] = req[v]
  BY DEF Upload, IInv, Typed
<1>4. CASE live[r.sid] = 0
  <2>1. pc' = [pc EXCEPT ![u] = "error"] /\ UNCHANGED <<table, box, held, opened>>
    BY <1>4 DEF Upload
  <2> QED BY <1>1, <1>2, <1>3, <2>1 DEF IInv, Typed
<1>5. CASE live[r.sid] # 0
  <2>1. pc' = [pc EXCEPT ![u] = "parsing"] /\ OpenBox(u, r.sid)
    BY <1>5 DEF Upload
  <2>2. CASE table[r.sid] # None /\ box[table[r.sid]].active
    <3>1. held' = [held EXCEPT ![u] = table[r.sid]] /\ UNCHANGED <<table, box, opened>>
      BY <2>1, <2>2 DEF OpenBox
    <3>2. held'[u] # u
      BY <1>1, <1>2, <3>1 DEF IInv, Typed
    <3> QED BY <1>1, <1>2, <1>3, <2>1, <3>1, <3>2 DEF IInv, Typed
  <2>3. CASE ~(table[r.sid] # None /\ box[table[r.sid]].active)
    <3>1. /\ held' = [held EXCEPT ![u] = u] /\ box' = [box EXCEPT ![u] = EmptyBox]
          /\ opened' = [opened EXCEPT ![u] = live[r.sid]] /\ table' = [table EXCEPT ![r.sid] = u]
      BY <2>1, <2>3 DEF OpenBox
    <3>2. \A v \in Uploads \ {u} : /\ pc'[v] = pc[v] /\ held'[v] = held[v] /\ box'[v] = box[v]
                                   /\ opened'[v] = opened[v]
      BY <2>1, <3>1 DEF IInv, Typed
    <3>3. held'[u] = u /\ box'[u] = EmptyBox /\ pc'[u] = "parsing" /\ table'[r.sid] = u
          /\ \A s \in Sids \ {r.sid} : table'[s] = table[s]
      BY <1>1, <2>1, <3>1 DEF IInv, Typed
    <3> QED BY <1>1, <1>2, <1>3, <1>5, <3>2, <3>3
  <2> QED BY <2>2, <2>3
<1> QED BY <1>4, <1>5

\* A step of upload u leaves the boxes and the work of others alone.
LEMMA WorkElsewhere ==
  ASSUME IInv, Said, NEW u \in Uploads, UploadStep(u)
  PROVE  /\ UNCHANGED <<held, req>> /\ held[u] \in Uploads /\ held[held[u]] = held[u]
         /\ \A v \in Uploads \ {u} : SameWork(v)
         /\ \A b \in Uploads \ {held[u]} : box'[b] = box[b] /\ said'[b] = said[b]
         /\ DOMAIN said' = Uploads /\ DOMAIN names' = Uploads
<1>1. UNCHANGED <<held, req>> /\ held[u] \in Uploads /\ held[held[u]] = held[u]
  BY WorkFrame, HeldBox
<1>2. \A v \in Uploads \ {u} : pc'[v] = pc[v]
  BY WorkTyped DEF IInv, Typed
<1>3. \A v \in Uploads \ {u} : parsed'[v] = parsed[v] /\ done'[v] = done[v]
  BY DEF UploadStep, ParseFile, ParseDone, Pull, IngestNext, IngestDone, Resolve, IInv, Typed
<1>4. names' = names \/ \E x : names' = [names EXCEPT ![u] = x]
  BY DEF UploadStep, ParseFile, ParseDone, Pull, IngestNext, IngestDone, Resolve
<1>5. said' = said \/ \E x : said' = [said EXCEPT ![held[u]] = x]
  BY DEF UploadStep, ParseFile, ParseDone, Pull, IngestNext, IngestDone, Resolve, history
<1>6. \A v \in Uploads \ {u} : names'[v] = names[v]
  BY <1>4 DEF Said
<1>7. \A b \in Uploads \ {held[u]} : box'[b] = box[b]
  BY WorkGrows DEF IInv, Typed
<1>8. \A b \in Uploads \ {held[u]} : said'[b] = said[b]
  BY <1>5 DEF Said
<1>9. DOMAIN said' = Uploads /\ DOMAIN names' = Uploads
  BY <1>4, <1>5 DEF Said
<1> QED BY <1>1, <1>2, <1>3, <1>6, <1>7, <1>8, <1>9 DEF SameWork

\* What a step may do to a sandbox that its upload has to itself: nothing, empty
\* it, open it, or work for that upload.
LEMMA AloneStep ==
  ASSUME IInv, Said, [Next]_vars, NEW b \in Uploads, Alone(b)'
  PROVE  \/ Alone(b) /\ SameWork(b) /\ box'[b] = box[b] /\ said'[b] = said[b]
         \/ Alone(b) /\ SameWork(b) /\ box'[b] = ClearedBox /\ said'[b] = EmptyNodes
         \/ /\ box'[b] = EmptyBox /\ said'[b] = EmptyNodes
            /\ pc'[b] = "parsing" /\ parsed'[b] = <<>> /\ done'[b] = 0
         \/ Alone(b) /\ UploadStep(b) /\ UNCHANGED <<held, req>>
<1>1. ASSUME UNCHANGED <<pc, req, parsed, done, names, held>>
      PROVE  Alone(b) /\ SameWork(b)
  BY <1>1 DEF Alone, Sole, SameWork
<1>2. ASSUME NEW s \in Sids, SessionStart(s) \/ Expire(s)
      PROVE  Alone(b) /\ SameWork(b) /\ box'[b] = box[b] /\ said'[b] = said[b]
  BY <1>1, <1>2 DEF SessionStart, Expire, uploadVars, history
<1>3. ASSUME NEW s \in Sids, SessionEnd(s) \/ SandboxClear(s)
      PROVE  /\ Alone(b) /\ SameWork(b)
             /\ \/ box'[b] = box[b] /\ said'[b] = said[b]
                \/ box'[b] = ClearedBox /\ said'[b] = EmptyNodes
  <2>1. Destroy(s) /\ UNCHANGED <<pc, req, parsed, done, names, held>>
    BY <1>3 DEF SessionEnd, SandboxClear, uploadVars
  <2> QED BY <1>1, <2>1, DestroyDoes
<1>4. ASSUME NEW u \in Uploads, NEW r \in Requests, Upload(u, r)
      PROVE  \/ Alone(b) /\ SameWork(b) /\ box'[b] = box[b] /\ said'[b] = said[b]
             \/ /\ box'[b] = EmptyBox /\ said'[b] = EmptyNodes
                /\ pc'[b] = "parsing" /\ parsed'[b] = <<>> /\ done'[b] = 0
  <2>1. /\ held[u] = None /\ parsed[u] = <<>> /\ done[u] = 0 /\ u # None /\ b # None
        /\ \A v \in Uploads \ {u} : /\ pc'[v] = pc[v] /\ req'[v] = req[v] /\ held'[v] = held[v]
                                    /\ box'[v] = box[v]
        /\ UNCHANGED <<parsed, done, names, said>>
        /\ \/ held'[u] # u /\ UNCHANGED <<box, table, opened>>
           \/ held'[u] = u /\ box'[u] = EmptyBox /\ pc'[u] = "parsing"
    BY <1>4, UploadDoes, NoneAssumption
  <2>2. CASE u = b
    BY <2>1, <2>2 DEF Alone, Said
  <2>3. CASE u # b
    BY <2>1, <2>3 DEF Alone, Sole, SameWork
  <2> QED BY <2>2, <2>3
<1>5. ASSUME NEW u \in Uploads, UploadStep(u)
      PROVE  \/ Alone(b) /\ SameWork(b) /\ box'[b] = box[b] /\ said'[b] = said[b]
             \/ Alone(b) /\ UploadStep(b) /\ UNCHANGED <<held, req>>
  <2>1. /\ UNCHANGED <<held, req>> /\ held[u] \in Uploads
        /\ \A v \in Uploads \ {u} : SameWork(v)
        /\ \A c \in Uploads \ {held[u]} : box'[c] = box[c] /\ said'[c] = said[c]
    BY <1>5, WorkElsewhere
  <2>2. Alone(b)
    BY <2>1 DEF Alone, Sole
  <2>3. CASE u = b
    BY <1>5, <2>1, <2>2, <2>3
  <2>4. CASE u # b
    <3>1. held[u] # b
      BY <2>2, <2>4 DEF Alone, Sole
    <3> QED BY <2>1, <2>2, <2>4, <3>1
  <2> QED BY <2>3, <2>4
<1>6. CASE UNCHANGED vars
  BY <1>1, <1>6 DEF vars, uploadVars, history
<1> QED BY <1>2, <1>3, <1>4, <1>5, <1>6 DEF Next

LEMMA SaidStep ==
  ASSUME IInv, Said, [Next]_vars
  PROVE  Said'
<1>1. ASSUME UNCHANGED <<names, said, held>> PROVE Said'
  BY <1>1 DEF Said
<1>2. ASSUME NEW s \in Sids, SessionStart(s) \/ Expire(s) PROVE Said'
  BY <1>1, <1>2 DEF SessionStart, Expire, uploadVars, history
<1>3. ASSUME NEW s \in Sids, SessionEnd(s) \/ SandboxClear(s) PROVE Said'
  <2>1. Destroy(s) /\ UNCHANGED <<names, held>>
    BY <1>3 DEF SessionEnd, SandboxClear, uploadVars
  <2>2. DOMAIN said' = Uploads
    BY <2>1 DEF Destroy, Said
  <2>3. \A b \in Uploads : said'[b] \in {said[b], EmptyNodes}
    BY <2>1, DestroyDoes
  <2> QED BY <2>1, <2>2, <2>3 DEF Said
<1>4. ASSUME NEW u \in Uploads, NEW r \in Requests, Upload(u, r) PROVE Said'
  <2>1. /\ held[u] = None /\ u # None /\ UNCHANGED <<names, said>>
        /\ \A v \in Uploads \ {u} : held'[v] = held[v]
    BY <1>4, UploadDoes, NoneAssumption
  <2> QED BY <2>1 DEF Said
<1>5. ASSUME NEW u \in Uploads, UploadStep(u) PROVE Said'
  BY <1>5, WorkElsewhere DEF Said
<1>6. CASE UNCHANGED vars
  BY <1>1, <1>6 DEF vars, uploadVars, history
<1> QED BY <1>2, <1>3, <1>4, <1>5, <1>6 DEF Next

\* The operations on a sandbox, field by field.
LEMMA LoadProdDoes ==
  ASSUME NEW b, IsBox(b), NEW ids \in SUBSET ProdIds,
         NEW rels \in SUBSET (ids \X ids)
  PROVE  LET c == LoadProd(b, ids, rels)
         IN  /\ \A e : e \in c.edges <=> e \in b.edges \/ e \in rels
             /\ c.files = b.files
             /\ \A id \in ids : IsProd(c, id) /\ c.node[id].file = ProdFile[id]
             /\ \A id \in Ids \ ids : c.node[id] = b.node[id]
<1> DEFINE c == LoadProd(b, ids, rels)
<1>1. /\ c.edges = b.edges \cup rels /\ c.files = b.files
      /\ \A id \in Ids \ ids : c.node[id] = b.node[id]
  BY DEF LoadProd, IsBox
<1>2. ASSUME NEW id \in ids PROVE IsProd(c, id) /\ c.node[id].file = ProdFile[id]
  <2>1. c.node[id] = [origin |-> "production", file |-> ProdFile[id], text |-> None]
    BY GraphAssumption DEF LoadProd, IsBox
  <2>2. c.node[id] \in Node
    BY <2>1, GraphAssumption DEF Node
  <2> HIDE DEF c
  <2> QED BY <2>1, <2>2, NoneAssumption DEF IsProd
<1> HIDE DEF c
<1> QED BY <1>1, <1>2 DEF c

LEMMA FilledDoes ==
  ASSUME NEW b, IsBox(b), NEW u \in Uploads, NEW m \in Modules, NEW doc \in Documents
  PROVE  LET c == Filled(b, u, m, doc)
         IN  /\ \A e \in c.edges :
                  \/ e \in CallEdges(m, doc)
                  \/ e \in b.edges /\ ~(e[1] \in Defs(m, doc) /\ IsProd(b, e[1]))
             /\ \A e \in CallEdges(m, doc) : e \in c.edges
             /\ \A e \in b.edges : e[1] \notin Defs(m, doc) => e \in c.edges
             /\ c.files = b.files /\ Defs(m, doc) \subseteq Ids
             /\ \A id \in Defs(m, doc) :
                  c.node[id] = [origin |-> "sandbox", file |-> doc.file, text |-> u]
             /\ \A id \in Ids \ Defs(m, doc) :
                  \/ c.node[id] = b.node[id]
                  \/ /\ b.node[id] = None /\ \E e \in CallEdges(m, doc) : e[2] = id
                     /\ c.node[id] = [origin |-> "stub", file |-> None, text |-> None]
<1> DEFINE d == Define(b, u, m, doc)
<1>1. /\ DOMAIN d = DOMAIN b
      /\ d.edges = {e \in b.edges : ~(e[1] \in Defs(m, doc) /\ IsProd(b, e[1]))}
                            \cup CallEdges(m, doc)
      /\ d.files = b.files
      /\ d.node = [id \in Ids |->
                 IF id \in Defs(m, doc)
                 THEN [origin |-> "sandbox", file |-> doc.file, text |-> u]
                 ELSE IF b.node[id] = None /\ \E e \in CallEdges(m, doc) : e[2] = id
                 THEN [origin |-> "stub", file |-> None, text |-> None]
                 ELSE b.node[id]]
  BY DEF Define, IsBox
<1>2. Defs(m, doc) \subseteq Ids
  BY DEF Defs, Ids, Documents, Definitions
<1>3. LET c == Filled(b, u, m, doc)
      IN  c.edges = d.edges /\ c.files = d.files /\ c.node = d.node
  <2> HIDE DEF d
  <2> QED BY <1>1 DEF Filled, Embed, IsBox, d
<1> HIDE DEF d
<1> QED BY <1>1, <1>2, <1>3

LEMMA IngestedDoes ==
  ASSUME NEW b, IsBox(b), NEW doc
  PROVE  LET c == Ingested(b, doc)
             gone == {id \in Ids : IsProd(b, id) /\ b.node[id].file = doc.file}
         IN  /\ c.edges = {e \in b.edges : e[1] \notin gone /\ e[2] \notin gone}
             /\ c.files = b.files \cup {doc.file}
             /\ \A id \in gone : c.node[id] = None
             /\ \A id \in Ids \ gone : c.node[id] = b.node[id]
BY DEF Ingested, DropDeleted, IsBox

LEMMA RewireDoes ==
  ASSUME NEW b, IsBox(b), NEW to
  PROVE  LET c == Rewire(b, to)
             stubs == {id \in Ids : b.node[id] # None /\ b.node[id].origin = "stub"
                                      /\ id[1] \in DOMAIN to}
             moved(id) == IF id \in stubs THEN to[id[1]] ELSE id
         IN  /\ c.edges = {<<moved(e[1]), moved(e[2])>> : e \in b.edges}
             /\ c.files = b.files
             /\ \A id \in stubs : c.node[id] = None
             /\ \A id \in Ids \ stubs : c.node[id] = b.node[id]
BY DEF Rewire, IsBox

\* The document that an ingestion step is about.
LEMMA IngestDoes ==
  ASSUME IInv, Said, NEW b \in Uploads, held[b] = b, IngestNext(b)
  PROVE  \E doc \in Documents :
           /\ done[b] + 1 \in 1 .. Len(parsed[b]) /\ doc = parsed[b][done[b] + 1]
           /\ UNCHANGED parsed /\ names' = names /\ pc[b] = "ingesting"
           /\ said'[b] = Saying(said[b], b, req[b].mod, doc)
           /\ \/ /\ box'[b] = Filled(box[b], b, req[b].mod, doc)
                 /\ pc'[b] = "error" /\ done'[b] = done[b]
              \/ /\ box'[b] = Ingested(Filled(box[b], b, req[b].mod, doc), doc)
                 /\ Fits(Filled(box[b], b, req[b].mod, doc), doc)
                 /\ pc'[b] = "ingesting" /\ done'[b] = done[b] + 1
<1> DEFINE doc == parsed[b][done[b] + 1]
           c == Filled(box[b], b, req[b].mod, doc)
<1>1. done[b] + 1 \in 1 .. Len(parsed[b]) /\ pc[b] = "ingesting"
  BY DEF IngestNext, IInv, Typed
<1>2. doc \in Documents
  BY <1>1, AllParsed
<1>3. UNCHANGED parsed /\ names' = names
  BY DEF IngestNext
<1>4. said'[b] = Saying(said[b], b, req[b].mod, doc)
  BY DEF IngestNext, Said
<1>5. CASE Fits(c, doc)
  <2>1. /\ box' = [box EXCEPT ![b] = Ingested(c, doc)]
        /\ done' = [done EXCEPT ![b] = @ + 1] /\ pc' = pc
    BY <1>5 DEF IngestNext
  <2>2. box'[b] = Ingested(c, doc) /\ done'[b] = done[b] + 1 /\ pc'[b] = "ingesting"
    BY <1>1, <2>1 DEF IInv, Typed
  <2> HIDE DEF doc, c
  <2> QED BY <1>1, <1>2, <1>3, <1>4, <1>5, <2>2 DEF doc, c
<1>6. CASE ~Fits(c, doc)
  <2>1. /\ box' = [box EXCEPT ![b] = c]
        /\ done' = done /\ pc' = [pc EXCEPT ![b] = "error"]
    BY <1>6 DEF IngestNext, Answer
  <2>2. box'[b] = c /\ done'[b] = done[b] /\ pc'[b] = "error"
    BY <1>1, <2>1 DEF IInv, Typed
  <2> HIDE DEF doc, c
  <2> QED BY <1>1, <1>2, <1>3, <1>4, <2>2 DEF doc, c
<1> QED BY <1>5, <1>6

\* The pull of a sandbox's own upload adds production nodes and calls to it.
LEMMA PullDoes ==
  ASSUME IInv, NEW b \in Uploads, held[b] = b, Pull(b)
  PROVE  /\ pc[b] = "pulling" /\ pc'[b] = "ingesting"
         /\ UNCHANGED <<parsed, done, names, said>>
         /\ \/ box'[b] = box[b]
            \/ \E ids \in SUBSET ProdIds : \E rels \in SUBSET (ids \X ids) :
                 box'[b] = LoadProd(box[b], ids, rels)
<1> DEFINE ids == Pulled(req[b].mod, ParsedNames(b))
           rels == PulledCalls(req[b].mod, ParsedNames(b))
<1>1. ids \in SUBSET ProdIds
  BY DEF Pulled
<1>2. rels \in SUBSET (ids \X ids)
  BY GraphAssumption DEF PulledCalls
<1>3. box' = box \/ box' = [box EXCEPT ![b] = LoadProd(@, ids, rels)]
  BY DEF Pull
<1>4. box'[b] = box[b] \/ box'[b] = LoadProd(box[b], ids, rels)
  BY <1>3 DEF IInv, Typed
<1>5. pc[b] = "pulling" /\ pc'[b] = "ingesting" /\ UNCHANGED <<parsed, done, names, said>>
  BY DEF Pull, IInv, Typed, history
<1> HIDE DEF ids, rels
<1> QED BY <1>1, <1>2, <1>4, <1>5

\* Boundary resolution loads the production nodes of some names and renames the
\* stubs of those names.
LEMMA ResolveDoes ==
  ASSUME IInv, NEW b \in Uploads, held[b] = b, Resolve(b)
  PROVE  /\ pc[b] = "resolving" /\ pc'[b] = "ok"
         /\ UNCHANGED <<parsed, done, names, said>>
         /\ \/ box'[b] = box[b]
            \/ \E ids \in SUBSET ProdIds : \E to :
                 /\ \A id \in ids : id[1] \in names[b]
                 /\ \A n \in DOMAIN to : to[n] \in ids /\ to[n][1] = n
                 /\ box'[b] = Rewire(LoadProd(box[b], ids, {}), to)
<1> DEFINE ids == {id \in ProdIds : id[1] \in names[b]}
           D == {id[1] : id \in ids}
<1>1. pc[b] = "resolving" /\ pc'[b] = "ok" /\ UNCHANGED <<parsed, done, names, said>>
  BY DEF Resolve, Answer, IInv, Typed, history
<1>2. \/ box' = box
      \/ \E to \in [D -> ids] : /\ \A n \in DOMAIN to : to[n][1] = n
                                /\ box' = [box EXCEPT ![b] = Rewire(LoadProd(@, ids, {}), to)]
  BY DEF Resolve
<1>3. CASE box' = box
  BY <1>1, <1>3
<1>4. ASSUME NEW to \in [D -> ids], \A n \in DOMAIN to : to[n][1] = n,
             box' = [box EXCEPT ![b] = Rewire(LoadProd(@, ids, {}), to)]
      PROVE  \E i \in SUBSET ProdIds : \E t :
                 /\ \A id \in i : id[1] \in names[b]
                 /\ \A n \in DOMAIN t : t[n] \in i /\ t[n][1] = n
                 /\ box'[b] = Rewire(LoadProd(box[b], i, {}), t)
  <2>1. box'[b] = Rewire(LoadProd(box[b], ids, {}), to)
    BY <1>4 DEF IInv, Typed
  <2>2. ids \in SUBSET ProdIds /\ \A id \in ids : id[1] \in names[b]
    OBVIOUS
  <2>3. \A n \in DOMAIN to : to[n] \in ids /\ to[n][1] = n
    BY <1>4
  <2> HIDE DEF ids, D
  <2> QED BY <2>1, <2>2, <2>3
<1> HIDE DEF ids, D
<1> QED BY <1>1, <1>2, <1>3, <1>4

\* The other steps leave the box alone.
LEMMA QuietStep ==
  ASSUME IInv, NEW b \in Uploads, ParseFile(b) \/ ParseDone(b) \/ IngestDone(b)
  PROVE  /\ box' = box /\ said' = said /\ done' = done
         /\ parsed'[b] = parsed[b] \/ pc[b] = "parsing"
         /\ pc'[b] \in {"parsing", "parsed", "pulling"} => pc[b] \in {"parsing", "parsed"}
         /\ pc'[b] = "resolving" => names'[b] = StubNames(box[held[b]]) \/ b \notin DOMAIN names
         /\ pc'[b] \in InFlight => pc[b] \in InFlight
<1>1. CASE ParseFile(b)
  BY <1>1 DEF ParseFile, IInv, Typed, InFlight, history
<1>2. CASE ParseDone(b)
  BY <1>2 DEF ParseDone, Answer, IInv, Typed, InFlight, history
<1>3. CASE IngestDone(b)
  BY <1>3 DEF IngestDone, Answer, IInv, Typed, InFlight, history
<1> QED BY <1>1, <1>2, <1>3

(***************************************************************************)
(* Edits stand                                                             *)
(***************************************************************************)

Is(b, id, origin) == box[b].node[id] # None /\ box[b].node[id].origin = origin

\* Before its upload ingests, a sandbox is empty; what was said is what it has;
\* and the names that are resolved are not those of uploaded functions.
Edit(b) ==
  /\ pc[b] \in {"parsing", "parsed", "pulling"} => IsEmpty(b, box[b], said[b])
  /\ \A id \in Ids : Is(b, id, "sandbox") \/ Is(b, id, "stub") => id[2] = req[b].mod
  /\ \A id \in Ids : said[b][id] # None =>
       Is(b, id, "sandbox") /\ box[b].node[id].text = said[b][id].by
  /\ pc[b] = "resolving" => \A id \in Ids : said[b][id] # None => id[1] \notin names[b]

Edits == \A b \in Uploads : Alone(b) => Edit(b)

\* An upload with a sandbox, its module and its author records.
LEMMA AloneFacts ==
  ASSUME IInv, NEW b \in Uploads, Alone(b)
  PROVE  /\ IsBox(box[b]) /\ Connected(box[b]) /\ held[b] = b
         /\ req[b].mod \in Modules /\ req[b].docs \in Batches
<1>1. IsBox(box[b]) /\ Connected(box[b]) /\ held[b] = b
  BY DEF Alone, IInv, GoodBoxes, GoodBox
<1>2. req[b] \in Requests
  BY <1>1, NoneAssumption DEF IInv, Owned
<1> QED BY <1>1, <1>2, DocsOfRequest DEF Requests

LEMMA AuthorsAreNotNone ==
  ASSUME NEW doc \in Documents, NEW u \in Uploads, NEW id \in Ids, id[1] \in DOMAIN doc.calls
  PROVE  [by |-> u, file |-> doc.file, calls |-> doc.calls[id[1]]] \in Author
BY DEF Documents, Definitions, Author

LEMMA EmptySandbox ==
  ASSUME NEW b \in Uploads, IsEmpty(b, box[b], said[b])'
  PROVE  /\ \A id \in Ids : ~Is(b, id, "sandbox")' /\ ~Is(b, id, "stub")' /\ said'[b][id] = None
         /\ Edit(b)'
BY DEF IsEmpty, Edit, Is, EmptyNodes

LEMMA PullKeepsEdits ==
  ASSUME IInv, NEW b \in Uploads, Alone(b), Edit(b), Pull(b), UNCHANGED req
  PROVE  Edit(b)'
<1>1. IsBox(box[b]) /\ held[b] = b
  BY AloneFacts
<1>2. /\ pc[b] = "pulling" /\ pc'[b] = "ingesting" /\ UNCHANGED said
      /\ \/ box'[b] = box[b]
         \/ \E ids \in SUBSET ProdIds : \E rels \in SUBSET (ids \X ids) :
              box'[b] = LoadProd(box[b], ids, rels)
  BY <1>1, PullDoes
<1>3. box[b].node = EmptyNodes /\ said[b] = EmptyNodes
  BY <1>2 DEF Edit, IsEmpty
<1>4. CASE box'[b] = box[b]
  BY <1>2, <1>3, <1>4 DEF Edit, Is, EmptyNodes
<1>5. ASSUME NEW ids \in SUBSET ProdIds, NEW rels \in SUBSET (ids \X ids),
             box'[b] = LoadProd(box[b], ids, rels)
      PROVE  Edit(b)'
  <2>0. LET c == LoadProd(box[b], ids, rels)
        IN  /\ \A e : e \in c.edges <=> e \in box[b].edges \/ e \in rels
            /\ c.files = box[b].files
            /\ \A id \in ids : IsProd(c, id) /\ c.node[id].file = ProdFile[id]
            /\ \A id \in Ids \ ids : c.node[id] = box[b].node[id]
    BY <1>1, LoadProdDoes
  <2>1. \A id \in Ids : ~Is(b, id, "sandbox")' /\ ~Is(b, id, "stub")'
    <3> SUFFICES ASSUME NEW id \in Ids
                 PROVE  ~Is(b, id, "sandbox")' /\ ~Is(b, id, "stub")'
      OBVIOUS
    <3>1. CASE id \in ids
      <4>1. IsProd(box'[b], id)
        BY <1>5, <2>0, <3>1
      <4> QED BY <4>1 DEF Is, IsProd
    <3>2. CASE id \notin ids
      <4>1. box'[b].node[id] = box[b].node[id]
        BY <1>5, <2>0, <3>2
      <4> QED BY <1>3, <4>1 DEF Is, EmptyNodes
    <3> QED BY <3>1, <3>2
  <2> QED BY <1>2, <1>3, <2>1 DEF Edit, EmptyNodes
<1> QED BY <1>2, <1>4, <1>5

LEMMA IngestKeepsEdits ==
  ASSUME IInv, Said, NEW b \in Uploads, Alone(b), Edit(b), IngestNext(b), UNCHANGED req
  PROVE  Edit(b)'
<1> DEFINE m == req[b].mod
<1>1. IsBox(box[b]) /\ held[b] = b /\ m \in Modules
  BY AloneFacts
<1>2. PICK doc \in Documents :
        /\ pc[b] = "ingesting" /\ said'[b] = Saying(said[b], b, m, doc)
        /\ \/ box'[b] = Filled(box[b], b, m, doc) /\ pc'[b] = "error"
           \/ box'[b] = Ingested(Filled(box[b], b, m, doc), doc) /\ pc'[b] = "ingesting"
  BY <1>1, IngestDoes
<1> DEFINE c == Filled(box[b], b, m, doc)
           defs == Defs(m, doc)
<1>3. /\ defs \subseteq Ids
      /\ \A id \in defs : c.node[id] = [origin |-> "sandbox", file |-> doc.file, text |-> b]
      /\ \A id \in Ids \ defs :
           \/ c.node[id] = box[b].node[id]
           \/ /\ box[b].node[id] = None /\ \E e \in CallEdges(m, doc) : e[2] = id
              /\ c.node[id] = [origin |-> "stub", file |-> None, text |-> None]
  BY <1>1, FilledDoes
<1>4. IsBox(c)
  BY <1>1, FilledGrows DEF Grows
<1>5. \A id \in Ids : box'[b].node[id] # c.node[id] => IsProd(c, id) /\ box'[b].node[id] = None
  <2> HIDE DEF c
  <2>1. CASE box'[b] = Ingested(c, doc)
    BY <1>4, <2>1, IngestedDoes
  <2> QED BY <1>2, <2>1 DEF c
<1>6. (\A id \in defs : id[2] = m) /\ \A e \in CallEdges(m, doc) : e[2][2] = m
  BY DEF Defs, CallEdges, Callees
<1> HIDE DEF c
<1>7. \A id \in Ids : Is(b, id, "sandbox")' \/ Is(b, id, "stub")' => id[2] = m
  <2> SUFFICES ASSUME NEW id \in Ids, Is(b, id, "sandbox")' \/ Is(b, id, "stub")'
               PROVE  id[2] = m
    OBVIOUS
  <2>1. box'[b].node[id] = c.node[id]
    BY <1>5 DEF Is
  <2>2. CASE id \in defs
    BY <1>6, <2>2
  <2>3. CASE id \notin defs
    BY <1>3, <1>6, <2>1, <2>3 DEF Is, Edit
  <2> QED BY <2>2, <2>3
<1>8. \A id \in Ids : said'[b][id] # None =>
        Is(b, id, "sandbox")' /\ box'[b].node[id].text = said'[b][id].by
  <2> SUFFICES ASSUME NEW id \in Ids, said'[b][id] # None
               PROVE  Is(b, id, "sandbox")' /\ box'[b].node[id].text = said'[b][id].by
    OBVIOUS
  <2>1. CASE id \in defs
    <3>1. c.node[id] = [origin |-> "sandbox", file |-> doc.file, text |-> b] /\ c.node[id] # None
      <4>1. [origin |-> "sandbox", file |-> doc.file, text |-> b] \in Node
        BY DEF Node, Documents
      <4> QED BY <1>3, <2>1, <4>1, NoneAssumption
    <3>2. box'[b].node[id] = c.node[id]
      BY <1>5, <3>1 DEF IsProd
    <3>3. said'[b][id].by = b
      BY <1>2, <2>1 DEF Saying
    <3> QED BY <3>1, <3>2, <3>3 DEF Is
  <2>2. CASE id \notin defs
    <3>1. said'[b][id] = said[b][id]
      BY <1>2, <2>2 DEF Saying
    <3>2. Is(b, id, "sandbox") /\ box[b].node[id].text = said[b][id].by
      BY <3>1 DEF Edit
    <3>3. c.node[id] = box[b].node[id]
      BY <1>3, <2>2, <3>2 DEF Is
    <3>4. box'[b].node[id] = box[b].node[id]
      BY <1>5, <3>2, <3>3 DEF Is, IsProd
    <3> QED BY <3>1, <3>2, <3>4 DEF Is
  <2> QED BY <2>1, <2>2
<1> QED BY <1>2, <1>7, <1>8 DEF Edit

LEMMA ResolveKeepsEdits ==
  ASSUME IInv, NEW b \in Uploads, Alone(b), Edit(b), Resolve(b), UNCHANGED req
  PROVE  Edit(b)'
<1>1. IsBox(box[b]) /\ held[b] = b
  BY AloneFacts
<1>2. /\ pc[b] = "resolving" /\ pc'[b] = "ok" /\ UNCHANGED said
      /\ \/ box'[b] = box[b]
         \/ \E ids \in SUBSET ProdIds : \E to :
              /\ \A id \in ids : id[1] \in names[b]
              /\ \A n \in DOMAIN to : to[n] \in ids /\ to[n][1] = n
              /\ box'[b] = Rewire(LoadProd(box[b], ids, {}), to)
  BY <1>1, ResolveDoes
<1>3. CASE box'[b] = box[b]
  BY <1>2, <1>3 DEF Edit, Is
<1>4. ASSUME NEW ids \in SUBSET ProdIds, NEW to, \A id \in ids : id[1] \in names[b],
             box'[b] = Rewire(LoadProd(box[b], ids, {}), to)
      PROVE  Edit(b)'
  <2> DEFINE c == LoadProd(box[b], ids, {})
  <2>1. /\ \A id \in ids : IsProd(c, id) /\ c.node[id].file = ProdFile[id]
        /\ \A id \in Ids \ ids : c.node[id] = box[b].node[id]
    <3>1. {} \in SUBSET (ids \X ids)
      OBVIOUS
    <3> QED BY <1>1, <3>1, LoadProdDoes
  <2>2. IsBox(c)
    <3>1. {} \in SUBSET (ids \X ids)
      OBVIOUS
    <3>2. Grows(box[b], c, b)
      BY <1>1, <3>1, LoadProdGrows
    <3> QED BY <3>2 DEF Grows
  <2> HIDE DEF c
  <2>3. \A id \in Ids : box'[b].node[id] # c.node[id] =>
          box'[b].node[id] = None /\ c.node[id] # None /\ c.node[id].origin = "stub"
    <3>1. box'[b] = Rewire(c, to)
      BY <1>4 DEF c
    <3> QED BY <2>2, <3>1, RewireDoes
  <2>4. \A id \in Ids : Is(b, id, "sandbox")' \/ Is(b, id, "stub")' => id[2] = req[b].mod
    <3> SUFFICES ASSUME NEW id \in Ids, Is(b, id, "sandbox")' \/ Is(b, id, "stub")'
                 PROVE  id[2] = req[b].mod
      OBVIOUS
    <3>1. box'[b].node[id] = c.node[id]
      BY <2>3 DEF Is
    <3>2. c.node[id].origin \in {"sandbox", "stub"}
      BY <3>1 DEF Is
    <3>3. id \notin ids
      BY <2>1, <3>2 DEF IsProd
    <3> QED BY <2>1, <3>1, <3>3 DEF Is, Edit
  <2>5. \A id \in Ids : said'[b][id] # None =>
          Is(b, id, "sandbox")' /\ box'[b].node[id].text = said'[b][id].by
    <3> SUFFICES ASSUME NEW id \in Ids, said[b][id] # None
                 PROVE  Is(b, id, "sandbox")' /\ box'[b].node[id].text = said[b][id].by
      BY <1>2
    <3>1. Is(b, id, "sandbox") /\ box[b].node[id].text = said[b][id].by /\ id[1] \notin names[b]
      BY <1>2 DEF Edit
    <3>2. c.node[id] = box[b].node[id]
      BY <1>4, <2>1, <3>1
    <3>3. box'[b].node[id] = box[b].node[id]
      BY <2>3, <3>1, <3>2 DEF Is
    <3> QED BY <3>1, <3>3 DEF Is
  <2> QED BY <1>2, <2>4, <2>5 DEF Edit
<1> QED BY <1>2, <1>3, <1>4

LEMMA WorkKeepsEdits ==
  ASSUME IInv, Said, NEW b \in Uploads, Alone(b), Edit(b), UploadStep(b), UNCHANGED req
  PROVE  Edit(b)'
<1>1. ASSUME ParseFile(b) \/ ParseDone(b) \/ IngestDone(b)
      PROVE  Edit(b)'
  <2>1. /\ box' = box /\ said' = said
        /\ pc'[b] \in {"parsing", "parsed", "pulling"} => pc[b] \in {"parsing", "parsed"}
        /\ pc'[b] = "resolving" => names'[b] = StubNames(box[b])
    BY <1>1, AloneFacts, QuietStep DEF Said
  <2>2. ASSUME pc'[b] = "resolving", NEW id \in Ids, said[b][id] # None
        PROVE  id[1] \notin names'[b]
    <3>1. SUFFICES ASSUME id[1] \in StubNames(box[b]) PROVE FALSE
      BY <2>1, <2>2
    <3>2. PICK i \in Ids : Is(b, i, "stub") /\ i[1] = id[1]
      BY <3>1 DEF StubNames, Is
    <3>3. Is(b, id, "sandbox") /\ id[2] = req[b].mod /\ i[2] = req[b].mod
      BY <2>2, <3>2 DEF Edit
    <3>4. i = id
      BY <3>2, <3>3 DEF Ids
    <3> QED BY <3>2, <3>3, <3>4 DEF Is
  <2> QED BY <2>1, <2>2 DEF Edit, IsEmpty, Is
<1> QED BY <1>1, PullKeepsEdits, IngestKeepsEdits, ResolveKeepsEdits DEF UploadStep

LEMMA EditsStep ==
  ASSUME IInv, Said, Edits, [Next]_vars
  PROVE  Edits'
<1> SUFFICES ASSUME NEW b \in Uploads, Alone(b)' PROVE Edit(b)'
  BY DEF Edits
<1>1. CASE Alone(b) /\ SameWork(b) /\ box'[b] = box[b] /\ said'[b] = said[b]
  BY <1>1 DEF Edits, Edit, SameWork, IsEmpty, Is
<1>2. CASE box'[b] = ClearedBox /\ said'[b] = EmptyNodes
  BY <1>2, EmptyBoxes, EmptySandbox DEF IsEmpty
<1>3. CASE box'[b] = EmptyBox /\ said'[b] = EmptyNodes
  BY <1>3, EmptyBoxes, EmptySandbox DEF IsEmpty
<1>4. CASE Alone(b) /\ UploadStep(b) /\ UNCHANGED <<held, req>>
  BY <1>4, WorkKeepsEdits DEF Edits
<1> QED BY <1>1, <1>2, <1>3, <1>4, AloneStep

LEMMA InitSaid == Init => Said /\ Edits
<1>1. ASSUME Init PROVE \A b \in Uploads : ~Alone(b)
  BY <1>1, NoneAssumption DEF Init, Alone
<1> QED BY <1>1 DEF Init, Said, Edits, EmptyNodes

THEOREM EditsInvariant == Spec => [](IInv /\ Said /\ Edits)
<1>1. Init => IInv /\ Said /\ Edits
  BY InitIInv, InitSaid
<1>2. IInv /\ Said /\ Edits /\ [Next]_vars => (IInv /\ Said /\ Edits)'
  BY NextIInv, SaidStep, EditsStep
<1> QED BY <1>1, <1>2, PTL DEF Spec

\* A function stays as the upload that has the sandbox to itself last said,
\* through every pull, shadowing, deletion pass and boundary resolution.
THEOREM EditsAreKept == Spec => []EditsStand
<1>1. IInv /\ Said /\ Edits => EditsStand
  <2> SUFFICES ASSUME IInv, Said, Edits, NEW s \in Sids, NEW id \in Ids, table[s] # None,
                      Sole(table[s]), said[table[s]][id] # None
               PROVE  LET x == box[table[s]].node[id]
                      IN x # None /\ x.origin = "sandbox" /\ x.text = said[table[s]][id].by
    BY DEF EditsStand
  <2>1. table[s] \in Uploads /\ Alone(table[s])
    BY DEF IInv, Typed, Owned, Alone
  <2> QED BY <2>1 DEF Edits, Edit, Is
<1> QED BY <1>1, EditsInvariant, PTL

(***************************************************************************)
(* Calls are current                                                       *)
(***************************************************************************)

\* The documents of the clients.
Sent == UNION {{docs[i] : i \in 1 .. Len(docs)} : docs \in Batches}
\* An upload has one document per file.
DistinctFiles ==
  \A docs \in Batches : \A i, j \in 1 .. Len(docs) : docs[i].file = docs[j].file => i = j
\* A function is defined in one file, whoever uploads it.
OneHome ==
  \A d, e \in Sent : d.file # e.file => DOMAIN d.calls \cap DOMAIN e.calls = {}

\* The shared temporary directory hands out documents that clients sent.
FromClients ==
  /\ \A s \in Sids, f \in Files : tmp[s][f] # None => tmp[s][f] \in Sent
  /\ \A u \in Uploads : \A i \in 1 .. Len(parsed[u]) :
       parsed[u][i] # None => parsed[u][i] \in Sent

\* No call starts at a stub; the functions of a sandbox at work are those of the
\* documents done; and a function calls what its last document says.
Call(b) ==
  /\ \A e \in box[b].edges : ~Is(b, e[1], "stub")
  /\ pc[b] \in InFlight =>
       \A id \in Ids : Is(b, id, "sandbox") =>
         \E i \in 1 .. done[b] : id[1] \in DOMAIN parsed[b][i].calls
  /\ \A id \in Ids : said[b][id] # None =>
       \A e \in box[b].edges : e[1] = id => e[2][1] \in said[b][id].calls

Calls == \A b \in Uploads : Alone(b) => Call(b)

LEMMA SentBy ==
  ASSUME NEW r \in Requests, NEW i \in 1 .. Len(r.docs)
  PROVE  r.docs[i] \in Sent
BY DEF Sent, Requests

LEMMA ParseFileDoes ==
  ASSUME IInv, FromClients, NEW u \in Uploads, ParseFile(u)
  PROVE  /\ UNCHANGED tmp
         /\ \A i \in 1 .. Len(parsed'[u]) : parsed'[u][i] # None => parsed'[u][i] \in Sent
<1> DEFINE f == Docs(u)[Len(parsed[u]) + 1].file
           x == tmp[Sid(u)][f]
<1>1. Progress(u) /\ pc[u] = "parsing"
  BY HeldBox DEF ParseFile, InFlight
<1>2. f \in Files /\ Sid(u) \in Sids
  <2>1. Len(parsed[u]) + 1 \in 1 .. Len(Docs(u))
    BY <1>1, DocsOfRequest DEF Progress, Docs, IInv, Typed
  <2> QED BY <1>1, <2>1, DocsOfRequest DEF Progress, Docs, Sid
<1>3. x # None => x \in Sent
  BY <1>2 DEF FromClients
<1>4. parsed'[u] = Append(parsed[u], x) /\ UNCHANGED tmp
  BY DEF ParseFile, IInv, Typed
<1>5. parsed[u] \in Seq(Documents \cup {None}) /\ x \in Documents \cup {None}
  BY <1>2 DEF IInv, Typed
<1> HIDE DEF x, f
<1>6. Len(parsed'[u]) = Len(parsed[u]) + 1 /\ parsed'[u][Len(parsed[u]) + 1] = x
      /\ \A i \in 1 .. Len(parsed[u]) : parsed'[u][i] = parsed[u][i]
  BY <1>4, <1>5
<1>7. ASSUME NEW i \in 1 .. Len(parsed'[u]), parsed'[u][i] # None
      PROVE  parsed'[u][i] \in Sent
  <2>1. i \in 1 .. Len(parsed[u]) \/ i = Len(parsed[u]) + 1
    BY <1>5, <1>6
  <2> QED BY <1>3, <1>6, <1>7, <2>1 DEF FromClients
<1> QED BY <1>4, <1>7

LEMMA ClientsStep ==
  ASSUME IInv, FromClients, [Next]_vars
  PROVE  FromClients'
<1> DEFINE Kept == UNCHANGED <<tmp, parsed>>
           Wiped(s) == tmp' = [tmp EXCEPT ![s] = NoFiles] /\ UNCHANGED parsed
           Put(s, doc) == tmp' = Written(s, doc) /\ UNCHANGED parsed
<1>1. CASE Kept
  BY <1>1 DEF FromClients
<1>2. ASSUME NEW s, Wiped(s) PROVE FromClients'
  BY <1>2 DEF FromClients, NoFiles, IInv, Typed
<1>3. ASSUME NEW s \in Sids, NEW doc \in Sent, Put(s, doc) PROVE FromClients'
  <2>1. \A z \in Sids, f \in Files : tmp'[z][f] \in {tmp[z][f], doc}
    BY <1>3 DEF Written, IInv, Typed
  <2> QED BY <1>3, <2>1 DEF FromClients
<1>4. ASSUME NEW s \in Sids, SessionStart(s) \/ Expire(s) \/ SandboxClear(s)
      PROVE  Kept
  BY <1>4 DEF SessionStart, Expire, SandboxClear, uploadVars
<1>5. ASSUME NEW s \in Sids, SessionEnd(s) PROVE Wiped(s)
  BY <1>5 DEF SessionEnd, uploadVars
<1>6. ASSUME NEW u \in Uploads, NEW r \in Requests, Upload(u, r)
      PROVE  FromClients'
  <2>1. r.sid \in Sids /\ r.docs[1] \in Sent
    BY DocsOfRequest, SentBy
  <2>2. Kept \/ Put(r.sid, r.docs[1])
    BY <1>6 DEF Upload
  <2> HIDE DEF Kept, Put
  <2> QED BY <1>1, <1>3, <2>1, <2>2
<1>7. ASSUME NEW u \in Uploads, UploadStep(u)
      PROVE  FromClients'
  <2>1. CASE ParseFile(u)
    <3>1. \A v \in Uploads \ {u} : parsed'[v] = parsed[v]
      BY <2>1 DEF ParseFile, IInv, Typed
    <3> QED BY <2>1, <3>1, ParseFileDoes DEF FromClients
  <2>2. CASE ParseDone(u)
    <3>1. \/ Wiped(Sid(u)) \/ Kept
          \/ Len(parsed[u]) # Len(Docs(u)) /\ Put(Sid(u), Docs(u)[Len(parsed[u]) + 1])
      BY <2>2 DEF ParseDone, Answer
    <3>2. Progress(u)
      BY <2>2, HeldBox DEF ParseDone, InFlight
    <3>3. ASSUME Len(parsed[u]) # Len(Docs(u))
          PROVE  Sid(u) \in Sids /\ Docs(u)[Len(parsed[u]) + 1] \in Sent
      <4>1. Len(parsed[u]) + 1 \in 1 .. Len(Docs(u))
        BY <3>2, <3>3, DocsOfRequest DEF Progress, Docs, IInv, Typed
      <4> QED BY <3>2, <4>1, SentBy, DocsOfRequest DEF Progress, Docs, Sid
    <3> HIDE DEF Kept, Wiped, Put
    <3> QED BY <1>1, <1>2, <1>3, <3>1, <3>3
  <2>3. CASE Pull(u)
    BY <1>1, <2>3 DEF Pull
  <2>4. CASE IngestNext(u)
    <3>1. Wiped(Sid(u)) \/ Kept
      BY <2>4 DEF IngestNext, Answer
    <3> HIDE DEF Kept, Wiped
    <3> QED BY <1>1, <1>2, <3>1
  <2>5. CASE IngestDone(u)
    <3>1. Wiped(Sid(u)) \/ Kept
      BY <2>5 DEF IngestDone, Answer
    <3> HIDE DEF Kept, Wiped
    <3> QED BY <1>1, <1>2, <3>1
  <2>6. CASE Resolve(u)
    <3>1. Wiped(Sid(u))
      BY <2>6 DEF Resolve, Answer
    <3> HIDE DEF Wiped
    <3> QED BY <1>2, <3>1
  <2> QED BY <1>7, <2>1, <2>2, <2>3, <2>4, <2>5, <2>6 DEF UploadStep
<1>8. CASE UNCHANGED vars
  BY <1>1, <1>8 DEF vars, uploadVars
<1> HIDE DEF Kept, Wiped
<1> QED BY <1>1, <1>2, <1>4, <1>5, <1>6, <1>7, <1>8 DEF Next

\* The document at hand is of another file than those done.
LEMMA NextFileIsNew ==
  ASSUME IInv, DistinctFiles, NEW u \in Uploads, pc[u] = "ingesting",
         done[u] + 1 \in 1 .. Len(parsed[u]), NEW i \in 1 .. done[u]
  PROVE  parsed[u][i].file # parsed[u][done[u] + 1].file
<1>1. Progress(u) /\ done[u] \in Nat
  BY HeldBox DEF InFlight, IInv, Typed
<1>2. /\ Docs(u) \in Batches /\ Len(Docs(u)) \in Nat /\ Len(parsed[u]) \in Nat
      /\ Len(parsed[u]) <= Len(Docs(u))
  BY <1>1, DocsOfRequest DEF Progress, Docs, Requests, IInv, Typed
<1>3. i \in 1 .. Len(parsed[u]) /\ i \in 1 .. Len(Docs(u)) /\ done[u] + 1 \in 1 .. Len(Docs(u))
      /\ i # done[u] + 1
  BY <1>1, <1>2
<1>4. \A j \in 1 .. Len(parsed[u]) : parsed[u][j].file = Docs(u)[j].file
  BY AllParsed DEF IInv, Loaded, InFlight
<1> QED BY <1>2, <1>3, <1>4 DEF DistinctFiles

\* Ingestion of a document by the upload of box b, with the box before and after.
Takes(b, doc) ==
  LET defs == Defs(req[b].mod, doc)
      calls == CallEdges(req[b].mod, doc)
      dropped(id) == /\ pc'[b] = "ingesting" /\ id \notin defs
                     /\ IsProd(box[b], id) /\ box[b].node[id].file = doc.file
  IN /\ done[b] + 1 \in 1 .. Len(parsed[b]) /\ doc = parsed[b][done[b] + 1]
     /\ UNCHANGED parsed /\ pc[b] = "ingesting" /\ defs \subseteq Ids
     /\ said'[b] = Saying(said[b], b, req[b].mod, doc)
     /\ \/ pc'[b] = "error" /\ box'[b].files = box[b].files
        \/ /\ pc'[b] = "ingesting" /\ done'[b] = done[b] + 1
           /\ box'[b].files = box[b].files \cup {doc.file}
     /\ \A id \in defs : Is(b, id, "sandbox")'
     /\ \A id \in Ids \ defs :
          \/ box'[b].node[id] = box[b].node[id]
          \/ box[b].node[id] = None /\ Is(b, id, "stub")'
          \/ dropped(id) /\ box'[b].node[id] = None
     /\ \A e : e \in box'[b].edges =>
          \/ e \in calls
          \/ e \in box[b].edges /\ ~(e[1] \in defs /\ IsProd(box[b], e[1]))
     /\ \A e : e \in calls \/ (e \in box[b].edges /\ e[1] \notin defs) =>
          e \in box'[b].edges \/ dropped(e[1]) \/ dropped(e[2])

LEMMA IngestBox ==
  ASSUME IInv, Said, NEW b \in Uploads, Alone(b), IngestNext(b)
  PROVE  \E doc \in Documents : Takes(b, doc)
<1> DEFINE m == req[b].mod
<1>1. IsBox(box[b]) /\ Connected(box[b]) /\ held[b] = b /\ m \in Modules
  BY AloneFacts
<1>2. PICK doc \in Documents :
        /\ done[b] + 1 \in 1 .. Len(parsed[b]) /\ doc = parsed[b][done[b] + 1]
        /\ UNCHANGED parsed /\ names' = names /\ pc[b] = "ingesting"
        /\ said'[b] = Saying(said[b], b, m, doc)
        /\ \/ /\ box'[b] = Filled(box[b], b, m, doc)
              /\ pc'[b] = "error" /\ done'[b] = done[b]
           \/ /\ box'[b] = Ingested(Filled(box[b], b, m, doc), doc)
              /\ pc'[b] = "ingesting" /\ done'[b] = done[b] + 1
  BY <1>1, IngestDoes
<1> DEFINE c == Filled(box[b], b, m, doc)
           defs == Defs(m, doc)
           calls == CallEdges(m, doc)
           gone == {id \in Ids : IsProd(c, id) /\ c.node[id].file = doc.file}
           dropped(id) == /\ pc'[b] = "ingesting" /\ id \notin defs
                          /\ IsProd(box[b], id) /\ box[b].node[id].file = doc.file
<1>3. /\ \A e \in c.edges :
           e \in calls \/ (e \in box[b].edges /\ ~(e[1] \in defs /\ IsProd(box[b], e[1])))
      /\ \A e \in calls : e \in c.edges
      /\ \A e \in box[b].edges : e[1] \notin defs => e \in c.edges
      /\ c.files = box[b].files /\ defs \subseteq Ids
      /\ \A id \in defs : c.node[id] = [origin |-> "sandbox", file |-> doc.file, text |-> b]
      /\ \A id \in Ids \ defs :
           \/ c.node[id] = box[b].node[id]
           \/ /\ box[b].node[id] = None
              /\ c.node[id] = [origin |-> "stub", file |-> None, text |-> None]
  <2> HIDE DEF m
  <2>1. LET x == Filled(box[b], b, m, doc)
       IN  /\ \A e \in x.edges :
                \/ e \in CallEdges(m, doc)
                \/ e \in box[b].edges /\ ~(e[1] \in Defs(m, doc) /\ IsProd(box[b], e[1]))
           /\ \A e \in CallEdges(m, doc) : e \in x.edges
           /\ \A e \in box[b].edges : e[1] \notin Defs(m, doc) => e \in x.edges
           /\ x.files = box[b].files /\ Defs(m, doc) \subseteq Ids
           /\ \A id \in Defs(m, doc) :
                x.node[id] = [origin |-> "sandbox", file |-> doc.file, text |-> b]
           /\ \A id \in Ids \ Defs(m, doc) :
                \/ x.node[id] = box[b].node[id]
                \/ /\ box[b].node[id] = None /\ \E e \in CallEdges(m, doc) : e[2] = id
                   /\ x.node[id] = [origin |-> "stub", file |-> None, text |-> None]
    BY <1>1, FilledDoes
  <2> QED BY <2>1 DEF c, calls, defs
<1>4. IsBox(c)
  BY <1>1, FilledGrows DEF Grows
<1>5. calls \subseteq Ids \X Ids /\ box[b].edges \subseteq Ids \X Ids
  BY <1>1 DEF IsBox, CallEdges, Callees, Defs, Ids, Documents, Definitions
<1> HIDE DEF m
<1>6. /\ \A id \in defs : c.node[id] # None /\ c.node[id].origin = "sandbox"
      /\ \A id \in Ids \ defs :
           \/ c.node[id] = box[b].node[id]
           \/ box[b].node[id] = None /\ c.node[id] # None /\ c.node[id].origin = "stub"
  <2>1. /\ [origin |-> "sandbox", file |-> doc.file, text |-> b] \in Node
        /\ [origin |-> "stub", file |-> None, text |-> None] \in Node
    BY DEF Node, Documents
  <2> HIDE DEF c
  <2> QED BY <1>3, <2>1, NoneAssumption
<1>7. CASE box'[b] = c /\ pc'[b] = "error"
  <2> HIDE DEF c, defs, calls
  <2>1. /\ \A id \in defs : Is(b, id, "sandbox")'
        /\ \A id \in Ids \ defs : \/ box'[b].node[id] = box[b].node[id]
                                  \/ box[b].node[id] = None /\ Is(b, id, "stub")'
    BY <1>6, <1>7 DEF Is
  <2>2. /\ \A e : e \in box'[b].edges =>
             \/ e \in calls
             \/ e \in box[b].edges /\ ~(e[1] \in defs /\ IsProd(box[b], e[1]))
        /\ \A e : e \in calls \/ (e \in box[b].edges /\ e[1] \notin defs) => e \in box'[b].edges
        /\ box'[b].files = box[b].files
    BY <1>3, <1>7
  <2> QED BY <1>2, <1>3, <1>7, <2>1, <2>2 DEF Takes, defs, calls, m
<1>8. CASE box'[b] = Ingested(c, doc) /\ pc'[b] = "ingesting" /\ done'[b] = done[b] + 1
  <2> HIDE DEF c
  <2>1. /\ \A e : e \in box'[b].edges <=> e \in c.edges /\ e[1] \notin gone /\ e[2] \notin gone
        /\ box'[b].files = c.files \cup {doc.file}
        /\ \A id \in gone : box'[b].node[id] = None
        /\ \A id \in Ids \ gone : box'[b].node[id] = c.node[id]
    BY <1>4, <1>8, IngestedDoes
  <2>2. \A id \in Ids : id \in gone <=> dropped(id)
    <3> SUFFICES ASSUME NEW id \in Ids PROVE id \in gone <=> dropped(id)
      OBVIOUS
    <3>1. CASE id \in defs
      BY <1>6, <3>1 DEF IsProd
    <3>2. CASE id \notin defs
      BY <1>6, <1>8, <3>2 DEF IsProd
    <3> QED BY <3>1, <3>2
  <2> HIDE DEF gone, dropped, defs, calls
  <2>3. /\ \A id \in defs : Is(b, id, "sandbox")'
        /\ \A id \in Ids \ defs : \/ box'[b].node[id] = box[b].node[id]
                                  \/ box[b].node[id] = None /\ Is(b, id, "stub")'
                                  \/ dropped(id) /\ box'[b].node[id] = None
    <3>1. \A id \in defs : id \notin gone /\ id \in Ids
      BY <1>3, <2>2 DEF dropped
    <3> QED BY <1>6, <2>1, <2>2, <3>1 DEF Is
  <2>4. /\ \A e : e \in box'[b].edges =>
             \/ e \in calls
             \/ e \in box[b].edges /\ ~(e[1] \in defs /\ IsProd(box[b], e[1]))
        /\ box'[b].files = box[b].files \cup {doc.file}
    BY <1>3, <2>1
  <2>5. \A e : e \in calls \/ (e \in box[b].edges /\ e[1] \notin defs) =>
          e \in box'[b].edges \/ dropped(e[1]) \/ dropped(e[2])
    <3> SUFFICES ASSUME NEW e, e \in calls \/ (e \in box[b].edges /\ e[1] \notin defs)
                 PROVE  e \in box'[b].edges \/ dropped(e[1]) \/ dropped(e[2])
      OBVIOUS
    <3>1. e \in c.edges /\ e[1] \in Ids /\ e[2] \in Ids
      BY <1>3, <1>5
    <3> QED BY <2>1, <2>2, <3>1
  <2> QED BY <1>2, <1>3, <1>8, <2>3, <2>4, <2>5 DEF Takes, defs, calls, dropped, m
<1> HIDE DEF c
<1> QED BY <1>2, <1>7, <1>8 DEF c

LEMMA EmptyHasNoCalls ==
  ASSUME NEW b \in Uploads, IsEmpty(b, box[b], said[b])'
  PROVE  Call(b)'
BY DEF IsEmpty, Call, Is, EmptyNodes

LEMMA PullKeepsCalls ==
  ASSUME IInv, NEW b \in Uploads, Alone(b), Edit(b), Call(b), Pull(b)
  PROVE  Call(b)'
<1>1. IsBox(box[b]) /\ held[b] = b
  BY AloneFacts
<1>2. /\ pc[b] = "pulling" /\ UNCHANGED said
      /\ \/ box'[b] = box[b]
         \/ \E ids \in SUBSET ProdIds : \E rels \in SUBSET (ids \X ids) :
              box'[b] = LoadProd(box[b], ids, rels)
  BY <1>1, PullDoes
<1>3. box[b].node = EmptyNodes /\ box[b].edges = {} /\ said[b] = EmptyNodes
  BY <1>2 DEF Edit, IsEmpty
<1>4. CASE box'[b] = box[b]
  BY <1>2, <1>3, <1>4 DEF Call, Is, EmptyNodes
<1>5. ASSUME NEW ids \in SUBSET ProdIds, NEW rels \in SUBSET (ids \X ids),
             box'[b] = LoadProd(box[b], ids, rels)
      PROVE  Call(b)'
  <2>1. LET c == LoadProd(box[b], ids, rels)
        IN  /\ \A e : e \in c.edges <=> e \in box[b].edges \/ e \in rels
            /\ c.files = box[b].files
            /\ \A id \in ids : IsProd(c, id) /\ c.node[id].file = ProdFile[id]
            /\ \A id \in Ids \ ids : c.node[id] = box[b].node[id]
    BY <1>1, LoadProdDoes
  <2>2. /\ \A e \in box'[b].edges : e[1] \in ids
        /\ \A id \in ids : IsProd(box'[b], id)
        /\ \A id \in Ids \ ids : box'[b].node[id] = None
    BY <1>3, <1>5, <2>1 DEF EmptyNodes
  <2>3. \A id \in Ids : ~Is(b, id, "sandbox")'
    BY <2>2 DEF Is, IsProd
  <2>4. \A e \in box'[b].edges : ~Is(b, e[1], "stub")'
    BY <2>2 DEF Is, IsProd
  <2> QED BY <1>2, <1>3, <2>3, <2>4 DEF Call, EmptyNodes
<1> QED BY <1>2, <1>4, <1>5

\* A function that a sandbox has of a document done is not in the next one.
LEMMA NextIsElsewhere ==
  ASSUME IInv, DistinctFiles, OneHome, FromClients, NEW b \in Uploads, Call(b),
         pc[b] = "ingesting", done[b] + 1 \in 1 .. Len(parsed[b]),
         NEW id \in Ids, Is(b, id, "sandbox")
  PROVE  id[1] \notin DOMAIN parsed[b][done[b] + 1].calls
<1>1. PICK i \in 1 .. done[b] : id[1] \in DOMAIN parsed[b][i].calls
  BY DEF Call, InFlight
<1>2. parsed[b][i].file # parsed[b][done[b] + 1].file
  BY NextFileIsNew
<1>3. i \in 1 .. Len(parsed[b])
  BY DEF IInv, Typed
<1>4. parsed[b][i] \in Sent /\ parsed[b][done[b] + 1] \in Sent
  BY <1>3, AllParsed DEF FromClients
<1> QED BY <1>1, <1>2, <1>4 DEF OneHome

LEMMA IngestKeepsCalls ==
  ASSUME IInv, Said, DistinctFiles, OneHome, FromClients,
         NEW b \in Uploads, Alone(b), Edit(b), Call(b), IngestNext(b)
  PROVE  Call(b)'
<1> DEFINE m == req[b].mod
<1>1. IsBox(box[b]) /\ Connected(box[b])
  BY AloneFacts
<1>2. PICK doc \in Documents : Takes(b, doc)
  BY IngestBox
<1> DEFINE defs == Defs(m, doc)
           calls == CallEdges(m, doc)
<1>3. /\ done[b] + 1 \in 1 .. Len(parsed[b]) /\ doc = parsed[b][done[b] + 1]
      /\ UNCHANGED parsed /\ pc[b] = "ingesting" /\ defs \subseteq Ids
      /\ said'[b] = Saying(said[b], b, m, doc)
      /\ pc'[b] = "error" \/ (pc'[b] = "ingesting" /\ done'[b] = done[b] + 1)
  BY <1>2 DEF Takes
<1>4. /\ \A id \in defs : Is(b, id, "sandbox")'
      /\ \A id \in Ids \ defs :
           \/ box'[b].node[id] = box[b].node[id]
           \/ box[b].node[id] = None /\ Is(b, id, "stub")'
           \/ box'[b].node[id] = None
  BY <1>2 DEF Takes
<1>5. \A e \in box'[b].edges :
        \/ e \in calls
        \/ e \in box[b].edges /\ ~(e[1] \in defs /\ IsProd(box[b], e[1]))
  BY <1>2 DEF Takes
<1>6. /\ \A e \in calls : e[1] \in defs /\ e[2][1] \in doc.calls[e[1][1]]
      /\ \A id \in defs : id[1] \in DOMAIN doc.calls
  BY DEF CallEdges, Defs
\* The edges that are kept start at the same nodes.
<1>7. ASSUME NEW e \in box[b].edges, ~(e[1] \in defs /\ IsProd(box[b], e[1]))
      PROVE  e[1] \notin defs /\ e[1] \in Ids /\ box'[b].node[e[1]] \in {box[b].node[e[1]], None}
  <2>1. e[1] \in Ids /\ box[b].node[e[1]] # None /\ ~Is(b, e[1], "stub")
    BY <1>1 DEF IsBox, Connected, Call
  <2>2. Is(b, e[1], "sandbox") \/ IsProd(box[b], e[1])
    BY <1>1, <2>1 DEF IsBox, Is, IsProd, Node
  <2>3. e[1] \notin defs
    <3>1. CASE Is(b, e[1], "sandbox")
      BY <1>3, <1>6, <2>1, <3>1, NextIsElsewhere
    <3>2. CASE IsProd(box[b], e[1])
      BY <1>7, <3>2
    <3> QED BY <2>2, <3>1, <3>2
  <2> QED BY <1>4, <2>1, <2>3
<1> HIDE DEF defs, calls, m
<1>8. \A e \in box'[b].edges : ~Is(b, e[1], "stub")'
  <2> SUFFICES ASSUME NEW e \in box'[b].edges PROVE ~Is(b, e[1], "stub")'
    OBVIOUS
  <2>1. CASE e \in calls
    BY <1>4, <1>6, <2>1 DEF Is
  <2>2. CASE e \in box[b].edges /\ ~(e[1] \in defs /\ IsProd(box[b], e[1]))
    BY <1>7, <2>2 DEF Is, Call
  <2> QED BY <1>5, <2>1, <2>2
<1>9. ASSUME pc'[b] \in InFlight, NEW id \in Ids, Is(b, id, "sandbox")'
      PROVE  \E i \in 1 .. done'[b] : id[1] \in DOMAIN parsed'[b][i].calls
  <2>1. done'[b] = done[b] + 1 /\ done[b] \in Nat
    BY <1>3, <1>9 DEF InFlight, IInv, Typed
  <2>2. CASE id \in defs
    <3>1. id[1] \in DOMAIN parsed'[b][done[b] + 1].calls
      BY <1>3, <1>6, <2>2
    <3>2. done[b] + 1 \in 1 .. done'[b]
      BY <2>1
    <3> QED BY <3>1, <3>2
  <2>3. CASE id \notin defs
    <3>1. Is(b, id, "sandbox")
      BY <1>4, <1>9, <2>3 DEF Is
    <3>2. PICK i \in 1 .. done[b] : id[1] \in DOMAIN parsed[b][i].calls
      BY <1>3, <3>1 DEF Call, InFlight
    <3>3. i \in 1 .. done'[b]
      BY <2>1
    <3> QED BY <1>3, <3>2, <3>3
  <2> QED BY <2>2, <2>3
<1>10. ASSUME NEW id \in Ids, said'[b][id] # None, NEW e \in box'[b].edges, e[1] = id
       PROVE  e[2][1] \in said'[b][id].calls
  <2>1. CASE id \in defs
    <3>1. e \in calls
      BY <1>5, <1>7, <1>10, <2>1
    <3>2. said'[b][id].calls = doc.calls[id[1]]
      BY <1>3, <2>1 DEF Saying, defs
    <3> QED BY <1>6, <1>10, <3>1, <3>2
  <2>2. CASE id \notin defs
    <3>1. said'[b][id] = said[b][id]
      BY <1>3, <1>10, <2>2 DEF Saying, defs
    <3>2. e \in box[b].edges
      BY <1>5, <1>6, <1>10, <2>2
    <3> QED BY <1>10, <3>1, <3>2 DEF Call
  <2> QED BY <2>1, <2>2
<1> QED BY <1>8, <1>9, <1>10 DEF Call

LEMMA ResolveKeepsCalls ==
  ASSUME IInv, NEW b \in Uploads, Alone(b), Edit(b), Call(b), Resolve(b)
  PROVE  Call(b)'
<1>1. IsBox(box[b]) /\ Connected(box[b]) /\ held[b] = b
  BY AloneFacts
<1>2. /\ pc[b] = "resolving" /\ pc'[b] = "ok" /\ UNCHANGED said
      /\ \/ box'[b] = box[b]
         \/ \E ids \in SUBSET ProdIds : \E to :
              /\ \A id \in ids : id[1] \in names[b]
              /\ \A n \in DOMAIN to : to[n] \in ids /\ to[n][1] = n
              /\ box'[b] = Rewire(LoadProd(box[b], ids, {}), to)
  BY <1>1, ResolveDoes
<1>3. CASE box'[b] = box[b]
  BY <1>2, <1>3 DEF Call, Is, InFlight
<1>4. ASSUME NEW ids \in SUBSET ProdIds, NEW to,
             \A n \in DOMAIN to : to[n] \in ids /\ to[n][1] = n,
             box'[b] = Rewire(LoadProd(box[b], ids, {}), to)
      PROVE  Call(b)'
  <2> DEFINE c == LoadProd(box[b], ids, {})
             stubs == {id \in Ids : c.node[id] # None /\ c.node[id].origin = "stub"
                                      /\ id[1] \in DOMAIN to}
             moved(id) == IF id \in stubs THEN to[id[1]] ELSE id
  <2>0. {} \in SUBSET (ids \X ids)
    OBVIOUS
  <2>1. /\ \A e : e \in c.edges <=> e \in box[b].edges \/ e \in {}
        /\ c.files = box[b].files
        /\ \A id \in ids : IsProd(c, id) /\ c.node[id].file = ProdFile[id]
        /\ \A id \in Ids \ ids : c.node[id] = box[b].node[id]
    BY <1>1, <2>0, LoadProdDoes
  <2>2. IsBox(c)
    <3>1. Grows(box[b], c, b)
      BY <1>1, <2>0, LoadProdGrows
    <3> QED BY <3>1 DEF Grows
  <2> HIDE DEF c
  <2>3. /\ box'[b].edges = {<<moved(e[1]), moved(e[2])>> : e \in c.edges}
        /\ \A id \in stubs : box'[b].node[id] = None
        /\ \A id \in Ids \ stubs : box'[b].node[id] = c.node[id]
    <3>1. box'[b] = Rewire(c, to)
      BY <1>4 DEF c
    <3> QED BY <2>2, <3>1, RewireDoes
  \* An edge starts where it did and ends at a node of the same name.
  <2>4. ASSUME NEW e \in box'[b].edges
        PROVE  \E x \in box[b].edges : e[1] = x[1] /\ e[2][1] = x[2][1]
                                         /\ e[1] \in Ids \ stubs /\ ~Is(b, e[1], "stub")'
    <3>1. PICK x \in c.edges : e = <<moved(x[1]), moved(x[2])>>
      BY <2>3
    <3>2. x \in box[b].edges /\ x[1] \in Ids /\ x[2] \in Ids /\ ~Is(b, x[1], "stub")
      BY <1>1, <2>1 DEF IsBox, Call
    <3>3. ~(c.node[x[1]] # None /\ c.node[x[1]].origin = "stub")
      BY <2>1, <3>2 DEF Is, IsProd
    <3>4. moved(x[1]) = x[1] /\ x[1] \notin stubs
      BY <3>3
    <3>5. moved(x[2])[1] = x[2][1]
      BY <1>4
    <3>6. box'[b].node[x[1]] = c.node[x[1]]
      BY <2>3, <3>2, <3>4
    <3> HIDE DEF moved, stubs
    <3>7. e[1] = x[1] /\ e[2][1] = x[2][1]
      BY <3>1, <3>4, <3>5
    <3> QED BY <3>2, <3>3, <3>4, <3>6, <3>7 DEF Is
  <2>5. ASSUME NEW id \in Ids, said[b][id] # None, NEW e \in box'[b].edges, e[1] = id
        PROVE  e[2][1] \in said[b][id].calls
    BY <2>4, <2>5 DEF Call
  <2> QED BY <1>2, <2>4, <2>5 DEF Call, InFlight
<1> QED BY <1>2, <1>3, <1>4

LEMMA WorkKeepsCalls ==
  ASSUME IInv, Said, DistinctFiles, OneHome, FromClients,
         NEW b \in Uploads, Alone(b), Edit(b), Call(b), UploadStep(b)
  PROVE  Call(b)'
<1>1. ASSUME ParseFile(b) \/ ParseDone(b) \/ IngestDone(b)
      PROVE  Call(b)'
  <2>1. /\ box' = box /\ said' = said /\ done' = done
        /\ parsed'[b] = parsed[b] \/ pc[b] = "parsing"
        /\ pc'[b] \in InFlight => pc[b] \in InFlight
    BY <1>1, QuietStep
  <2>2. CASE pc[b] = "parsing"
    BY <2>1, <2>2, EmptyHasNoCalls DEF Edit, IsEmpty
  <2>3. CASE parsed'[b] = parsed[b]
    BY <2>1, <2>3 DEF Call, Is
  <2> QED BY <2>1, <2>2, <2>3
<1> QED BY <1>1, PullKeepsCalls, IngestKeepsCalls, ResolveKeepsCalls DEF UploadStep

LEMMA CallsStep ==
  ASSUME IInv, Said, DistinctFiles, OneHome, FromClients, Edits, Calls, [Next]_vars
  PROVE  Calls'
<1> SUFFICES ASSUME NEW b \in Uploads, Alone(b)' PROVE Call(b)'
  BY DEF Calls
<1>1. CASE Alone(b) /\ SameWork(b) /\ box'[b] = box[b] /\ said'[b] = said[b]
  BY <1>1 DEF Calls, Call, SameWork, Is
<1>2. CASE box'[b] = ClearedBox /\ said'[b] = EmptyNodes
  BY <1>2, EmptyBoxes, EmptyHasNoCalls DEF IsEmpty
<1>3. CASE box'[b] = EmptyBox /\ said'[b] = EmptyNodes
  BY <1>3, EmptyBoxes, EmptyHasNoCalls DEF IsEmpty
<1>4. CASE Alone(b) /\ UploadStep(b) /\ UNCHANGED <<held, req>>
  BY <1>4, WorkKeepsCalls DEF Calls, Edits
<1> QED BY <1>1, <1>2, <1>3, <1>4, AloneStep

\* Where every function is defined in one file only, whoever sends it, and an
\* upload has one document per file, no function keeps a call that its last
\* document no longer makes, whatever production had and in whatever order the
\* upload's documents come.
THEOREM CallsAreKeptCurrent == DistinctFiles /\ OneHome => (Spec => []CallsAreCurrent)
<1> SUFFICES ASSUME DistinctFiles, OneHome PROVE Spec => []CallsAreCurrent
  OBVIOUS
<1>1. Init => IInv /\ Said /\ Edits /\ FromClients /\ Calls
  <2>1. Init => FromClients
    BY DEF Init, FromClients
  <2>2. Init => Calls
    BY NoneAssumption DEF Init, Calls, Alone
  <2> QED BY <2>1, <2>2, InitIInv, InitSaid
<1>2. IInv /\ Said /\ Edits /\ FromClients /\ Calls /\ [Next]_vars =>
        (IInv /\ Said /\ Edits /\ FromClients /\ Calls)'
  BY NextIInv, SaidStep, EditsStep, ClientsStep, CallsStep
<1>3. IInv /\ Calls => CallsAreCurrent
  <2> SUFFICES ASSUME IInv, Calls, NEW s \in Sids, NEW id \in Ids, table[s] # None,
                      Sole(table[s]), said[table[s]][id] # None,
                      NEW e \in box[table[s]].edges, e[1] = id
               PROVE  e[2][1] \in said[table[s]][id].calls
    BY DEF CallsAreCurrent
  <2>1. table[s] \in Uploads /\ Alone(table[s])
    BY DEF IInv, Typed, Owned, Alone
  <2> QED BY <2>1 DEF Calls, Call
<1> QED BY <1>1, <1>2, <1>3, PTL DEF Spec

(***************************************************************************)
(* Searches                                                                *)
(***************************************************************************)

\* What a search finds in k hops, for every k up to n.
IsSearch(f, links, start, direction, n) ==
  f = [k \in 0 .. n |->
         IF k = 0 THEN {start}
         ELSE f[k - 1] \cup UNION {Linked(links, id, direction) : id \in f[k - 1]}]

LEMMA LeastElement ==
  ASSUME NEW T, T \subseteq Nat, T # {}
  PROVE  \E x \in T : \A y \in T : x <= y
<1>1. PICK x \in T : \A y \in T : ~(<<y, x>> \in OpToRel(<, Nat))
  BY NatLessThanWellFounded, WFMin
<1>2. ASSUME NEW y \in T PROVE x <= y
  <2>1. <<y, x>> \in Nat \X Nat
    BY <1>1
  <2>2. ~(y < x)
    BY <1>1, <2>1 DEF OpToRel
  <2> QED BY <2>1, <2>2
<1> QED BY <1>1, <1>2

LEMMA SearchExists ==
  ASSUME NEW links, NEW start, NEW direction, NEW n \in Nat
  PROVE  \E f : IsSearch(f, links, start, direction, n)
<1> DEFINE T == {m \in Nat : ~ \E f : IsSearch(f, links, start, direction, m)}
<1>1. SUFFICES ASSUME T # {} PROVE FALSE
  OBVIOUS
<1>2. PICK x \in T : \A y \in T : x <= y
  <2>1. T \subseteq Nat
    OBVIOUS
  <2> HIDE DEF T
  <2> QED BY <1>1, <2>1, LeastElement
<1>3. x # 0
  <2>1. IsSearch([k \in 0 .. 0 |-> {start}], links, start, direction, 0)
    BY DEF IsSearch
  <2> QED BY <2>1
<1>4. x - 1 \in Nat /\ x - 1 \notin T
  BY <1>2, <1>3
<1>5. PICK f : IsSearch(f, links, start, direction, x - 1)
  BY <1>4
<1> DEFINE More(F) == F \cup UNION {Linked(links, id, direction) : id \in F}
           g == [k \in 0 .. x |-> IF k < x THEN f[k] ELSE More(f[x - 1])]
<1>6. f = [k \in 0 .. x - 1 |-> IF k = 0 THEN {start} ELSE More(f[k - 1])]
  BY <1>5 DEF IsSearch
<1>7. g = [k \in 0 .. x |-> IF k = 0 THEN {start} ELSE More(g[k - 1])]
  <2> HIDE DEF More
  <2>1. \A k \in 0 .. x : g[k] = IF k = 0 THEN {start} ELSE More(g[k - 1])
    <3> SUFFICES ASSUME NEW k \in 0 .. x
                 PROVE  g[k] = IF k = 0 THEN {start} ELSE More(g[k - 1])
      OBVIOUS
    <3>1. x \in Nat /\ k \in Nat
      OBVIOUS
    <3>2. k # 0 => g[k - 1] = f[k - 1]
      BY <3>1
    <3>3. ASSUME k < x PROVE f[k] = IF k = 0 THEN {start} ELSE More(f[k - 1])
      <4>1. k \in 0 .. x - 1
        BY <3>1, <3>3
      <4> HIDE DEF g
      <4> QED BY <1>6, <4>1
    <3> QED BY <1>3, <3>1, <3>2, <3>3
  <2> QED BY <2>1
<1>8. IsSearch(g, links, start, direction, x)
  <2> HIDE DEF g
  <2> QED BY <1>7 DEF IsSearch
<1> QED BY <1>8

\* Within is what such a search finds in its last hop.
LEMMA WithinIs ==
  ASSUME NEW links, NEW start, NEW direction, NEW n \in Nat
  PROVE  \E f : /\ IsSearch(f, links, start, direction, n)
                /\ Within(links, start, direction, n) = f[n]
<1> DEFINE f == CHOOSE g : IsSearch(g, links, start, direction, n)
<1>1. IsSearch(f, links, start, direction, n)
  BY SearchExists
<1>2. Within(links, start, direction, n) = f[n]
  BY DEF Within, IsSearch
<1> HIDE DEF f
<1> QED BY <1>1, <1>2

\* More links lead at least as far.
LEMMA LinksLeadFurther ==
  ASSUME NEW A, NEW B, A \subseteq B, NEW start, NEW direction, NEW n \in Nat
  PROVE  Within(A, start, direction, n) \subseteq Within(B, start, direction, n)
<1>1. PICK f : IsSearch(f, A, start, direction, n) /\ Within(A, start, direction, n) = f[n]
  BY WithinIs
<1>2. PICK g : IsSearch(g, B, start, direction, n) /\ Within(B, start, direction, n) = g[n]
  BY WithinIs
<1> DEFINE T == {k \in 0 .. n : ~(f[k] \subseteq g[k])}
<1>3. SUFFICES ASSUME T # {} PROVE FALSE
  BY <1>1, <1>2
<1>4. PICK x \in T : \A y \in T : x <= y
  <2>1. T \subseteq Nat
    OBVIOUS
  <2> HIDE DEF T
  <2> QED BY <1>3, <2>1, LeastElement
<1>5. CASE x = 0
  BY <1>1, <1>2, <1>5 DEF IsSearch
<1>6. CASE x # 0
  <2>1. x - 1 \in 0 .. n /\ x - 1 \notin T /\ x \in 0 .. n
    BY <1>4, <1>6
  <2>2. f[x - 1] \subseteq g[x - 1]
    BY <2>1
  <2>3. \A id : Linked(A, id, direction) \subseteq Linked(B, id, direction)
    BY DEF Linked
  <2>4. /\ f[x] = f[x - 1] \cup UNION {Linked(A, id, direction) : id \in f[x - 1]}
        /\ g[x] = g[x - 1] \cup UNION {Linked(B, id, direction) : id \in g[x - 1]}
    BY <1>1, <1>2, <1>6, <2>1 DEF IsSearch
  <2>5. f[x] \subseteq g[x]
    <3> SUFFICES ASSUME NEW z \in f[x] PROVE z \in g[x]
      OBVIOUS
    <3>1. CASE z \in f[x - 1]
      BY <2>2, <2>4, <3>1
    <3>2. ASSUME NEW id \in f[x - 1], z \in Linked(A, id, direction)
          PROVE  z \in g[x]
      BY <2>2, <2>3, <2>4, <3>2
    <3> QED BY <2>4, <3>1, <3>2
  <2> QED BY <2>5
<1> QED BY <1>5, <1>6

(***************************************************************************)
(* Uploaded calls are found                                                *)
(***************************************************************************)

\* A call that sandbox b has, that goes out of it, or whose callee has moved.
Leads(b, id, callee) ==
  \/ <<id, callee>> \in box[b].edges
  \/ said[b][callee] = None /\ pc[b] \notin InFlight
  \/ /\ callee \in ProdIds /\ ProdFile[callee] \in box[b].files
     /\ said[b][callee] = None \/ said[b][callee].file # ProdFile[callee]

\* Production nodes are those of production; the files of a sandbox at work are
\* of the documents done; and every call of an uploaded function leads somewhere.
Lead(b) ==
  /\ \A id \in Ids : IsProd(box[b], id) =>
       id \in ProdIds /\ box[b].node[id].file = ProdFile[id]
  /\ pc[b] \in InFlight =>
       \A f \in box[b].files : \E i \in 1 .. done[b] : f = parsed[b][i].file
  /\ \A id \in Ids, n \in Names :
       said[b][id] # None /\ n \in said[b][id].calls \ {id[1]} =>
         Leads(b, id, <<n, req[b].mod>>)

LeadsAll == \A b \in Uploads : Alone(b) => Lead(b)

LEMMA EmptyLeads ==
  ASSUME NEW b \in Uploads, IsEmpty(b, box[b], said[b])'
  PROVE  Lead(b)'
<1>1. /\ \A id \in Ids : box'[b].node[id] = None /\ said'[b][id] = None
      /\ box'[b].files = {}
  BY DEF IsEmpty, EmptyNodes
<1> QED BY <1>1 DEF Lead, IsProd

LEMMA PullLeads ==
  ASSUME IInv, NEW b \in Uploads, Alone(b), Edit(b), Pull(b)
  PROVE  Lead(b)'
<1>1. IsBox(box[b]) /\ held[b] = b
  BY AloneFacts
<1>2. /\ pc[b] = "pulling" /\ UNCHANGED said
      /\ \/ box'[b] = box[b]
         \/ \E ids \in SUBSET ProdIds : \E rels \in SUBSET (ids \X ids) :
              box'[b] = LoadProd(box[b], ids, rels)
  BY <1>1, PullDoes
<1>3. box[b].node = EmptyNodes /\ box[b].files = {} /\ said[b] = EmptyNodes
  BY <1>2 DEF Edit, IsEmpty
<1>4. ASSUME NEW ids \in SUBSET ProdIds, \A id \in ids : box'[b].node[id].file = ProdFile[id],
             \A id \in Ids \ ids : box'[b].node[id] = None, box'[b].files = {}
      PROVE  Lead(b)'
  <2>1. \A id \in Ids : said'[b][id] = None
    BY <1>2, <1>3 DEF EmptyNodes
  <2> QED BY <1>4, <2>1 DEF Lead, IsProd
<1>5. CASE box'[b] = box[b]
  <2>1. \A id \in Ids \ {} : box'[b].node[id] = None
    BY <1>3, <1>5 DEF EmptyNodes
  <2> QED BY <1>3, <1>4, <1>5, <2>1
<1>6. ASSUME NEW ids \in SUBSET ProdIds, NEW rels \in SUBSET (ids \X ids),
             box'[b] = LoadProd(box[b], ids, rels)
      PROVE  Lead(b)'
  <2>1. LET c == LoadProd(box[b], ids, rels)
        IN  /\ \A e : e \in c.edges <=> e \in box[b].edges \/ e \in rels
            /\ c.files = box[b].files
            /\ \A id \in ids : IsProd(c, id) /\ c.node[id].file = ProdFile[id]
            /\ \A id \in Ids \ ids : c.node[id] = box[b].node[id]
    BY <1>1, LoadProdDoes
  <2>2. /\ \A id \in ids : box'[b].node[id].file = ProdFile[id]
        /\ \A id \in Ids \ ids : box'[b].node[id] = None
        /\ box'[b].files = {}
    BY <1>3, <1>6, <2>1 DEF EmptyNodes
  <2> QED BY <1>4, <2>2
<1> QED BY <1>2, <1>5, <1>6

LEMMA IngestLeads ==
  ASSUME IInv, Said, DistinctFiles,
         NEW b \in Uploads, Alone(b), Edit(b), Lead(b), IngestNext(b), UNCHANGED req
  PROVE  Lead(b)'
<1> DEFINE m == req[b].mod
<1>1. m \in Modules
  BY AloneFacts
<1>2. PICK doc \in Documents : Takes(b, doc)
  BY IngestBox
<1> DEFINE defs == Defs(m, doc)
           calls == CallEdges(m, doc)
           dropped(id) == /\ pc'[b] = "ingesting" /\ id \notin defs
                          /\ IsProd(box[b], id) /\ box[b].node[id].file = doc.file
<1>3. /\ done[b] + 1 \in 1 .. Len(parsed[b]) /\ doc = parsed[b][done[b] + 1]
      /\ UNCHANGED parsed /\ pc[b] = "ingesting" /\ defs \subseteq Ids
      /\ said'[b] = Saying(said[b], b, m, doc)
      /\ \/ pc'[b] = "error" /\ box'[b].files = box[b].files
         \/ /\ pc'[b] = "ingesting" /\ done'[b] = done[b] + 1
            /\ box'[b].files = box[b].files \cup {doc.file}
  BY <1>2 DEF Takes
<1>4. /\ \A id \in defs : Is(b, id, "sandbox")'
      /\ \A id \in Ids \ defs :
           \/ box'[b].node[id] = box[b].node[id]
           \/ box[b].node[id] = None /\ Is(b, id, "stub")'
           \/ box'[b].node[id] = None
  BY <1>2 DEF Takes
<1>5. \A e : e \in calls \/ (e \in box[b].edges /\ e[1] \notin defs) =>
        e \in box'[b].edges \/ dropped(e[1]) \/ dropped(e[2])
  BY <1>2 DEF Takes
<1>6. \A id \in Ids, n \in Names :
        /\ id \in defs /\ n \in doc.calls[id[1]] \ {id[1]} => <<id, <<n, m>>>> \in calls
        /\ <<n, m>> \in Ids
  <2> SUFFICES ASSUME NEW id \in Ids, NEW n \in Names
               PROVE  /\ id \in defs /\ n \in doc.calls[id[1]] \ {id[1]} =>
                           <<id, <<n, m>>>> \in calls
                      /\ <<n, m>> \in Ids
    OBVIOUS
  <2>1. <<n, m>> \in Ids
    BY <1>1 DEF Ids
  <2>2. ASSUME id \in defs, n \in doc.calls[id[1]] \ {id[1]}
        PROVE  <<id, <<n, m>>>> \in calls
    <3>1. id[1] \in DOMAIN doc.calls
      BY <2>2 DEF Defs
    <3>2. <<n, m>> \in Callees(m, doc)
      BY <2>2, <3>1 DEF Callees
    <3> QED BY <2>2, <3>2 DEF CallEdges
  <2> QED BY <2>1, <2>2
<1>7. \A id \in Ids :
        /\ id \in defs => said'[b][id].calls = doc.calls[id[1]] /\ said'[b][id].file = doc.file
        /\ id \notin defs => \/ said'[b][id] = None
                             \/ said'[b][id] = said[b][id] /\ said[b][id].file # doc.file
  BY <1>3 DEF Saying
<1> HIDE DEF defs, calls, m
<1>8. ASSUME NEW id \in Ids, IsProd(box'[b], id)
      PROVE  id \in ProdIds /\ box'[b].node[id].file = ProdFile[id]
  <2>1. id \notin defs
    BY <1>4, <1>8 DEF Is, IsProd
  <2>2. box'[b].node[id] = box[b].node[id]
    BY <1>4, <1>8, <2>1 DEF Is, IsProd
  <2> QED BY <1>8, <2>2 DEF Lead, IsProd
<1>9. ASSUME pc'[b] \in InFlight, NEW f \in box'[b].files
      PROVE  \E i \in 1 .. done'[b] : f = parsed'[b][i].file
  <2>1. done'[b] = done[b] + 1 /\ done[b] \in Nat /\ box'[b].files = box[b].files \cup {doc.file}
    BY <1>3, <1>9 DEF InFlight, IInv, Typed
  <2>2. CASE f = doc.file
    <3>1. done[b] + 1 \in 1 .. done'[b]
      BY <2>1
    <3> QED BY <1>3, <2>2, <3>1
  <2>3. CASE f \in box[b].files
    <3>1. PICK i \in 1 .. done[b] : f = parsed[b][i].file
      BY <1>3, <2>3 DEF Lead, InFlight
    <3>2. i \in 1 .. done'[b]
      BY <2>1
    <3> QED BY <1>3, <3>1, <3>2
  <2> QED BY <2>1, <2>2, <2>3
\* A callee that the deletion pass takes has moved.
<1>10. ASSUME NEW c \in Ids, dropped(c)
       PROVE  /\ c \in ProdIds /\ ProdFile[c] \in box'[b].files
              /\ said'[b][c] = None \/ said'[b][c].file # ProdFile[c]
  <2>1. c \in ProdIds /\ ProdFile[c] = doc.file /\ doc.file \in box'[b].files
    BY <1>3, <1>10 DEF Lead
  <2> QED BY <1>7, <1>10, <2>1
<1>11. ASSUME NEW id \in Ids, NEW n \in Names, said'[b][id] # None,
              n \in said'[b][id].calls \ {id[1]}, NEW c, c = <<n, m>>
       PROVE  Leads(b, id, c)'
  <2> DEFINE e == <<id, c>>
  <2>1. c \in Ids
    BY <1>6, <1>11
  <2>2. ~dropped(id)
    <3>1. CASE id \in defs
      BY <3>1
    <3>2. CASE id \notin defs
      <4>1. said[b][id] # None
        BY <1>7, <1>11, <3>2
      <4>2. Is(b, id, "sandbox")
        BY <4>1 DEF Edit
      <4> QED BY <4>2 DEF Is, IsProd
    <3> QED BY <3>1, <3>2
  <2> HIDE DEF dropped
  <2>3. ASSUME e \in calls \/ (e \in box[b].edges /\ id \notin defs)
        PROVE  Leads(b, id, c)'
    <3>1. e \in box'[b].edges \/ dropped(c)
      BY <1>5, <2>2, <2>3
    <3>2. CASE dropped(c)
      BY <1>10, <2>1, <3>2 DEF Leads
    <3>3. CASE e \in box'[b].edges
      BY <3>3 DEF Leads
    <3> QED BY <3>1, <3>2, <3>3
  <2>4. CASE id \in defs
    <3>1. e \in calls
      BY <1>6, <1>7, <1>11, <2>4
    <3> QED BY <2>3, <3>1
  <2>5. CASE id \notin defs
    <3>1. said'[b][id] = said[b][id]
      BY <1>7, <1>11, <2>5
    <3>2. Leads(b, id, c)
      BY <1>11, <3>1 DEF Lead, m
    <3>3. CASE e \in box[b].edges
      BY <2>3, <2>5, <3>3
    <3>4. CASE /\ c \in ProdIds /\ ProdFile[c] \in box[b].files
               /\ said[b][c] = None \/ said[b][c].file # ProdFile[c]
      <4>1. ProdFile[c] \in box'[b].files
        BY <1>3, <3>4
      <4>2. PICK i \in 1 .. done[b] : ProdFile[c] = parsed[b][i].file
        BY <1>3, <3>4 DEF Lead, InFlight
      <4>3. ProdFile[c] # doc.file
        BY <1>3, <4>2, NextFileIsNew
      <4>4. said'[b][c] = None \/ said'[b][c].file # ProdFile[c]
        <5>1. CASE c \in defs
          BY <1>7, <2>1, <4>3, <5>1
        <5>2. CASE c \notin defs
          BY <1>7, <2>1, <3>4, <5>2
        <5> QED BY <5>1, <5>2
      <4> QED BY <3>4, <4>1, <4>4 DEF Leads
    <3>5. pc[b] \in InFlight
      BY <1>3 DEF InFlight
    <3> QED BY <3>2, <3>3, <3>4, <3>5 DEF Leads, e
  <2> QED BY <2>4, <2>5
<1>12. ASSUME NEW id \in Ids, NEW n \in Names, said'[b][id] # None,
              n \in said'[b][id].calls \ {id[1]}
       PROVE  Leads(b, id, <<n, req[b].mod>>)'
  BY <1>11, <1>12 DEF m
<1> QED BY <1>8, <1>9, <1>12 DEF Lead

LEMMA ResolveLeads ==
  ASSUME IInv, NEW b \in Uploads, Alone(b), Edit(b), Lead(b), Resolve(b), UNCHANGED req
  PROVE  Lead(b)'
<1>1. IsBox(box[b]) /\ held[b] = b /\ req[b].mod \in Modules
  BY AloneFacts
<1>2. /\ pc[b] = "resolving" /\ pc'[b] = "ok" /\ UNCHANGED said
      /\ \/ box'[b] = box[b]
         \/ \E ids \in SUBSET ProdIds : \E to :
              /\ \A id \in ids : id[1] \in names[b]
              /\ \A n \in DOMAIN to : to[n] \in ids /\ to[n][1] = n
              /\ box'[b] = Rewire(LoadProd(box[b], ids, {}), to)
  BY <1>1, ResolveDoes
<1>3. pc[b] \in InFlight /\ pc'[b] \notin InFlight
  BY <1>2 DEF InFlight
<1>4. CASE box'[b] = box[b]
  BY <1>2, <1>3, <1>4 DEF Lead, Leads
<1>5. ASSUME NEW ids \in SUBSET ProdIds, NEW to, \A id \in ids : id[1] \in names[b],
             box'[b] = Rewire(LoadProd(box[b], ids, {}), to)
      PROVE  Lead(b)'
  <2> DEFINE c == LoadProd(box[b], ids, {})
             stubs == {id \in Ids : c.node[id] # None /\ c.node[id].origin = "stub"
                                      /\ id[1] \in DOMAIN to}
             moved(id) == IF id \in stubs THEN to[id[1]] ELSE id
  <2>0. {} \in SUBSET (ids \X ids)
    OBVIOUS
  <2>1. /\ \A e : e \in c.edges <=> e \in box[b].edges \/ e \in {}
        /\ c.files = box[b].files
        /\ \A id \in ids : IsProd(c, id) /\ c.node[id].file = ProdFile[id]
        /\ \A id \in Ids \ ids : c.node[id] = box[b].node[id]
    BY <1>1, <2>0, LoadProdDoes
  <2>2. IsBox(c)
    <3>1. Grows(box[b], c, b)
      BY <1>1, <2>0, LoadProdGrows
    <3> QED BY <3>1 DEF Grows
  <2> HIDE DEF c
  <2>3. /\ box'[b].edges = {<<moved(e[1]), moved(e[2])>> : e \in c.edges}
        /\ box'[b].files = c.files
        /\ \A id \in stubs : box'[b].node[id] = None
        /\ \A id \in Ids \ stubs : box'[b].node[id] = c.node[id]
    <3>1. box'[b] = Rewire(c, to)
      BY <1>5 DEF c
    <3> QED BY <2>2, <3>1, RewireDoes
  <2>4. ASSUME NEW id \in Ids, IsProd(box'[b], id)
        PROVE  id \in ProdIds /\ box'[b].node[id].file = ProdFile[id]
    <3>1. box'[b].node[id] = c.node[id]
      <4> HIDE DEF stubs
      <4> QED BY <2>3, <2>4 DEF IsProd
    <3>2. CASE id \in ids
      BY <2>1, <3>1, <3>2
    <3>3. CASE id \notin ids
      BY <2>1, <2>4, <3>1, <3>3 DEF Lead, IsProd
    <3> QED BY <3>2, <3>3
  <2>5. ASSUME NEW id \in Ids, NEW n \in Names, said[b][id] # None,
               n \in said[b][id].calls \ {id[1]}, NEW k, k = <<n, req[b].mod>>
        PROVE  Leads(b, id, k)'
    <3>1. k \in Ids
      BY <1>1, <2>5 DEF Ids
    <3>2. Leads(b, id, k)
      BY <2>5 DEF Lead
    <3>3. id \notin stubs
      BY <2>1, <2>5 DEF Edit, Is, IsProd
    <3>4. CASE k \in stubs
      <4>1. Is(b, k, "stub")
        BY <2>1, <3>1, <3>4 DEF Is, IsProd
      <4>2. said[b][k] = None
        BY <3>1, <4>1 DEF Edit, Is
      <4> QED BY <1>2, <1>3, <4>2 DEF Leads
    <3>5. CASE k \notin stubs
      <4>1. ASSUME <<id, k>> \in box[b].edges PROVE <<id, k>> \in box'[b].edges
        <5>1. <<id, k>> \in c.edges
          BY <2>1, <4>1
        <5>2. moved(id) = id /\ moved(k) = k
          BY <3>3, <3>5
        <5> DEFINE e == <<id, k>>
        <5>3. e[1] = id /\ e[2] = k
          OBVIOUS
        <5> HIDE DEF moved, e
        <5>4. <<moved(e[1]), moved(e[2])>> \in box'[b].edges
          BY <2>3, <5>1 DEF e
        <5> QED BY <5>2, <5>3, <5>4
      <4> QED BY <1>2, <1>3, <2>1, <2>3, <3>2, <4>1 DEF Leads
    <3> QED BY <3>4, <3>5
  <2>6. ASSUME NEW id \in Ids, NEW n \in Names, said[b][id] # None,
               n \in said[b][id].calls \ {id[1]}
        PROVE  Leads(b, id, <<n, req[b].mod>>)'
    BY <2>5, <2>6
  <2> QED BY <1>2, <1>3, <2>4, <2>6 DEF Lead
<1> QED BY <1>2, <1>4, <1>5

LEMMA WorkLeads ==
  ASSUME IInv, Said, DistinctFiles,
         NEW b \in Uploads, Alone(b), Edit(b), Lead(b), UploadStep(b), UNCHANGED req
  PROVE  Lead(b)'
<1>1. ASSUME ParseFile(b) \/ ParseDone(b) \/ IngestDone(b)
      PROVE  Lead(b)'
  <2>1. /\ box' = box /\ said' = said /\ done' = done
        /\ parsed'[b] = parsed[b] \/ pc[b] = "parsing"
        /\ pc[b] \in InFlight
    BY <1>1, QuietStep, WorkFrame
  <2>2. CASE pc[b] = "parsing"
    BY <2>1, <2>2, EmptyLeads DEF Edit, IsEmpty
  <2>3. CASE parsed'[b] = parsed[b]
    BY <2>1, <2>3 DEF Lead, Leads
  <2> QED BY <2>1, <2>2, <2>3
<1> QED BY <1>1, PullLeads, IngestLeads, ResolveLeads DEF UploadStep

LEMMA LeadsStep ==
  ASSUME IInv, Said, DistinctFiles, Edits, LeadsAll, [Next]_vars
  PROVE  LeadsAll'
<1> SUFFICES ASSUME NEW b \in Uploads, Alone(b)' PROVE Lead(b)'
  BY DEF LeadsAll
<1>1. CASE Alone(b) /\ SameWork(b) /\ box'[b] = box[b] /\ said'[b] = said[b]
  BY <1>1 DEF LeadsAll, Lead, Leads, SameWork
<1>2. CASE box'[b] = ClearedBox /\ said'[b] = EmptyNodes
  BY <1>2, EmptyBoxes, EmptyLeads DEF IsEmpty
<1>3. CASE box'[b] = EmptyBox /\ said'[b] = EmptyNodes
  BY <1>3, EmptyBoxes, EmptyLeads DEF IsEmpty
<1>4. CASE Alone(b) /\ UploadStep(b) /\ UNCHANGED <<held, req>>
  BY <1>4, WorkLeads DEF LeadsAll, Edits
<1> QED BY <1>1, <1>2, <1>3, <1>4, AloneStep

\* The calls between uploaded functions are links of their sandbox.
LEMMA UploadedCallsAreLinks ==
  ASSUME NEW b \in Uploads, Edit(b), Lead(b)
  PROVE  UploadedCalls(b) \subseteq box[b].edges
<1> SUFFICES ASSUME NEW c \in UploadedCalls(b) PROVE c \in box[b].edges
  OBVIOUS
<1>1. /\ c[1] \in Ids /\ c[2] \in Ids /\ c = <<c[1], c[2]>>
      /\ said[b][c[1]] # None /\ said[b][c[2]] # None /\ c[1][2] = c[2][2]
      /\ c[2][1] \in said[b][c[1]].calls \ {c[1][1]} /\ ~MovedAway(b, c)
  BY DEF UploadedCalls
<1>2. c[1][2] = req[b].mod
  BY <1>1 DEF Edit
<1>3. c[2][1] \in Names /\ c[2] = <<c[2][1], req[b].mod>>
  <2>1. \A id \in Ids : id[1] \in Names /\ id = <<id[1], id[2]>>
    BY DEF Ids
  <2> QED BY <1>1, <1>2, <2>1
<1>4. Leads(b, c[1], c[2])
  <2>1. Leads(b, c[1], <<c[2][1], req[b].mod>>)
    BY <1>1, <1>3 DEF Lead
  <2> QED BY <1>3, <2>1
<1> QED BY <1>1, <1>4 DEF Leads, MovedAway

\* Where an upload has one document per file, a traversal finds what the calls
\* between its functions lead to, in either direction and as near as they are,
\* whatever the pull, the shadowing, the deletion passes and the boundary
\* resolution did to the sandbox.
THEOREM UploadedCallsCanBeFollowed == DistinctFiles => (Spec => []UploadedCallsAreFound)
<1> SUFFICES ASSUME DistinctFiles PROVE Spec => []UploadedCallsAreFound
  OBVIOUS
<1>1. Init => IInv /\ Said /\ Edits /\ LeadsAll
  <2>1. Init => LeadsAll
    BY NoneAssumption DEF Init, LeadsAll, Alone
  <2> QED BY <2>1, InitIInv, InitSaid
<1>2. IInv /\ Said /\ Edits /\ LeadsAll /\ [Next]_vars =>
        (IInv /\ Said /\ Edits /\ LeadsAll)'
  BY NextIInv, SaidStep, EditsStep, LeadsStep
<1>3. IInv /\ Edits /\ LeadsAll => UploadedCallsAreFound
  <2> SUFFICES ASSUME IInv, Edits, LeadsAll, NEW s \in Sids, table[s] # None, Sole(table[s]),
                      NEW id, NEW direction, NEW n \in 1 .. MaxDepth
               PROVE  Within(UploadedCalls(table[s]), id, direction, n)
                        \subseteq Visited(box[table[s]], id, direction, n)
    BY DEF UploadedCallsAreFound
  <2>1. table[s] \in Uploads /\ Alone(table[s])
    BY DEF IInv, Typed, Owned, Alone
  <2>2. UploadedCalls(table[s]) \subseteq box[table[s]].edges
    BY <2>1, UploadedCallsAreLinks DEF Edits, LeadsAll
  <2>3. n \in Nat
    BY DepthAssumption
  <2> QED BY <2>2, <2>3, LinksLeadFurther DEF Visited
<1> QED BY <1>1, <1>2, <1>3, PTL DEF Spec

(***************************************************************************)
(* The sandbox of a live session                                           *)
(***************************************************************************)

\* Unless a session expired, a sandbox in the table is of the live session.
Living ==
  /\ expiries \in Nat /\ live \in [Sids -> Nat] /\ starts \in [Sids -> Nat]
  /\ DOMAIN opened = Uploads
  /\ expiries = 0 =>
       \A s \in Sids : table[s] # None => live[s] # 0 /\ opened[table[s]] = live[s]

LEMMA UploadOpens ==
  ASSUME IInv, Living, NEW u \in Uploads, NEW r \in Requests, Upload(u, r)
  PROVE  /\ DOMAIN opened' = Uploads /\ r.sid \in Sids
         /\ \/ UNCHANGED <<table, opened>>
            \/ /\ table' = [table EXCEPT ![r.sid] = u]
               /\ opened' = [opened EXCEPT ![u] = live[r.sid]] /\ live[r.sid] # 0
<1>1. r.sid \in Sids
  BY DocsOfRequest
<1>2. \/ UNCHANGED <<table, opened>>
      \/ /\ table' = [table EXCEPT ![r.sid] = u]
         /\ opened' = [opened EXCEPT ![u] = live[r.sid]] /\ live[r.sid] # 0
  <2>1. CASE live[r.sid] = 0
    BY <2>1 DEF Upload
  <2>2. CASE live[r.sid] # 0
    <3>1. OpenBox(u, r.sid)
      BY <2>2 DEF Upload
    <3> QED BY <2>2, <3>1 DEF OpenBox
  <2> QED BY <2>1, <2>2
<1> QED BY <1>1, <1>2 DEF Living

LEMMA LivingStep ==
  ASSUME IInv, Living, [Next]_vars
  PROVE  Living'
<1>0. table \in [Sids -> Uploads \cup {None}]
  BY DEF IInv, Typed
<1>1. CASE UNCHANGED <<live, starts, expiries, table, opened>>
  BY <1>1 DEF Living
<1>2. ASSUME NEW s \in Sids, SessionStart(s) PROVE Living'
  <2>1. /\ starts' = [starts EXCEPT ![s] = @ + 1] /\ live[s] = 0
        /\ live' = [live EXCEPT ![s] = starts'[s]] /\ UNCHANGED <<expiries, table, opened>>
    BY <1>2 DEF SessionStart, history
  <2>2. starts' \in [Sids -> Nat] /\ live' \in [Sids -> Nat]
    BY <2>1 DEF Living
  <2>3. \A z \in Sids \ {s} : live'[z] = live[z]
    BY <2>1 DEF Living
  <2>4. expiries = 0 => table[s] = None
    BY <2>1 DEF Living
  <2> QED BY <2>1, <2>2, <2>3, <2>4 DEF Living
<1>3. ASSUME NEW s \in Sids, Expire(s) PROVE Living'
  <2>1. expiries' = expiries + 1 /\ live' = [live EXCEPT ![s] = 0] /\ UNCHANGED <<starts, opened>>
    BY <1>3 DEF Expire, history
  <2>2. expiries' \in Nat /\ expiries' # 0 /\ live' \in [Sids -> Nat]
    BY <2>1 DEF Living
  <2> QED BY <2>1, <2>2 DEF Living
<1>4. ASSUME NEW s \in Sids, Destroy(s), UNCHANGED <<starts, expiries, opened>>,
             live' = live \/ live' = [live EXCEPT ![s] = 0]
      PROVE  Living'
  <2>1. table' = [table EXCEPT ![s] = None]
    BY <1>4 DEF Destroy
  <2>2. live' \in [Sids -> Nat]
    BY <1>4 DEF Living
  <2>3. table'[s] = None /\ \A z \in Sids \ {s} : live'[z] = live[z] /\ table'[z] = table[z]
    BY <1>0, <1>4, <2>1 DEF Living
  <2> QED BY <1>4, <2>2, <2>3 DEF Living
<1>5. ASSUME NEW s \in Sids, SessionEnd(s) \/ SandboxClear(s) PROVE Living'
  <2>1. /\ Destroy(s) /\ UNCHANGED <<starts, expiries, opened>>
        /\ live' = live \/ live' = [live EXCEPT ![s] = 0]
    BY <1>5 DEF SessionEnd, SandboxClear
  <2> QED BY <1>4, <2>1
<1>6. ASSUME NEW u \in Uploads, NEW r \in Requests, Upload(u, r) PROVE Living'
  <2>1. UNCHANGED <<live, starts, expiries>>
    BY <1>6 DEF Upload, sessionVars
  <2>2. /\ DOMAIN opened' = Uploads /\ r.sid \in Sids
        /\ \/ UNCHANGED <<table, opened>>
           \/ /\ table' = [table EXCEPT ![r.sid] = u]
              /\ opened' = [opened EXCEPT ![u] = live[r.sid]] /\ live[r.sid] # 0
    BY <1>6, UploadOpens
  <2>3. CASE UNCHANGED <<table, opened>>
    BY <1>1, <2>1, <2>3
  <2>4. CASE /\ table' = [table EXCEPT ![r.sid] = u]
             /\ opened' = [opened EXCEPT ![u] = live[r.sid]] /\ live[r.sid] # 0
    <3>1. \A z \in Sids : table[z] # u
      <4>1. held[u] = None /\ u # None
        BY <1>6, UploadDoes, NoneAssumption
      <4> QED BY <4>1 DEF IInv, Owned
    <3>2. /\ table'[r.sid] = u /\ opened'[u] = live[r.sid]
          /\ \A z \in Sids \ {r.sid} : table'[z] = table[z]
          /\ \A v \in Uploads \ {u} : opened'[v] = opened[v]
      BY <1>0, <2>2, <2>4 DEF Living
    <3>3. \A z \in Sids \ {r.sid} : table[z] # None => opened'[table[z]] = opened[table[z]]
      BY <1>0, <3>1, <3>2
    <3> QED BY <2>1, <2>2, <2>4, <3>2, <3>3 DEF Living
  <2> QED BY <2>2, <2>3, <2>4
<1>7. ASSUME NEW u \in Uploads, UploadStep(u) PROVE Living'
  BY <1>1, <1>7, WorkFrame DEF sessionVars
<1>8. CASE UNCHANGED vars
  BY <1>1, <1>8 DEF vars, sessionVars, history
<1> QED BY <1>2, <1>3, <1>5, <1>6, <1>7, <1>8 DEF Next

\* Unless a session expired, a live session's sandbox was opened in that session,
\* however sessions of its id start and end while uploads are under way.
THEOREM SandboxesAreOfTheSession == Spec => []SandboxOfLiveSession
<1>1. Init => IInv /\ Living
  <2>1. Init => Living
    BY DEF Init, Living
  <2> QED BY <2>1, InitIInv
<1>2. IInv /\ Living /\ [Next]_vars => (IInv /\ Living)'
  BY NextIInv, LivingStep
<1>3. Living => SandboxOfLiveSession
  BY DEF Living, SandboxOfLiveSession
<1> QED BY <1>1, <1>2, <1>3, PTL DEF Spec

(***************************************************************************)
(* Chunks, and the types of all variables                                  *)
(***************************************************************************)

\* A finite set has a part of every size up to its own.
LEMMA PartOfSize ==
  ASSUME NEW S, IsFiniteSet(S), NEW k \in Nat, k <= Cardinality(S)
  PROVE  \E T \in SUBSET S : Cardinality(T) = k
<1>1. PICK n \in Nat : ExistsBijection(1 .. n, S)
  BY FS_NatBijection
<1>2. n = Cardinality(S)
  BY <1>1, FS_CountingElements
<1>3. PICK f \in Bijection(1 .. n, S) : TRUE
  BY <1>1 DEF ExistsBijection
<1>4. /\ f \in [1 .. n -> S]
      /\ \A i, j \in 1 .. n : f[i] = f[j] => i = j
  BY <1>3 DEF Bijection, Injection, IsInjective
<1> DEFINE T == {f[i] : i \in 1 .. k}
           g == [i \in 1 .. k |-> f[i]]
<1>5. 1 .. k \subseteq 1 .. n
  BY <1>2
<1>6. T \in SUBSET S
  BY <1>4, <1>5
<1>7. g \in Bijection(1 .. k, T)
  <2>1. g \in [1 .. k -> T] /\ \A t \in T : \E i \in 1 .. k : g[i] = t
    OBVIOUS
  <2>2. \A i, j \in 1 .. k : g[i] = g[j] => i = j
    BY <1>4, <1>5
  <2> HIDE DEF g, T
  <2> QED BY <2>1, <2>2 DEF Bijection, Injection, Surjection, IsInjective
<1>8. Cardinality(T) = k
  <2> HIDE DEF g, T
  <2>1. ExistsBijection(1 .. k, T)
    BY <1>7 DEF ExistsBijection
  <2> QED BY <2>1, FS_CountingElements
<1> QED BY <1>6, <1>8

\* What is in a sandbox of its type, within the limit.
FiniteChunks == {C \in SUBSET (Files \X Names) : IsFiniteSet(C)}
Filed(b) == b.chunks \in FiniteChunks /\ Cardinality(b.chunks) <= MaxChunks
Boxed(b) == b \in Box /\ Filed(b)

LEMMA ChunksOf ==
  ASSUME NEW doc \in Documents
  PROVE  Chunks(doc) \in FiniteChunks /\ Cardinality(Chunks(doc)) \in Nat
<1>1. doc.file \in Files /\ DOMAIN doc.calls \in SUBSET Names /\ IsFiniteSet(DOMAIN doc.calls)
  BY DEF Documents, Definitions
<1>2. IsFiniteSet(Chunks(doc))
  BY <1>1, FS_Singleton, FS_Product DEF Chunks
<1> QED BY <1>1, <1>2, FS_CardinalityType DEF Chunks, FiniteChunks

\* The chunks of the file are replaced, as far as the limit allows.
LEMMA EmbedDoes ==
  ASSUME NEW b, Filed(b), DOMAIN b = {"active", "node", "edges", "chunks", "files"},
         NEW doc \in Documents
  PROVE  LET c == Embed(b, doc)
         IN  /\ Filed(c) /\ c = [b EXCEPT !.chunks = c.chunks]
             /\ \A x \in c.chunks : x[1] = doc.file => x \in Chunks(doc)
             /\ \A x : x[1] # doc.file => (x \in c.chunks <=> x \in b.chunks)
<1> DEFINE others == OtherChunks(b, doc)
           room == MaxChunks - Cardinality(others)
           all == Chunks(doc)
           added == IF Cardinality(all) <= room THEN all
                    ELSE CHOOSE first \in SUBSET all : Cardinality(first) = room
           c == Embed(b, doc)
<1>1. others \in FiniteChunks /\ Cardinality(others) \in Nat /\ Cardinality(others) <= MaxChunks
  <2>1. others \in SUBSET b.chunks /\ IsFiniteSet(b.chunks)
    BY DEF OtherChunks, Filed, FiniteChunks
  <2>2. IsFiniteSet(others) /\ Cardinality(others) <= Cardinality(b.chunks)
    BY <2>1, FS_Subset
  <2>3. Cardinality(others) \in Nat /\ Cardinality(b.chunks) \in Nat
    BY <2>1, <2>2, FS_CardinalityType
  <2> QED BY <2>1, <2>2, <2>3, BoundAssumption DEF Filed, FiniteChunks
<1>2. all \in FiniteChunks /\ Cardinality(all) \in Nat
  BY ChunksOf
<1>3. room \in Nat
  BY <1>1, BoundAssumption
<1> HIDE DEF others, all
<1>4. added \in SUBSET all /\ Cardinality(added) <= room
  <2>1. CASE Cardinality(all) <= room
    BY <2>1
  <2>2. CASE ~(Cardinality(all) <= room)
    <3>1. \E T \in SUBSET all : Cardinality(T) = room
      BY <1>2, <1>3, <2>2, PartOfSize DEF FiniteChunks
    <3>2. added \in SUBSET all /\ Cardinality(added) = room
      BY <2>2, <3>1
    <3> QED BY <3>2, <1>3
  <2> QED BY <2>1, <2>2
<1>5. c.chunks = others \cup added /\ c = [b EXCEPT !.chunks = others \cup added]
  BY DEF Embed, others, all
<1> HIDE DEF added, c
<1>6. IsFiniteSet(added) /\ Cardinality(added) \in Nat /\ added \in FiniteChunks
  <2>1. IsFiniteSet(added)
    BY <1>2, <1>4, FS_Subset DEF FiniteChunks
  <2> QED BY <2>1, <1>2, <1>4, FS_CardinalityType DEF FiniteChunks
<1>7. /\ others \cup added \in FiniteChunks
      /\ Cardinality(others \cup added) <= Cardinality(others) + Cardinality(added)
  <2>1. IsFiniteSet(others) /\ IsFiniteSet(others \cap added)
    BY <1>1, <1>6, FS_Intersection DEF FiniteChunks
  <2>2. /\ IsFiniteSet(others \cup added) /\ Cardinality(others \cap added) \in Nat
        /\ Cardinality(others \cup added)
             = Cardinality(others) + Cardinality(added) - Cardinality(others \cap added)
    BY <1>6, <2>1, FS_Union, FS_CardinalityType
  <2> QED BY <1>1, <1>6, <2>2 DEF FiniteChunks
<1>8. Filed(c)
  <2>1. Cardinality(others \cup added) \in Nat
    BY <1>7, FS_CardinalityType DEF FiniteChunks
  <2> QED BY <1>1, <1>3, <1>4, <1>5, <1>6, <1>7, <2>1, BoundAssumption DEF Filed
<1>9. \A x \in added : x[1] = doc.file
  BY <1>4 DEF all, Chunks
<1>10. \A x : x \in others <=> x \in b.chunks /\ x[1] # doc.file
  BY DEF others, OtherChunks
<1> QED BY <1>4, <1>5, <1>8, <1>9, <1>10 DEF all, c

\* A sandbox of which nodes and edges change within their types.
LEMMA StillBoxed ==
  ASSUME NEW b, Boxed(b), NEW c, c = [b EXCEPT !.node = c.node, !.edges = c.edges], IsBox(c)
  PROVE  Boxed(c) /\ c.chunks = b.chunks
BY DEF Boxed, Box, Filed, IsBox

\* Every operation on a sandbox keeps its type and its limit.
LEMMA LoadProdBoxed ==
  ASSUME NEW b, Boxed(b), NEW ids \in SUBSET ProdIds, NEW rels \in SUBSET (ids \X ids)
  PROVE  Boxed(LoadProd(b, ids, rels)) /\ LoadProd(b, ids, rels).chunks = b.chunks
<1> DEFINE c == LoadProd(b, ids, rels)
<1>1. IsBox(b)
  BY DEF Boxed, Box, IsBox
<1>2. c = [b EXCEPT !.node = c.node, !.edges = c.edges]
  BY DEF LoadProd, Boxed, Box
<1>3. IsBox(c)
  BY <1>1, LoadProdGrows DEF Grows
<1> HIDE DEF c
<1>4. Boxed(c) /\ c.chunks = b.chunks
  BY <1>2, <1>3, StillBoxed
<1> QED BY <1>4 DEF c

LEMMA FilledBoxed ==
  ASSUME NEW b, Boxed(b), NEW u \in Uploads, NEW m \in Modules, NEW doc \in Documents
  PROVE  LET c == Filled(b, u, m, doc)
         IN  /\ Boxed(c)
             /\ \A x \in c.chunks : x[1] = doc.file => x \in Chunks(doc)
             /\ \A x : x[1] # doc.file => (x \in c.chunks <=> x \in b.chunks)
<1> DEFINE d == Define(b, u, m, doc)
           c == Embed(d, doc)
<1>1. d = [b EXCEPT !.node = d.node, !.edges = d.edges]
  BY DEF Define, Boxed, Box
<1>2. IsBox(d)
  <2>1. IsBox(b)
    BY DEF Boxed, Box, IsBox
  <2> QED BY <2>1, DefineGrows DEF Grows
<1> HIDE DEF d
<1>3. Boxed(d) /\ d.chunks = b.chunks
  BY <1>1, <1>2, StillBoxed
<1>5. /\ Filed(c) /\ c = [d EXCEPT !.chunks = c.chunks]
      /\ \A x \in c.chunks : x[1] = doc.file => x \in Chunks(doc)
      /\ \A x : x[1] # doc.file => (x \in c.chunks <=> x \in d.chunks)
  BY <1>2, <1>3, EmbedDoes DEF Boxed, IsBox
<1>6. Boxed(c)
  <2> HIDE DEF c
  <2>1. c.chunks \in FiniteChunks
    BY <1>5 DEF Filed
  <2>2. c \in Box
    BY <1>3, <1>5, <2>1 DEF Boxed, Box, FiniteChunks
  <2> QED BY <1>5, <2>2 DEF Boxed
<1>7. c = Filled(b, u, m, doc)
  BY DEF Filled, d
<1> HIDE DEF c
<1> QED BY <1>3, <1>5, <1>6, <1>7

LEMMA IngestedBoxed ==
  ASSUME NEW b, Boxed(b), NEW doc \in Documents
  PROVE  Boxed(Ingested(b, doc)) /\ Ingested(b, doc).chunks = b.chunks
<1> DEFINE c == Ingested(b, doc)
<1>1. IsBox(b) /\ doc.file \in Files
  BY DEF Boxed, Box, IsBox, Documents
<1>2. /\ c = [b EXCEPT !.node = c.node, !.edges = c.edges, !.files = c.files]
      /\ c.files = b.files \cup {doc.file}
  BY DEF Ingested, DropDeleted, Boxed, Box
<1>3. IsBox(c)
  BY <1>1, IngestedGrows DEF Grows
<1> HIDE DEF c
<1>4. Boxed(c)
  <2>1. c.files \in SUBSET Files
    BY <1>1, <1>2 DEF Boxed, Box
  <2> QED BY <1>2, <1>3, <2>1 DEF Boxed, Box, Filed, IsBox
<1>5. c.chunks = b.chunks
  BY <1>2 DEF Boxed, Box
<1> QED BY <1>4, <1>5 DEF c

LEMMA RewireBoxed ==
  ASSUME NEW b, Boxed(b), NEW to, IsBox(Rewire(b, to))
  PROVE  Boxed(Rewire(b, to)) /\ Rewire(b, to).chunks = b.chunks
<1> DEFINE c == Rewire(b, to)
<1>1. c = [b EXCEPT !.node = c.node, !.edges = c.edges]
  BY DEF Rewire, Boxed, Box
<1>2. IsBox(c)
  OBVIOUS
<1> HIDE DEF c
<1>3. Boxed(c) /\ c.chunks = b.chunks
  BY <1>1, <1>2, StillBoxed
<1> QED BY <1>3 DEF c

LEMMA EmptyBoxed == Boxed(EmptyBox) /\ Boxed(ClearedBox)
<1>1. {} \in FiniteChunks /\ Cardinality({}) = 0
  BY FS_EmptySet DEF FiniteChunks
<1>2. EmptyNodes \in [Ids -> Node \cup {None}]
  BY DEF EmptyNodes
<1>3. EmptyBox \in Box /\ ClearedBox \in Box
  BY <1>1, <1>2 DEF Box, FiniteChunks, EmptyBox, ClearedBox
<1>4. EmptyBox.chunks = {} /\ ClearedBox.chunks = {}
  BY DEF EmptyBox, ClearedBox
<1> QED BY <1>1, <1>3, <1>4, BoundAssumption DEF Boxed, Filed

\* What the steps leave to say about types.
Contents ==
  /\ box \in [Uploads -> Box \cup {None}]
  /\ \A b \in Uploads : held[b] = b => Boxed(box[b])
SessionsTyped ==
  /\ live \in [Sids -> Nat] /\ starts \in [Sids -> Nat] /\ expiries \in Nat
  /\ opened \in [Uploads -> Nat]
SayingsTyped ==
  /\ names \in [Uploads -> SUBSET Names]
  /\ said \in [Uploads -> [Ids -> Author \cup {None}]]
Sized == Contents /\ SessionsTyped /\ SayingsTyped

LEMMA InitSized == Init => Sized
<1> SUFFICES ASSUME Init PROVE Sized
  OBVIOUS
<1>1. \A b \in Uploads : held[b] # b
  BY NoneAssumption DEF Init
<1>2. Contents /\ SessionsTyped
  BY <1>1 DEF Init, Contents, SessionsTyped
<1>3. SayingsTyped
  BY DEF Init, SayingsTyped, EmptyNodes
<1> QED BY <1>2, <1>3 DEF Sized

\* An upload works on a sandbox within its type and limit.
LEMMA WorkBoxed ==
  ASSUME IInv, Contents, NEW u \in Uploads, UploadStep(u)
  PROVE  box' = box \/ \E c : Boxed(c) /\ box' = [box EXCEPT ![held[u]] = c]
<1> DEFINE h == held[u]
<1>1. /\ h \in Uploads /\ held[h] = h /\ Boxed(box[h]) /\ req[u].mod \in Modules
      /\ IsBox(box[h])
  <2>1. pc[u] \in InFlight
    BY WorkFrame
  <2>2. h \in Uploads /\ held[h] = h /\ Progress(u) /\ IsBox(box[h])
    BY <2>1, HeldBox DEF GoodBox
  <2> QED BY <2>2, DocsOfRequest DEF Contents, Progress
<1>2. CASE ParseFile(u) \/ ParseDone(u) \/ IngestDone(u)
  BY <1>2 DEF ParseFile, ParseDone, IngestDone
<1>3. CASE Pull(u)
  <2> DEFINE ids == Pulled(req[u].mod, ParsedNames(u))
             rels == PulledCalls(req[u].mod, ParsedNames(u))
  <2>1. ids \in SUBSET ProdIds /\ rels \in SUBSET (ids \X ids)
    <3>1. ids \in SUBSET ProdIds
      BY DEF Pulled
    <3>2. rels \in SUBSET (ids \X ids)
      BY GraphAssumption DEF PulledCalls
    <3> QED BY <3>1, <3>2
  <2>2. box' = box \/ box' = [box EXCEPT ![h] = LoadProd(box[h], ids, rels)]
    BY <1>3 DEF Pull
  <2> HIDE DEF ids, rels
  <2>3. Boxed(LoadProd(box[h], ids, rels))
    BY <1>1, <2>1, LoadProdBoxed
  <2> QED BY <2>2, <2>3
<1>4. CASE IngestNext(u)
  <2> DEFINE doc == parsed[u][done[u] + 1]
             b == Filled(box[h], u, req[u].mod, doc)
  <2>1. doc \in Documents
    <3>1. done[u] + 1 \in 1 .. Len(parsed[u]) /\ pc[u] = "ingesting"
      BY <1>4 DEF IngestNext, IInv, Typed
    <3> QED BY <3>1, AllParsed
  <2>2. box' = [box EXCEPT ![h] = Ingested(b, doc)] \/ box' = [box EXCEPT ![h] = b]
    <3>1. CASE Fits(b, doc)
      BY <1>4, <3>1 DEF IngestNext
    <3>2. CASE ~Fits(b, doc)
      BY <1>4, <3>2 DEF IngestNext
    <3> QED BY <3>1, <3>2
  <2> HIDE DEF doc
  <2>3. Boxed(b)
    BY <1>1, <2>1, FilledBoxed
  <2> HIDE DEF b
  <2>4. Boxed(Ingested(b, doc))
    BY <2>1, <2>3, IngestedBoxed
  <2> QED BY <2>2, <2>3, <2>4
<1>5. CASE Resolve(u)
  <2> DEFINE ids == {id \in ProdIds : id[1] \in names[u]}
             D == {id[1] : id \in ids}
             b == LoadProd(box[h], ids, {})
  <2>1. Boxed(b) /\ IsBox(b) /\ \A id \in ids : b.node[id] # None /\ b.node[id].origin = "production"
    <3>1. ids \in SUBSET ProdIds /\ {} \in SUBSET (ids \X ids)
      OBVIOUS
    <3> HIDE DEF ids
    <3>2. Boxed(b)
      BY <1>1, <3>1, LoadProdBoxed
    <3>3. /\ Grows(box[h], b, u)
          /\ \A id \in ids : b.node[id] # None /\ b.node[id].origin = "production"
      BY <1>1, <3>1, LoadProdGrows
    <3> QED BY <3>2, <3>3 DEF Grows
  <2>2. \/ box' = box
        \/ \E to \in [D -> ids] : box' = [box EXCEPT ![h] = Rewire(b, to)]
    BY <1>5 DEF Resolve
  <2>3. ASSUME NEW to \in [D -> ids] PROVE Boxed(Rewire(b, to))
    <3>1. to \in [D -> Ids]
      BY GraphAssumption
    <3>2. \A n \in D : b.node[to[n]] # None /\ b.node[to[n]].origin # "stub"
      <4> HIDE DEF b, ids
      <4> QED BY <2>1
    <3> HIDE DEF b, ids, D
    <3>3. IsBox(Rewire(b, to))
      BY <2>1, <3>1, <3>2, RewireGrows DEF Grows
    <3> QED BY <2>1, <3>3, RewireBoxed
  <2> HIDE DEF b, ids, D
  <2> QED BY <2>2, <2>3
<1> QED BY <1>2, <1>3, <1>4, <1>5 DEF UploadStep

LEMMA ContentsStep ==
  ASSUME IInv, Said, Contents, [Next]_vars
  PROVE  Contents'
<1>1. ASSUME UNCHANGED <<box, held>> PROVE Contents'
  BY <1>1 DEF Contents
<1>2. ASSUME NEW s \in Sids, SessionStart(s) \/ Expire(s) PROVE Contents'
  BY <1>1, <1>2 DEF SessionStart, Expire, uploadVars
<1>3. ASSUME NEW s \in Sids, SessionEnd(s) \/ SandboxClear(s) PROVE Contents'
  <2>1. Destroy(s) /\ UNCHANGED held
    BY <1>3 DEF SessionEnd, SandboxClear, uploadVars
  <2>2. box' = box \/ (table[s] \in Uploads /\ box' = [box EXCEPT ![table[s]] = ClearedBox])
    BY <2>1 DEF Destroy, IInv, Typed
  <2> QED BY <2>1, <2>2, EmptyBoxed DEF Contents, Boxed
<1>4. ASSUME NEW u \in Uploads, NEW r \in Requests, Upload(u, r) PROVE Contents'
  <2>1. /\ \A v \in Uploads \ {u} : held'[v] = held[v] /\ box'[v] = box[v]
        /\ held'[u] # u \/ box'[u] = EmptyBox
    BY <1>4, UploadDoes
  <2>2. box' = box \/ box' = [box EXCEPT ![u] = EmptyBox]
    BY <1>4 DEF Upload, OpenBox
  <2> QED BY <2>1, <2>2, EmptyBoxed DEF Contents, Boxed
<1>5. ASSUME NEW u \in Uploads, UploadStep(u) PROVE Contents'
  <2>1. UNCHANGED held /\ held[u] \in Uploads
    BY <1>5, WorkElsewhere
  <2>2. CASE box' = box
    BY <1>1, <2>1, <2>2
  <2>3. ASSUME NEW c, Boxed(c), box' = [box EXCEPT ![held[u]] = c] PROVE Contents'
    BY <2>1, <2>3 DEF Contents, Boxed
  <2> QED BY <1>5, <2>2, <2>3, WorkBoxed
<1>6. CASE UNCHANGED vars
  BY <1>1, <1>6 DEF vars, uploadVars
<1> QED BY <1>2, <1>3, <1>4, <1>5, <1>6 DEF Next

LEMMA SessionsTypedStep ==
  ASSUME SessionsTyped, [Next]_vars
  PROVE  SessionsTyped'
<1>1. ASSUME NEW s \in Sids, SessionStart(s) \/ Expire(s) \/ SessionEnd(s) \/ SandboxClear(s)
      PROVE  SessionsTyped'
  BY <1>1 DEF SessionStart, Expire, SessionEnd, SandboxClear, history, SessionsTyped
<1>2. ASSUME NEW u \in Uploads, NEW r \in Requests, Upload(u, r) PROVE SessionsTyped'
  <2>1. UNCHANGED <<live, starts, expiries>> /\ r.sid \in Sids
    BY <1>2, DocsOfRequest DEF Upload, sessionVars
  <2>2. opened' = opened \/ opened' = [opened EXCEPT ![u] = live[r.sid]]
    BY <1>2 DEF Upload, OpenBox
  <2> QED BY <2>1, <2>2 DEF SessionsTyped
<1>3. ASSUME NEW u \in Uploads, UploadStep(u) PROVE SessionsTyped'
  BY <1>3, WorkFrame DEF SessionsTyped, sessionVars
<1>4. CASE UNCHANGED vars
  BY <1>4 DEF vars, sessionVars, history, SessionsTyped
<1> QED BY <1>1, <1>2, <1>3, <1>4 DEF Next

\* What a document says is of the type of what is said.
LEMMA SayingTyped ==
  ASSUME NEW sd \in [Ids -> Author \cup {None}], NEW u \in Uploads, NEW m \in Modules,
         NEW doc \in Documents
  PROVE  Saying(sd, u, m, doc) \in [Ids -> Author \cup {None}]
<1> SUFFICES ASSUME NEW id \in Ids
             PROVE  Saying(sd, u, m, doc)[id] \in Author \cup {None}
  BY DEF Saying
<1>1. CASE id \in Defs(m, doc)
  <2>1. Saying(sd, u, m, doc)[id] = [by |-> u, file |-> doc.file, calls |-> doc.calls[id[1]]]
    BY <1>1 DEF Saying
  <2>2. id[1] \in DOMAIN doc.calls
    BY <1>1 DEF Defs
  <2> QED BY <2>1, <2>2, AuthorsAreNotNone
<1>2. CASE id \notin Defs(m, doc)
  BY <1>2 DEF Saying
<1> QED BY <1>1, <1>2

LEMMA SayingsTypedStep ==
  ASSUME IInv, Said, SayingsTyped, [Next]_vars
  PROVE  SayingsTyped'
<1>1. ASSUME UNCHANGED <<names, said>> PROVE SayingsTyped'
  BY <1>1 DEF SayingsTyped
<1>2. ASSUME NEW s \in Sids, SessionStart(s) \/ Expire(s) PROVE SayingsTyped'
  BY <1>1, <1>2 DEF SessionStart, Expire, uploadVars, history
<1>3. ASSUME NEW s \in Sids, SessionEnd(s) \/ SandboxClear(s) PROVE SayingsTyped'
  <2>1. Destroy(s) /\ UNCHANGED names
    BY <1>3 DEF SessionEnd, SandboxClear, uploadVars
  <2>2. said' = said \/ said' = [said EXCEPT ![table[s]] = EmptyNodes]
    BY <2>1 DEF Destroy
  <2> QED BY <2>1, <2>2 DEF SayingsTyped, EmptyNodes
<1>4. ASSUME NEW u \in Uploads, NEW r \in Requests, Upload(u, r) PROVE SayingsTyped'
  BY <1>1, <1>4 DEF Upload
<1>5. ASSUME NEW u \in Uploads, UploadStep(u) PROVE SayingsTyped'
  <2>1. pc[u] \in InFlight /\ held[u] \in Uploads /\ req[u].mod \in Modules
    BY <1>5, WorkFrame, HeldBox, DocsOfRequest DEF Progress
  <2>2. CASE ParseFile(u) \/ ParseDone(u) \/ Pull(u) \/ Resolve(u)
    BY <1>1, <2>2 DEF ParseFile, ParseDone, Pull, Resolve, history
  <2>3. CASE IngestNext(u)
    <3> DEFINE doc == parsed[u][done[u] + 1]
    <3>1. doc \in Documents
      <4>1. done[u] + 1 \in 1 .. Len(parsed[u]) /\ pc[u] = "ingesting"
        BY <2>3 DEF IngestNext, IInv, Typed
      <4> QED BY <4>1, AllParsed
    <3>2. UNCHANGED names /\ said' = [said EXCEPT ![held[u]] = Saying(@, u, req[u].mod, doc)]
      BY <2>3 DEF IngestNext
    <3> HIDE DEF doc
    <3>3. Saying(said[held[u]], u, req[u].mod, doc) \in [Ids -> Author \cup {None}]
      BY <2>1, <3>1, SayingTyped DEF SayingsTyped
    <3> QED BY <3>2, <3>3 DEF SayingsTyped
  <2>4. CASE IngestDone(u)
    <3>1. StubNames(box[held[u]]) \in SUBSET Names
      BY DEF StubNames, Ids
    <3>2. UNCHANGED said
      BY <2>4 DEF IngestDone, history
    <3>3. UNCHANGED names \/ names' = [names EXCEPT ![u] = StubNames(box[held[u]])]
      BY <2>4 DEF IngestDone
    <3> QED BY <3>1, <3>2, <3>3 DEF SayingsTyped
  <2> QED BY <1>5, <2>2, <2>3, <2>4 DEF UploadStep
<1>6. CASE UNCHANGED vars
  BY <1>1, <1>6 DEF vars, uploadVars, history
<1> QED BY <1>2, <1>3, <1>4, <1>5, <1>6 DEF Next

\* The invariant that the types and the limit need.
THEOREM SizedInvariant == Spec => [](IInv /\ Said /\ Sized)
<1>1. Init => IInv /\ Said /\ Sized
  BY InitIInv, InitSaid, InitSized
<1>2. IInv /\ Said /\ Sized /\ [Next]_vars => (IInv /\ Said /\ Sized)'
  BY NextIInv, SaidStep, ContentsStep, SessionsTypedStep, SayingsTypedStep DEF Sized
<1> QED BY <1>1, <1>2, PTL DEF Spec

\* Every variable has its type, whatever is uploaded, destroyed and started over.
THEOREM TypeCorrect == Spec => []TypeOK
<1>1. IInv /\ Said /\ Sized => TypeOK
  BY DEF IInv, Typed, Sized, Contents, SessionsTyped, SayingsTyped, TypeOK
<1> QED BY <1>1, SizedInvariant, PTL

\* No sandbox has more chunks than the limit, for every limit and all documents.
THEOREM LimitHolds == Spec => []ChunksWithinLimit
<1>1. IInv /\ Said /\ Sized => ChunksWithinLimit
  BY DEF IInv, GoodBoxes, Sized, Contents, Boxed, Filed, ChunksWithinLimit
<1> QED BY <1>1, SizedInvariant, PTL

(***************************************************************************)
(* Search has what the answered upload defines                             *)
(***************************************************************************)

\* Of the documents done, i is the last of its file.
LastDone(b, i) == \A j \in i + 1 .. done[b] : parsed[b][j].file # parsed[b][i].file
ChunksOfFile(b, f) == {c \in box[b].chunks : c[1] = f}
Current(b) == born[b] = clears[Sid(b)]

\* Until it fails or is destroyed, an upload with a sandbox of its own has the
\* chunks of the documents done, of each file those of the last.
Searchable(b) ==
  pc[b] \in InFlight \cup {"ok"} /\ Current(b) =>
    \A i \in 1 .. done[b] : LastDone(b, i) =>
      ChunksOfFile(b, parsed[b][i].file) = Chunks(parsed[b][i])

Indexed == \A b \in Uploads : Alone(b) => Searchable(b)

\* A destroy leaves the sandboxes of uploads accepted since the last one alone:
\* there is none of its session.
LEMMA DestroyOutdates ==
  ASSUME IInv, NEW s \in Sids, Destroy(s), UNCHANGED <<req, born>>,
         NEW b \in Uploads, held[b] = b, Current(b)'
  PROVE  Current(b) /\ box'[b] = box[b]
<1>1. /\ held[b] # None /\ req[b] \in Requests /\ born[b] <= clears[Sid(b)]
      /\ born[b] = clears[Sid(b)] => table[Sid(b)] = b
  BY NoneAssumption DEF IInv, Owned
<1>2. Sid(b) \in Sids /\ Sid(b)' = Sid(b) /\ born[b] \in Nat /\ clears \in [Sids -> Nat]
  BY <1>1, DocsOfRequest DEF Sid, IInv, Typed
<1>3. clears' = [clears EXCEPT ![s] = @ + 1] /\ born[b] = clears'[Sid(b)]
  BY <1>2 DEF Destroy, Current
<1>4. Sid(b) # s /\ Current(b)
  BY <1>1, <1>2, <1>3 DEF Current
<1>5. box'[b] = box[b]
  <2>1. CASE table[s] = None
    BY <2>1 DEF Destroy
  <2>2. CASE table[s] # None
    <3>1. table[s] \in Uploads /\ Sid(table[s]) = s
      BY <2>2 DEF IInv, Typed, Owned
    <3>2. box' = [box EXCEPT ![table[s]] = ClearedBox]
      BY <2>2 DEF Destroy
    <3> QED BY <1>4, <3>1, <3>2 DEF IInv, Typed
  <2> QED BY <2>1, <2>2
<1> QED BY <1>4, <1>5

\* What a step may do to a sandbox of one upload that is not destroyed: nothing,
\* open it, or work for that upload.
LEMMA CurrentStep ==
  ASSUME IInv, Said, [Next]_vars, NEW b \in Uploads, Alone(b)', Current(b)'
  PROVE  \/ Alone(b) /\ Current(b) /\ SameWork(b) /\ box'[b] = box[b]
         \/ done'[b] = 0
         \/ Alone(b) /\ Current(b) /\ UploadStep(b) /\ UNCHANGED <<held, req>>
<1>1. ASSUME UNCHANGED <<pc, req, parsed, done, names, held>>
      PROVE  Alone(b) /\ SameWork(b)
  BY <1>1 DEF Alone, Sole, SameWork
<1>2. ASSUME NEW s \in Sids, SessionStart(s) \/ Expire(s)
      PROVE  Alone(b) /\ Current(b) /\ SameWork(b) /\ box'[b] = box[b]
  BY <1>1, <1>2 DEF SessionStart, Expire, uploadVars, history, Current, Sid
<1>3. ASSUME NEW s \in Sids, SessionEnd(s) \/ SandboxClear(s)
      PROVE  Alone(b) /\ Current(b) /\ SameWork(b) /\ box'[b] = box[b]
  <2>1. Destroy(s) /\ UNCHANGED <<pc, req, parsed, done, names, held, born>>
    BY <1>3 DEF SessionEnd, SandboxClear, uploadVars
  <2>2. Alone(b) /\ SameWork(b)
    BY <1>1, <2>1
  <2> QED BY <2>1, <2>2, DestroyOutdates DEF Alone
<1>4. ASSUME NEW u \in Uploads, NEW r \in Requests, Upload(u, r)
      PROVE  \/ Alone(b) /\ Current(b) /\ SameWork(b) /\ box'[b] = box[b]
             \/ done'[b] = 0
  <2>1. /\ held[u] = None /\ done[u] = 0 /\ u # None /\ b # None
        /\ \A v \in Uploads \ {u} : /\ pc'[v] = pc[v] /\ req'[v] = req[v] /\ held'[v] = held[v]
                                    /\ box'[v] = box[v]
        /\ UNCHANGED <<parsed, done, names>>
    BY <1>4, UploadDoes, NoneAssumption
  <2>2. UNCHANGED clears /\ \A v \in Uploads \ {u} : born'[v] = born[v]
    BY <1>4 DEF Upload, sessionVars, IInv, Typed
  <2>3. CASE u # b
    BY <2>1, <2>2, <2>3 DEF Alone, Sole, SameWork, Current, Sid
  <2> QED BY <2>1, <2>3
<1>5. ASSUME NEW u \in Uploads, UploadStep(u)
      PROVE  \/ Alone(b) /\ Current(b) /\ SameWork(b) /\ box'[b] = box[b]
             \/ Alone(b) /\ Current(b) /\ UploadStep(b) /\ UNCHANGED <<held, req>>
  <2>1. /\ UNCHANGED <<held, req>> /\ held[u] \in Uploads
        /\ \A v \in Uploads \ {u} : SameWork(v)
        /\ \A c \in Uploads \ {held[u]} : box'[c] = box[c]
    BY <1>5, WorkElsewhere
  <2>2. Alone(b)
    BY <2>1 DEF Alone, Sole
  <2>3. Current(b)
    BY <1>5, WorkFrame DEF Current, Sid, sessionVars
  <2>4. CASE u # b
    <3>1. held[u] # b
      BY <2>2, <2>4 DEF Alone, Sole
    <3> QED BY <2>1, <2>2, <2>3, <2>4, <3>1
  <2> QED BY <1>5, <2>1, <2>2, <2>3, <2>4
<1>6. CASE UNCHANGED vars
  BY <1>1, <1>6 DEF vars, sessionVars, uploadVars, history, Current, Sid
<1> QED BY <1>2, <1>3, <1>4, <1>5, <1>6 DEF Next

\* A step that changes neither chunks nor what is done.
LEMMA SameChunks ==
  ASSUME IInv, NEW b \in Uploads, Searchable(b), pc[b] \in InFlight \cup {"ok"}, Current(b),
         box'[b].chunks = box[b].chunks, done'[b] = done[b],
         \A i \in 1 .. done[b] : parsed'[b][i] = parsed[b][i]
  PROVE  Searchable(b)'
<1>1. done[b] \in Nat
  BY DEF IInv, Typed
<1>2. ASSUME NEW i \in 1 .. done[b], LastDone(b, i)' PROVE LastDone(b, i)
  BY <1>1, <1>2 DEF LastDone
<1> QED BY <1>2 DEF Searchable, ChunksOfFile

LEMMA IngestIndexes ==
  ASSUME IInv, Said, Contents, NEW b \in Uploads, Alone(b), Current(b), Searchable(b),
         IngestNext(b), pc'[b] # "error"
  PROVE  Searchable(b)'
<1>1. PICK doc \in Documents :
        /\ done[b] + 1 \in 1 .. Len(parsed[b]) /\ doc = parsed[b][done[b] + 1]
        /\ UNCHANGED parsed /\ pc[b] = "ingesting"
        /\ box'[b] = Ingested(Filled(box[b], b, req[b].mod, doc), doc)
        /\ Fits(Filled(box[b], b, req[b].mod, doc), doc)
        /\ done'[b] = done[b] + 1
  BY IngestDoes DEF Alone
<1> DEFINE c == Filled(box[b], b, req[b].mod, doc)
<1>2. Boxed(box[b]) /\ req[b].mod \in Modules /\ done[b] \in Nat
  BY AloneFacts DEF Alone, Contents, IInv, Typed
<1>3. /\ Boxed(c)
      /\ \A x \in c.chunks : x[1] = doc.file => x \in Chunks(doc)
      /\ \A x : x[1] # doc.file => (x \in c.chunks <=> x \in box[b].chunks)
  BY <1>2, FilledBoxed
<1>4. Chunks(doc) \subseteq c.chunks
  BY <1>1 DEF Fits
<1> HIDE DEF c
<1>5. box'[b].chunks = c.chunks
  BY <1>1, <1>3, IngestedBoxed DEF c
<1>6. ASSUME NEW i \in 1 .. done'[b], LastDone(b, i)'
      PROVE  ChunksOfFile(b, parsed[b][i].file)' = Chunks(parsed[b][i])
  <2>1. CASE i = done[b] + 1
    <3>1. \A x \in Chunks(doc) : x[1] = doc.file
      BY DEF Chunks
    <3> QED BY <1>1, <1>3, <1>4, <1>5, <2>1, <3>1 DEF ChunksOfFile
  <2>2. CASE i # done[b] + 1
    <3>1. i \in 1 .. done[b] /\ parsed[b][i].file # doc.file /\ LastDone(b, i)
      BY <1>1, <1>2, <1>6, <2>2 DEF LastDone
    <3>2. ChunksOfFile(b, parsed[b][i].file) = Chunks(parsed[b][i])
      BY <1>1, <3>1 DEF Searchable, InFlight
    <3> QED BY <1>1, <1>3, <1>5, <3>1, <3>2 DEF ChunksOfFile
  <2> QED BY <2>1, <2>2
<1> QED BY <1>1, <1>6 DEF Searchable

LEMMA WorkIndexes ==
  ASSUME IInv, Said, Contents, NEW b \in Uploads, Alone(b), Current(b), Searchable(b),
         UploadStep(b)
  PROVE  Searchable(b)'
<1>1. pc[b] \in InFlight /\ Boxed(box[b]) /\ IsBox(box[b]) /\ held[b] = b
  BY WorkFrame, AloneFacts DEF Contents, Alone
<1>2. done[b] \in Nat /\ parsed[b] \in Seq(Documents \cup {None}) /\ done[b] <= Len(parsed[b])
  BY <1>1, HeldBox DEF IInv, Typed, Progress
<1>3. CASE ParseFile(b)
  <2>1. box' = box /\ done' = done /\ \E x : parsed'[b] = Append(parsed[b], x)
    BY <1>3 DEF ParseFile, IInv, Typed
  <2>2. \A i \in 1 .. done[b] : parsed'[b][i] = parsed[b][i]
    BY <1>2, <2>1
  <2> QED BY <1>1, <2>1, <2>2, SameChunks
<1>4. CASE ParseDone(b) \/ IngestDone(b)
  BY <1>1, <1>4, SameChunks DEF ParseDone, IngestDone
<1>5. CASE Pull(b)
  <2>1. box'[b].chunks = box[b].chunks /\ UNCHANGED <<parsed, done>>
    BY <1>1, <1>5, PullDoes, LoadProdBoxed
  <2> QED BY <1>1, <2>1, SameChunks
<1>6. CASE IngestNext(b)
  <2>1. CASE pc'[b] = "error"
    BY <2>1 DEF Searchable, InFlight
  <2> QED BY <1>6, <2>1, IngestIndexes
<1>7. CASE Resolve(b)
  <2>1. UNCHANGED <<parsed, done>>
    BY <1>7 DEF Resolve
  <2>2. ASSUME NEW ids \in SUBSET ProdIds, NEW to
        PROVE  Rewire(LoadProd(box[b], ids, {}), to).chunks = box[b].chunks
    <3>1. {} \in SUBSET (ids \X ids)
      OBVIOUS
    <3> DEFINE c == LoadProd(box[b], ids, {})
    <3>2. Boxed(c) /\ c.chunks = box[b].chunks
      BY <1>1, <3>1, LoadProdBoxed
    <3> HIDE DEF c
    <3>3. Rewire(c, to).chunks = c.chunks
      BY <3>2 DEF Rewire, Boxed, Box
    <3> QED BY <3>2, <3>3 DEF c
  <2>3. box'[b].chunks = box[b].chunks
    BY <1>1, <1>7, <2>2, ResolveDoes
  <2> QED BY <1>1, <2>1, <2>3, SameChunks
<1> QED BY <1>3, <1>4, <1>5, <1>6, <1>7 DEF UploadStep

LEMMA IndexedStep ==
  ASSUME IInv, Said, Contents, Indexed, [Next]_vars
  PROVE  Indexed'
<1> SUFFICES ASSUME NEW b \in Uploads, Alone(b)', Current(b)' PROVE Searchable(b)'
  BY DEF Indexed, Searchable
<1>1. CASE Alone(b) /\ Current(b) /\ SameWork(b) /\ box'[b] = box[b]
  BY <1>1 DEF Indexed, Searchable, SameWork, LastDone, ChunksOfFile
<1>2. CASE done'[b] = 0
  BY <1>2 DEF Searchable
<1>3. CASE Alone(b) /\ Current(b) /\ UploadStep(b) /\ UNCHANGED <<held, req>>
  BY <1>3, WorkIndexes DEF Indexed
<1> QED BY <1>1, <1>2, <1>3, CurrentStep

\* What an answered upload defines in a file, and nothing else, is what vector
\* search has of it, for all documents, limits and neighbors in the session.
THEOREM SearchHasUploads == Spec => []SearchHasTheUpload
<1>1. Init => Indexed
  <2>1. ASSUME Init PROVE \A b \in Uploads : ~Alone(b)
    BY <2>1, NoneAssumption DEF Init, Alone
  <2> QED BY <2>1 DEF Indexed
<1>2. IInv /\ Said /\ Sized /\ Indexed /\ [Next]_vars => Indexed'
  BY IndexedStep DEF Sized
<1>3. IInv /\ Indexed => SearchHasTheUpload
  <2> SUFFICES ASSUME IInv, Indexed, NEW u \in Uploads, pc[u] = "ok", Current(u), Sole(held[u]),
                      NEW i \in 1 .. Len(parsed[u]), LastOfFile(u, i)
               PROVE  {c \in box[held[u]].chunks : c[1] = parsed[u][i].file} = Chunks(parsed[u][i])
    BY DEF SearchHasTheUpload, Current
  <2>1. done[u] = Len(parsed[u]) /\ held[u] = u
    BY DEF IInv, Progressing, Progress, Sole
  <2>2. Alone(u) /\ LastDone(u, i)
    BY <2>1 DEF Alone, LastDone, LastOfFile
  <2>3. ChunksOfFile(u, parsed[u][i].file) = Chunks(parsed[u][i])
    BY <2>1, <2>2 DEF Indexed, Searchable
  <2> QED BY <2>1, <2>3 DEF ChunksOfFile
<1> QED BY <1>1, <1>2, <1>3, SizedInvariant, PTL DEF Spec

===============================================================================
