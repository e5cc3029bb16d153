--------------------------- MODULE SandboxUploads ---------------------------
(***************************************************************************)
(* The ephemeral sandbox: sandbox_upload, sandbox_clear and the sandbox     *)
(* part of session_end in mcp_server.py, SandboxManager, EphemeralGraph,    *)
(* EphemeralVectors and the SandboxAdapter of ephemeral_sandbox.py, for the *)
(* C sources of the iLLD workspace (the default).                           *)
(*                                                                         *)
(* An upload holds its sandbox object while it awaits the parser thread,    *)
(* the Neo4j pull and the boundary pull; between two awaits it runs alone   *)
(* on the event loop: while one is ingesting, no other handler step runs,   *)
(* though a parser thread may.  The temporary directory is shared by all    *)
(* uploads of one session id.                                               *)
(***************************************************************************)
EXTENDS Integers, Sequences, FiniteSets

CONSTANTS
  Sids,        \* session ids
  Uploads,     \* sandbox_upload requests
  Names,       \* function names
  Modules,     \* modules of the graph
  Targets,     \* the modules that uploads are filed under
  Unknown,     \* the module when none could be detected
  Files,       \* file names
  None,        \* no sandbox / no node / no file / no author
  ProdIds,     \* nodes of the production graph, <<name, module>>
  ProdFile,    \* source_file of each of them
  ProdCalls,   \* call edges of the production graph, pairs of ProdIds
  Batches,     \* what is parsed of an upload: sequences of documents; those that are
               \* empty, too large or outside the directory are skipped before
  Depths,      \* trace_depth values
  MaxChunks,   \* chunk limit of a sandbox
  MaxStarts,   \* bound: session_start per id
  MaxClears,   \* bound: sandbox_clear and session_end per id
  MaxExpiries  \* bound: sessions lost to their TTL

Ids == Names \X Modules
\* A document: its file and, for each function it defines, the names it calls.
Definitions == UNION {[D -> SUBSET Names] : D \in {E \in SUBSET Names : IsFiniteSet(E)}}
Documents == [file : Files, calls : Definitions]

ASSUME GraphAssumption ==
  /\ ProdIds \subseteq Ids
  /\ ProdFile \in [ProdIds -> Files]
  /\ ProdCalls \subseteq ProdIds \X ProdIds
ASSUME BatchAssumption ==
  /\ \A docs \in Batches : docs \in Seq(Documents) /\ docs # <<>>
  /\ Depths \subseteq {0, 1}
  /\ Targets \subseteq Modules
ASSUME BoundAssumption ==
  /\ MaxChunks \in Nat
  /\ MaxStarts \in Nat
  /\ MaxClears \in Nat
  /\ MaxExpiries \in Nat

VARIABLES
  live,      \* live[s]: number of the live session of id s, 0 when there is none
  starts,    \* sessions started under s so far
  clears,    \* destroy_sandbox calls for s so far
  expiries,  \* sessions lost to their TTL so far
  table,     \* SandboxManager._sandboxes: the upload that created the sandbox of s
  box,       \* box[u]: the sandbox object upload u created, or None
  tmp,       \* tmp[s][f]: the document in /tmp/sandbox_<s>/f
  pc,        \* pc[u]: what upload u is doing
  req,       \* req[u]: its session, module, depth and documents
  held,      \* held[u]: the sandbox object it works on
  parsed,    \* parsed[u]: the parser results so far; None for a failed parse
  done,      \* done[u]: the documents it has ingested
  names,     \* names[u]: the boundary names it is resolving
  opened,    \* opened[b]: the session number box b was created for (history)
  born,      \* born[u]: clears[s] when upload u was accepted (history)
  said       \* said[b][id]: the last document ingested into b that defines id (history)

sessionVars == <<live, starts, clears, expiries>>
uploadVars == <<pc, req, held, parsed, done, names>>
history == <<opened, born, said>>
vars == <<sessionVars, table, box, tmp, uploadVars, history>>

InFlight == {"parsing", "parsed", "pulling", "ingesting", "resolving"}
Steps == {"new", "ok", "error"} \cup InFlight

(***************************************************************************)
(* EphemeralGraph and EphemeralVectors                                     *)
(***************************************************************************)

Node == [origin : {"production"}, file : Files, text : {None}]
        \cup [origin : {"sandbox"}, file : Files, text : Uploads]
        \cup [origin : {"stub"}, file : {None}, text : {None}]
ASSUME NoneAssumption == None \notin Uploads \cup Files \cup Documents \cup Node
EmptyNodes == [id \in Ids |-> None]
EmptyBox == [active |-> TRUE, node |-> EmptyNodes, edges |-> {},
             chunks |-> {}, files |-> {}]
ClearedBox == [EmptyBox EXCEPT !.active = FALSE]

Defs(m, doc) == {<<n, m>> : n \in DOMAIN doc.calls}
Callees(m, doc) == UNION {{<<c, m>> : c \in doc.calls[n]} : n \in DOMAIN doc.calls}
CallEdges(m, doc) ==
  {e \in Defs(m, doc) \X Callees(m, doc) : e[2][1] \in doc.calls[e[1][1]] \ {e[1][1]}}
IsProd(b, id) == b.node[id] # None /\ b.node[id].origin = "production"

\* load_prod_nodes: add_node overwrites the attributes of a node that exists.
LoadProd(b, ids, rels) ==
  [b EXCEPT
     !.node = [id \in Ids |->
                 IF id \in ids
                 THEN [origin |-> "production", file |-> ProdFile[id], text |-> None]
                 ELSE b.node[id]],
     !.edges = @ \cup rels]

\* Variant: shadowing a production node leaves its call edges.
DefineKeepsCalls(b, u, m, doc) ==
  [b EXCEPT
     !.node = [id \in Ids |->
                 IF id \in Defs(m, doc)
                 THEN [origin |-> "sandbox", file |-> doc.file, text |-> u]
                 ELSE IF b.node[id] = None /\ \E e \in CallEdges(m, doc) : e[2] = id
                 THEN [origin |-> "stub", file |-> None, text |-> None]
                 ELSE b.node[id]],
     !.edges = @ \cup CallEdges(m, doc)]
\* Variant: the calls to the shadowed function are cleared as well.
DefineClearsBoth(b, u, m, doc) ==
  [DefineKeepsCalls(b, u, m, doc) EXCEPT
     !.edges = {e \in b.edges : \A i \in 1 .. 2 : ~(e[i] \in Defs(m, doc) /\ IsProd(b, e[i]))}
                 \cup CallEdges(m, doc)]
\* _ingest_c_illd, graph part: a production node of the same id is shadowed and
\* its call edges cleared; a callee the graph lacks becomes an Unknown stub.
Define(b, u, m, doc) ==
  [b EXCEPT
     !.node = [id \in Ids |->
                 IF id \in Defs(m, doc)
                 THEN [origin |-> "sandbox", file |-> doc.file, text |-> u]
                 ELSE IF b.node[id] = None /\ \E e \in CallEdges(m, doc) : e[2] = id
                 THEN [origin |-> "stub", file |-> None, text |-> None]
                 ELSE b.node[id]],
     !.edges = {e \in @ : ~(e[1] \in Defs(m, doc) /\ IsProd(b, e[1]))}
                 \cup CallEdges(m, doc)]

\* A chunk is the function of a file that it is about.
Chunks(doc) == {doc.file} \X DOMAIN doc.calls
\* Variant: the chunks are cleared, whatever file they are of.
OtherChunksCleared(b, doc) == {}
OtherChunks(b, doc) == {c \in b.chunks : c[1] # doc.file}
\* remove_by_metadata, then one add_chunks per function until the limit raises:
\* then the first ones of the file are in.
Embed(b, doc) ==
  LET others == OtherChunks(b, doc)
      room == MaxChunks - Cardinality(others)
  IN [b EXCEPT !.chunks = others \cup
        IF Cardinality(Chunks(doc)) <= room THEN Chunks(doc)
        ELSE CHOOSE first \in SUBSET Chunks(doc) : Cardinality(first) = room]
\* _remove_deleted_prod_nodes: production nodes of the file that the ingest did
\* not define again; their edges go with them.
DropDeleted(b, doc) ==
  LET gone == {id \in Ids : IsProd(b, id) /\ b.node[id].file = doc.file}
  IN [b EXCEPT !.node = [id \in Ids |-> IF id \in gone THEN None ELSE b.node[id]],
               !.edges = {e \in @ : e[1] \notin gone /\ e[2] \notin gone}]
\* What each id was last defined by, after document doc of upload u.
Saying(sd, u, m, doc) ==
  [id \in Ids |->
     IF id \in Defs(m, doc) THEN [by |-> u, file |-> doc.file, calls |-> doc.calls[id[1]]]
     ELSE IF sd[id] # None /\ sd[id].file = doc.file THEN None
     ELSE sd[id]]

\* ingest_parsed for one document, up to the chunk limit and after it.
Filled(b, u, m, doc) == Embed(Define(b, u, m, doc), doc)
Fits(b, doc) == Chunks(doc) \subseteq b.chunks
Ingested(b, doc) == [DropDeleted(b, doc) EXCEPT !.files = @ \cup {doc.file}]

StubNames(b) ==
  {id[1] : id \in {i \in Ids : b.node[i] # None /\ b.node[i].origin = "stub"}}

\* resolve_boundary: every remaining stub named n is replaced by to[n].
Rewire(b, to) ==
  LET stubs == {id \in Ids : b.node[id] # None /\ b.node[id].origin = "stub"
                              /\ id[1] \in DOMAIN to}
      moved(id) == IF id \in stubs THEN to[id[1]] ELSE id
  IN [b EXCEPT !.node = [id \in Ids |-> IF id \in stubs THEN None ELSE b.node[id]],
               !.edges = {<<moved(e[1]), moved(e[2])>> : e \in @}]

(***************************************************************************)
(* TraceabilityPuller                                                      *)
(***************************************************************************)

\* pull_neighbors for trace_depth 1: the named nodes of the module that have a
\* neighbor in it, and those neighbors.
Adjacent(a, id) == <<a, id>> \in ProdCalls \/ <<id, a>> \in ProdCalls
Pulled(m, ns) ==
  LET own == {id \in ProdIds : id[2] = m}
      named == {id \in own : id[1] \in ns}
  IN {a \in named : \E id \in own : Adjacent(a, id)}
       \cup {id \in own : \E a \in named : Adjacent(a, id)}
PulledCalls(m, ns) ==
  {e \in ProdCalls : /\ {e[1], e[2]} \subseteq Pulled(m, ns)
                     /\ e[1][1] \in ns \/ e[2][1] \in ns}

Init ==
  /\ live = [s \in Sids |-> 0]
  /\ starts = [s \in Sids |-> 0]
  /\ clears = [s \in Sids |-> 0]
  /\ expiries = 0
  /\ table = [s \in Sids |-> None]
  /\ box = [u \in Uploads |-> None]
  /\ tmp = [s \in Sids |-> [f \in Files |-> None]]
  /\ pc = [u \in Uploads |-> "new"]
  /\ req = [u \in Uploads |-> None]
  /\ held = [u \in Uploads |-> None]
  /\ parsed = [u \in Uploads |-> <<>>]
  /\ done = [u \in Uploads |-> 0]
  /\ names = [u \in Uploads |-> {}]
  /\ opened = [u \in Uploads |-> 0]
  /\ born = [u \in Uploads |-> 0]
  /\ said = [u \in Uploads |-> EmptyNodes]

(***************************************************************************)
(* Sessions                                                                *)
(***************************************************************************)

NoFiles == [f \in Files |-> None]
LoopFree == \A u \in Uploads : pc[u] # "ingesting"

SessionStart(s) ==
  /\ LoopFree
  /\ live[s] = 0
  /\ starts[s] < MaxStarts
  /\ starts' = [starts EXCEPT ![s] = @ + 1]
  /\ live' = [live EXCEPT ![s] = starts'[s]]
  /\ UNCHANGED <<clears, expiries, table, box, tmp, uploadVars, history>>

\* The TTL runs out: the session is gone, nothing else happens.
Expire(s) ==
  /\ LoopFree
  /\ live[s] # 0
  /\ expiries < MaxExpiries
  /\ expiries' = expiries + 1
  /\ live' = [live EXCEPT ![s] = 0]
  /\ UNCHANGED <<starts, clears, table, box, tmp, uploadVars, history>>

\* Variant: the object is emptied and stays in the table.
DestroyKeepsEntry(s) ==
  /\ clears[s] < MaxClears
  /\ clears' = [clears EXCEPT ![s] = @ + 1]
  /\ UNCHANGED table
  /\ IF table[s] = None THEN UNCHANGED <<box, said>>
     ELSE /\ box' = [box EXCEPT ![table[s]] = EmptyBox]
          /\ said' = [said EXCEPT ![table[s]] = EmptyNodes]
\* destroy_sandbox: taken out of the table and emptied.
Destroy(s) ==
  /\ clears[s] < MaxClears
  /\ clears' = [clears EXCEPT ![s] = @ + 1]
  /\ table' = [table EXCEPT ![s] = None]
  /\ IF table[s] = None THEN UNCHANGED <<box, said>>
     ELSE /\ box' = [box EXCEPT ![table[s]] = ClearedBox]
          /\ said' = [said EXCEPT ![table[s]] = EmptyNodes]

\* Variant: session_end forgets the sandbox.
SessionEndOnly(s) ==
  /\ LoopFree
  /\ live[s] # 0
  /\ live' = [live EXCEPT ![s] = 0]
  /\ tmp' = [tmp EXCEPT ![s] = NoFiles]
  /\ UNCHANGED <<starts, clears, expiries, table, box, uploadVars, history>>
SessionEnd(s) ==
  /\ LoopFree
  /\ Destroy(s)
  /\ live' = [live EXCEPT ![s] = 0]
  /\ tmp' = [tmp EXCEPT ![s] = NoFiles]
  /\ UNCHANGED <<starts, expiries, uploadVars, opened, born>>

SandboxClear(s) ==
  /\ LoopFree
  /\ Destroy(s)
  /\ UNCHANGED <<live, starts, expiries, tmp, uploadVars, opened, born>>

(***************************************************************************)
(* sandbox_upload                                                          *)
(***************************************************************************)

Requests == [sid : Sids, mod : Targets, depth : Depths, docs : Batches]
Sid(u) == req[u].sid
Docs(u) == req[u].docs
Traced(u) == req[u].depth > 0
ParsedNames(u) == UNION {DOMAIN parsed[u][i].calls : i \in 1 .. Len(parsed[u])}
Written(s, doc) == [tmp EXCEPT ![s][doc.file] = doc]

\* create_sandbox, upload u having passed the session check for id s.
\* Variant: every upload gets a new sandbox.
OpenBoxAlwaysNew(u, s) ==
  /\ held' = [held EXCEPT ![u] = u]
  /\ box' = [box EXCEPT ![u] = EmptyBox]
  /\ opened' = [opened EXCEPT ![u] = live[s]]
  /\ table' = [table EXCEPT ![s] = u]
OpenBox(u, s) ==
  IF table[s] # None /\ box[table[s]].active
  THEN /\ held' = [held EXCEPT ![u] = table[s]]
       /\ UNCHANGED <<table, box, opened>>
  ELSE /\ held' = [held EXCEPT ![u] = u]
       /\ box' = [box EXCEPT ![u] = EmptyBox]
       /\ opened' = [opened EXCEPT ![u] = live[s]]
       /\ table' = [table EXCEPT ![s] = u]

Upload(u, r) ==
  /\ LoopFree
  /\ pc[u] = "new"
  /\ req' = [req EXCEPT ![u] = r]
  /\ born' = [born EXCEPT ![u] = clears[r.sid]]
  /\ IF live[r.sid] = 0
     THEN /\ pc' = [pc EXCEPT ![u] = "error"]
          /\ UNCHANGED <<table, box, tmp, held, opened>>
     ELSE /\ OpenBox(u, r.sid)
          /\ tmp' = Written(r.sid, r.docs[1])
          /\ pc' = [pc EXCEPT ![u] = "parsing"]
  /\ UNCHANGED <<sessionVars, parsed, done, names, said>>

\* Variant: the thread waits for the file.
ParseFileWhenThere(u) ==
  /\ pc[u] = "parsing"
  /\ tmp[Sid(u)][Docs(u)[Len(parsed[u]) + 1].file] # None
  /\ parsed' = [parsed EXCEPT ![u] =
                  Append(@, tmp[Sid(u)][Docs(u)[Len(parsed[u]) + 1].file])]
  /\ pc' = [pc EXCEPT ![u] = "parsed"]
  /\ UNCHANGED <<sessionVars, table, box, tmp, req, held, done, names, history>>
\* The parser thread reads the file; a missing file is an exception.
ParseFile(u) ==
  /\ pc[u] = "parsing"
  /\ parsed' = [parsed EXCEPT ![u] =
                  Append(@, tmp[Sid(u)][Docs(u)[Len(parsed[u]) + 1].file])]
  /\ pc' = [pc EXCEPT ![u] = "parsed"]
  /\ UNCHANGED <<sessionVars, table, box, tmp, req, held, done, names, history>>

\* The handler returns; finally: rmtree of the session's directory.
Answer(u, answer) ==
  /\ pc' = [pc EXCEPT ![u] = answer]
  /\ tmp' = [tmp EXCEPT ![Sid(u)] = NoFiles]

\* The loop goes on after a parse: an exception, the next document, the pull,
\* or, when there is nothing to pull, ingestion.
ParseDone(u) ==
  /\ LoopFree
  /\ pc[u] = "parsed"
  /\ LET n == Len(parsed[u])
         last == n = Len(Docs(u))
         unfit == parsed[u][n] = None \/ (last /\ Traced(u) /\ req[u].mod = Unknown)
         pulls == Traced(u) /\ ParsedNames(u) # {}
     IN \/ unfit /\ Answer(u, "error")
        \/ /\ ~unfit /\ ~last
           /\ tmp' = Written(Sid(u), Docs(u)[n + 1])
           /\ pc' = [pc EXCEPT ![u] = "parsing"]
        \/ /\ ~unfit /\ last
           /\ pc' = [pc EXCEPT ![u] = IF pulls THEN "pulling" ELSE "ingesting"]
           /\ UNCHANGED tmp
  /\ UNCHANGED <<sessionVars, table, box, req, held, parsed, done, names, history>>

\* The pull returns, with nothing when Neo4j failed.
Pull(u) ==
  /\ LoopFree
  /\ pc[u] = "pulling"
  /\ \/ box' = [box EXCEPT ![held[u]] =
                  LoadProd(@, Pulled(req[u].mod, ParsedNames(u)),
                           PulledCalls(req[u].mod, ParsedNames(u)))]
     \/ UNCHANGED box
  /\ pc' = [pc EXCEPT ![u] = "ingesting"]
  /\ UNCHANGED <<sessionVars, table, tmp, req, held, parsed, done, names, history>>

\* The next document goes into the held sandbox; the chunk limit is an exception.
IngestNext(u) ==
  /\ pc[u] = "ingesting"
  /\ done[u] < Len(parsed[u])
  /\ LET doc == parsed[u][done[u] + 1]
         b == Filled(box[held[u]], u, req[u].mod, doc)
     IN IF Fits(b, doc)
        THEN /\ box' = [box EXCEPT ![held[u]] = Ingested(b, doc)]
             /\ done' = [done EXCEPT ![u] = @ + 1]
             /\ UNCHANGED <<pc, tmp>>
        ELSE /\ box' = [box EXCEPT ![held[u]] = b]
             /\ Answer(u, "error")
             /\ UNCHANGED done
  /\ said' = [said EXCEPT ![held[u]] =
                Saying(@, u, req[u].mod, parsed[u][done[u] + 1])]
  /\ UNCHANGED <<sessionVars, table, req, held, parsed, names, opened, born>>

\* All documents are in: look up the boundary names, or answer.
IngestDone(u) ==
  /\ pc[u] = "ingesting"
  /\ done[u] = Len(parsed[u])
  /\ IF Traced(u) /\ StubNames(box[held[u]]) # {}
     THEN /\ names' = [names EXCEPT ![u] = StubNames(box[held[u]])]
          /\ pc' = [pc EXCEPT ![u] = "resolving"]
          /\ UNCHANGED tmp
     ELSE /\ Answer(u, "ok")
          /\ UNCHANGED names
  /\ UNCHANGED <<sessionVars, table, box, req, held, parsed, done, history>>

\* Variant: the boundary pull loads the neighbors of the upload once more.
ResolveAgain(u) ==
  /\ LoopFree
  /\ pc[u] = "resolving"
  /\ box' = [box EXCEPT ![held[u]] =
               LoadProd(@, Pulled(req[u].mod, ParsedNames(u)), {})]
  /\ Answer(u, "ok")
  /\ UNCHANGED <<sessionVars, table, req, held, parsed, done, names, history>>
\* The boundary pull returns the production nodes of those names, or nothing.
Resolve(u) ==
  /\ LoopFree
  /\ pc[u] = "resolving"
  /\ LET found == {id \in ProdIds : id[1] \in names[u]} IN
     \/ \E to \in [{id[1] : id \in found} -> found] :
          /\ \A n \in DOMAIN to : to[n][1] = n
          /\ box' = [box EXCEPT ![held[u]] = Rewire(LoadProd(@, found, {}), to)]
     \/ UNCHANGED box
  /\ Answer(u, "ok")
  /\ UNCHANGED <<sessionVars, table, req, held, parsed, done, names, history>>

UploadStep(u) ==
  \/ ParseFile(u)
  \/ ParseDone(u)
  \/ Pull(u)
  \/ IngestNext(u)
  \/ IngestDone(u)
  \/ Resolve(u)

Next ==
  \/ \E s \in Sids : SessionStart(s)
  \/ \E s \in Sids : Expire(s)
  \/ \E s \in Sids : SessionEnd(s)
  \/ \E s \in Sids : SandboxClear(s)
  \/ \E u \in Uploads, r \in Requests : Upload(u, r)
  \/ \E u \in Uploads : UploadStep(u)

Spec == Init /\ [][Next]_vars

\* Parser threads and Neo4j calls return, and the event loop resumes handlers.
FairSpec == Spec /\ \A u \in Uploads : WF_vars(UploadStep(u))

(***************************************************************************)
(* Properties                                                              *)
(***************************************************************************)

Box == [active : BOOLEAN, node : [Ids -> Node \cup {None}], edges : SUBSET (Ids \X Ids),
        chunks : {C \in SUBSET (Files \X Names) : IsFiniteSet(C)}, files : SUBSET Files]
Author == [by : Uploads, file : Files, calls : SUBSET Names]

\* Type correctness of every variable; a busy upload has a request and a box.
TypeOK ==
  /\ live \in [Sids -> Nat]
  /\ starts \in [Sids -> Nat]
  /\ clears \in [Sids -> Nat]
  /\ expiries \in Nat
  /\ table \in [Sids -> Uploads \cup {None}]
  /\ box \in [Uploads -> Box \cup {None}]
  /\ tmp \in [Sids -> [Files -> Documents \cup {None}]]
  /\ pc \in [Uploads -> Steps]
  /\ req \in [Uploads -> Requests \cup {None}]
  /\ held \in [Uploads -> Uploads \cup {None}]
  /\ parsed \in [Uploads -> Seq(Documents \cup {None})]
  /\ done \in [Uploads -> Nat]
  /\ names \in [Uploads -> SUBSET Names]
  /\ opened \in [Uploads -> Nat]
  /\ born \in [Uploads -> Nat]
  /\ said \in [Uploads -> [Ids -> Author \cup {None}]]

\* session_end and sandbox_clear free the sandbox for good: nothing an upload
\* accepted before them ever shows in the sandbox that the session id leads to,
\* however long that upload goes on (sandbox_clear: "Frees all ephemeral KG and
\* vector data").
DestroyedStaysHidden ==
  \A s \in Sids, id \in Ids :
    table[s] # None /\ box[table[s]].node[id] # None
      /\ box[table[s]].node[id].origin = "sandbox" =>
        LET u == box[table[s]].node[id].text IN req[u].sid = s /\ born[u] = clears[s]

\* A live session sees no sandbox of an earlier session of its id
\* (DOCUMENTATION.md 8.4: "Automatic on session TTL expiry"), unless one
\* expired: session_end destroys the sandbox, expiry leaves it.
SandboxOfLiveSession ==
  \A s \in Sids :
    expiries = 0 /\ table[s] # None /\ live[s] # 0 => opened[table[s]] = live[s]

\* An upload answered ok is loaded where the session looks, until a destroy.
AnsweredIsLoaded ==
  \A u \in Uploads :
    pc[u] = "ok" /\ born[u] = clears[Sid(u)] =>
      /\ table[Sid(u)] = held[u]
      /\ \A i \in 1 .. Len(Docs(u)) : Docs(u)[i].file \in box[held[u]].files

\* No temporary file outlives the uploads of its session.
NoTempFilesLeft ==
  \A s \in Sids :
    (\A u \in Uploads : pc[u] \in InFlight => Sid(u) # s) => tmp[s] = NoFiles

\* Loading, shadowing, deletion and boundary resolution leave no edge without
\* its two nodes.
EdgesHaveNodes ==
  \A u \in Uploads : box[u] # None =>
    \A e \in box[u].edges : box[u].node[e[1]] # None /\ box[u].node[e[2]] # None

\* No other upload has used the sandbox b than the one that opened it.
Sole(b) == \A u \in Uploads : held[u] = b => u = b

\* A function stays as the last uploaded document that defines it says, as the
\* developer's version of it ("A sandbox function should shadow a prod function"),
\* whatever the loads, shadowing and boundary pull of that upload do in between.
EditsStand ==
  \A s \in Sids, id \in Ids :
    table[s] # None /\ Sole(table[s]) /\ said[table[s]][id] # None =>
      LET x == box[table[s]].node[id]
      IN x # None /\ x.origin = "sandbox" /\ x.text = said[table[s]][id].by

\* However an upload pulls, shadows, deletes and rewires, no function keeps a
\* call that the document defining it no longer makes ("When a function is
\* re-uploaded, old CALLS_INTERNALLY edges should be cleared").
CallsAreCurrent ==
  \A s \in Sids, id \in Ids :
    table[s] # None /\ Sole(table[s]) /\ said[table[s]][id] # None =>
      \A e \in box[table[s]].edges :
        e[1] = id => e[2][1] \in said[table[s]][id].calls

\* Whatever a sandbox takes in, again or in part, by however many uploads, it
\* never has more chunks than its limit (memory-layer.md: "Max chunks per
\* session").
ChunksWithinLimit ==
  \A b \in Uploads : box[b] # None => Cardinality(box[b].chunks) <= MaxChunks

\* Document i is the last that upload u has of its file.
LastOfFile(u, i) ==
  \A j \in i + 1 .. Len(parsed[u]) : parsed[u][j].file # parsed[u][i].file
\* What vector search has of a file is what the answered upload defines in it,
\* all of it and nothing of an earlier document of the file, until a destroy or
\* another upload to the sandbox.
SearchHasTheUpload ==
  \A u \in Uploads :
    pc[u] = "ok" /\ born[u] = clears[Sid(u)] /\ Sole(held[u]) =>
      \A i \in 1 .. Len(parsed[u]) : LastOfFile(u, i) =>
        {c \in box[held[u]].chunks : c[1] = parsed[u][i].file} = Chunks(parsed[u][i])

\* Every upload is answered.
UploadsAnswered ==
  \A u \in Uploads : pc[u] \in InFlight ~> pc[u] \in {"ok", "error"}
=============================================================================
