------------------------------ MODULE GraphBuild ------------------------------
(***************************************************************************)
(* The source and register (SFR) builders of build_knowledge_graph.py with   *)
(* the IncrementalTracker: what one run after the other leaves in Neo4j.     *)
(*                                                                         *)
(* A run parses all its files, then hashes them and compares the hashes with  *)
(* those stamped on the file nodes.  It stops when nothing changed; otherwise *)
(* it deletes what hangs on changed and deleted files, writes all nodes and   *)
(* relationships and stamps the hashes.  Every step is a transaction of its   *)
(* own: the program may die between two of them.  The runs of one pipeline    *)
(* follow one another (run_pipeline.main), files change at any time.         *)
(*                                                                         *)
(* A file's content is the set of names it defines, and its own hash.         *)
(***************************************************************************)
EXTENDS Integers, FiniteSets

CONSTANTS
  Modules,
  Projects,      \* --project: A3G, RC1
  Functions,     \* names of functions
  Registers,     \* names of registers
  SourceFiles,   \* ids of .c and .h files
  SfrFiles,      \* ids of register definition headers
  ModuleOf,      \* the module of a file
  ProjectOf,     \* the project in the id of a source file
  Uses,          \* <<caller, name>>: calls and register accesses in function bodies
  Contents,      \* what may stand in a file
  NoFile,        \* not on disk
  NoNode,        \* no file node
  NoHash,        \* a file node without _content_hash
  MayForce,      \* whether runs may be given --force
  MaxEdits,      \* bound: changes of files
  MaxCrashes     \* bound: runs that die

Files == SourceFiles \cup SfrFiles
Names == Functions \cup Registers
Elements == Files \X Names

ASSUME FilesAssumption ==
  /\ Modules # {} /\ Projects # {}
  /\ SourceFiles \cap SfrFiles = {}
  /\ ModuleOf \in [Files -> Modules]
  /\ ProjectOf \in [Files -> Projects]
  /\ \A f, g \in SfrFiles : ModuleOf[f] = ModuleOf[g] => f = g  \* of one device
ASSUME ContentsAssumption ==
  /\ Contents \in [Files -> SUBSET SUBSET Names]
  /\ \A f \in SourceFiles : Contents[f] \subseteq SUBSET Functions
  /\ \A f \in SfrFiles : Contents[f] \subseteq SUBSET Registers
  /\ Uses \subseteq Names \X Names
ASSUME BoundsAssumption ==
  MayForce \in BOOLEAN /\ MaxEdits \in Nat /\ MaxCrashes \in Nat
ASSUME NoAssumption ==
  /\ \A content \in SUBSET Names : content \notin {NoFile, NoNode, NoHash}
  /\ NoNode # NoHash

VARIABLES
  disk,       \* disk[f]: content of file f
  stamp,      \* stamp[f]: the hash on the node of f
  elements,   \* function and register nodes
  definedIn,  \* SRC_DEFINED_IN and SFR_DEFINED_IN
  uses,       \* SRC_CALLS and SRC_ACCESSES_SFR
  accessing,  \* function nodes with register_accesses
  run,        \* the builder that is running
  disturbed,  \* builds cut short, or whose files changed under them (history)
  layered,    \* files rebuilt without deleting what hung on them, or linked and
              \* not stamped, or changed under a run, until built anew (history)
  orphaned,   \* files with functions or registers that may hang on no file (history)
  edits, crashes

graph == <<stamp, elements, definedIn, uses, accessing>>
history == <<disturbed, layered, orphaned>>
vars == <<disk, graph, run, history, edits, crashes>>

Kinds == {"source", "sfr"}
OfKind(k) == IF k = "source" THEN SourceFiles ELSE SfrFiles
\* The files a run reads.  Ids of register headers hold no project.
Scope(k, m, p) == {f \in OfKind(k) : ModuleOf[f] = m /\ (k = "source" => ProjectOf[f] = p)}

Nothing == [f \in Files |-> NoFile]
Idle == [at |-> "idle", kind |-> "source", mod |-> CHOOSE m \in Modules : TRUE,
         proj |-> CHOOSE p \in Projects : TRUE, force |-> FALSE, clean |-> TRUE,
         parsed |-> Nothing, stale |-> {}, hashes |-> Nothing, known |-> {}]

Init ==
  /\ disk \in {d \in [Files -> {NoFile} \cup UNION {Contents[f] : f \in Files}] :
                 \A f \in Files : d[f] \in {NoFile} \cup Contents[f]}
  /\ stamp = [f \in Files |-> NoNode]
  /\ elements = {}
  /\ definedIn = {}
  /\ uses = {}
  /\ accessing = {}
  /\ run = Idle
  /\ disturbed = {}
  /\ layered = {} /\ orphaned = {}
  /\ edits = 0
  /\ crashes = 0

(***************************************************************************)
(* IncrementalTracker                                                      *)
(***************************************************************************)

OnDisk(fs) == {f \in fs : disk[f] # NoFile}
Stamped(k, m) == {f \in OfKind(k) : ModuleOf[f] = m /\ stamp[f] \notin {NoNode, NoHash}}

\* _plan_files compares the files it can read with every stamp of the
\* module, whichever project it belongs to.
Changed(fs) == {f \in OnDisk(fs) : stamp[f] # disk[f]}
Unchanged(fs) == {f \in OnDisk(fs) : stamp[f] = disk[f]}
Deleted(k, m, fs) == Stamped(k, m) \ OnDisk(fs)
NoChanges(k, m, fs) == Changed(fs) = {} /\ Deleted(k, m, fs) = {}
IsFirstRun(k, m, fs) == Unchanged(fs) = {} /\ Deleted(k, m, fs) = {}

\* DETACH DELETE of functions and registers and of files.
DetachDelete(gone, files) ==
  /\ elements' = elements \ gone
  /\ stamp' = [f \in Files |-> IF f \in files THEN NoNode ELSE stamp[f]]
  /\ definedIn' = {d \in definedIn : d[1] \notin gone /\ d[2] \notin files}
  /\ uses' = {u \in uses : u[1] \notin gone /\ u[2] \notin gone}
  /\ accessing' = accessing \ gone

(***************************************************************************)
(* One run                                                                 *)
(***************************************************************************)

Target == <<run.kind, run.mod, run.proj>>
Parsed == {f \in Files : run.parsed[f] # NoFile}
Found == {e \in Elements : e[1] \in Parsed /\ e[2] \in run.parsed[e[1]]}
Known(fs) == {f \in fs : stamp[f] # NoNode}
\* What was parsed is in the graph, not yet hanging on its files; then it hangs on
\* them, and their stamps are still those of before.
Unlinked == run.at \in {"cross", "link"}
Linked == run.at \in {"drop", "uses", "stamp"}
Go(step) == run' = [run EXCEPT !.at = step]
End == run' = Idle

Start(k, m, p, force) ==
  LET fs == OnDisk(Scope(k, m, p)) IN
  /\ run = Idle
  /\ k = "source" => fs # {}
  /\ force => MayForce
  /\ run' = [Idle EXCEPT !.at = "plan", !.kind = k, !.mod = m, !.proj = p, !.force = force,
                         !.parsed = [f \in Files |-> IF f \in fs THEN disk[f] ELSE NoFile]]
  /\ UNCHANGED <<disk, graph, history, edits, crashes>>

Skip ==
  /\ run.at = "plan" /\ ~run.force
  /\ NoChanges(run.kind, run.mod, Parsed)
  /\ End
  /\ UNCHANGED <<disk, graph, history, edits, crashes>>

Plan ==
  LET changed == Changed(Parsed)
      deleted == Deleted(run.kind, run.mod, Parsed)
      first == IsFirstRun(run.kind, run.mod, Parsed)
  IN
  /\ run.at = "plan" /\ ~run.force
  /\ ~NoChanges(run.kind, run.mod, Parsed)
  /\ run' = [run EXCEPT
               !.at = IF first THEN "hash" ELSE "children",
               !.stale = IF first THEN {} ELSE changed \cup deleted,
               !.hashes = [f \in Files |-> IF f \in changed THEN disk[f] ELSE NoFile]]
  /\ disturbed' = disturbed \cup {Target}
  /\ layered' = IF first THEN layered \cup Known(Parsed) ELSE layered
  /\ UNCHANGED <<disk, graph, orphaned, edits, crashes>>

\* --force compares nothing and deletes nothing.  When files have disappeared
\* since, it drops the relationships of their functions but not the functions,
\* which counts as disturbed.
PlanForced ==
  /\ run.at = "plan" /\ run.force
  /\ run' = [run EXCEPT !.at = "hash",
                         !.clean = @ /\ Deleted(run.kind, run.mod, Parsed) = {}]
  /\ disturbed' = disturbed \cup {Target}
  /\ layered' = layered \cup Known(Parsed)
  /\ UNCHANGED <<disk, graph, orphaned, edits, crashes>>

\* Variant: only what is defined in files that are gone.
DeleteChildrenOfGone ==
  /\ run.at = "children"
  /\ DetachDelete({e \in elements : \E f \in run.stale \ Parsed : <<e, f>> \in definedIn}, {})
  /\ Go("files")
  /\ UNCHANGED <<disk, history, edits, crashes>>

\* cascade_delete_source and cascade_delete_sfr: first what is defined in the
\* stale files of the module, then their nodes.
DeleteChildren ==
  /\ run.at = "children"
  /\ DetachDelete({e \in elements : \E f \in run.stale : <<e, f>> \in definedIn}, {})
  /\ Go("files")
  /\ UNCHANGED <<disk, history, edits, crashes>>

DeleteFiles ==
  /\ run.at = "files"
  /\ DetachDelete({}, run.stale)
  /\ Go("hash")
  /\ UNCHANGED <<disk, history, edits, crashes>>

\* The files that did not count as changed are hashed once more; one that is
\* gone by now raises.
HashRest ==
  /\ run.at = "hash"
  /\ LET rest == {f \in Parsed : run.hashes[f] = NoFile} IN
     IF rest \subseteq OnDisk(Files)
     THEN run' = [run EXCEPT !.at = "nodes",
                             !.hashes = [f \in Files |-> IF f \in rest THEN disk[f] ELSE @[f]]]
     ELSE End
  /\ UNCHANGED <<disk, graph, history, edits, crashes>>

CreateNodes ==
  /\ run.at = "nodes"
  /\ stamp' = [f \in Files |-> IF f \in Parsed /\ stamp[f] = NoNode THEN NoHash ELSE stamp[f]]
  /\ elements' = elements \cup Found
  /\ run' = [run EXCEPT !.at = IF run.kind = "sfr" THEN "cross" ELSE "link", !.known = Found]
  /\ UNCHANGED <<disk, definedIn, uses, accessing, history, edits, crashes>>

InModule(m) == {e \in elements : ModuleOf[e[1]] = m}
FunctionsOf(m) == {e \in InModule(m) : e[1] \in SourceFiles}
RegisterNodes == {e \in elements : e[1] \in SfrFiles}

\* _ingest_cross_module_sfrs: the headers of other modules whose registers this
\* module's functions access.  Registers that are there are only looked up.
IngestCrossModule ==
  LET accessed == {n \in Registers : \E e \in FunctionsOf(run.mod) \cap accessing :
                                        <<e[2], n>> \in Uses}
      others == {f \in OnDisk(SfrFiles) : /\ ModuleOf[f] # run.mod
                                          /\ disk[f] \cap accessed # {}}
      absent == {f \in others : RegisterNodes \cap InModule(ModuleOf[f]) = {}}
      new == {e \in Elements : e[1] \in absent /\ e[2] \in disk[e[1]]}
      old == {e \in RegisterNodes : \E f \in others \ absent : ModuleOf[f] = ModuleOf[e[1]]}
  IN
  /\ run.at = "cross"
  /\ elements' = elements \cup new
  /\ stamp' = [f \in Files |-> IF f \in absent /\ stamp[f] = NoNode THEN NoHash ELSE stamp[f]]
  /\ run' = [run EXCEPT !.at = "link", !.known = @ \cup new \cup old]
  /\ orphaned' = orphaned \cup absent
  /\ UNCHANGED <<disk, definedIn, uses, accessing, disturbed, layered, edits, crashes>>

\* A function is linked to its file; every register the run knows of, those
\* of other modules included, to the header of this module.
CreateDefinedIn ==
  /\ run.at = "link"
  /\ definedIn' = definedIn \cup
       {d \in (run.known \cap elements) \X {f \in Parsed : stamp[f] # NoNode} :
          run.kind = "source" => d[2] = d[1][1]}
  /\ Go("drop")
  /\ UNCHANGED <<disk, stamp, elements, uses, accessing, history, edits, crashes>>

Callees(e) ==
  LET names == {x[2] : x \in run.known}
      own == {c \in FunctionsOf(run.mod) : ProjectOf[c[1]] = run.proj /\ c[2] \in names}
      foreign == {c \in elements : /\ c[1] \in SourceFiles /\ ModuleOf[c[1]] # run.mod
                                   /\ c[2] \notin names}
  IN {c \in own \cup foreign : <<e[2], c[2]>> \in Uses}
Accessed(e) == {r \in RegisterNodes : <<e[2], r[2]>> \in Uses}
AccessesRegisters(e) == \E n \in Registers : <<e[2], n>> \in Uses
FoundAccesses == \E e \in Found : AccessesRegisters(e)
NoteAccesses ==
  accessing' = accessing \cup
    {e \in Found \cap elements : run.kind = "source" /\ AccessesRegisters(e)}

\* The relationships of the module's functions are removed before they are
\* written again: all of them by the source builder (the accesses only when it
\* has found any), the accesses by the register builder.
DropUses ==
  LET callers == {e \in FunctionsOf(run.mod) : run.kind = "source" => ProjectOf[e[1]] = run.proj}
  IN
  /\ run.at = "drop"
  /\ uses' = {u \in uses : \/ u[1] \notin callers
                           \/ u[2][1] \in SourceFiles /\ run.kind = "sfr"
                           \/ u[2][1] \in SfrFiles /\ run.kind = "source" /\ ~FoundAccesses}
  /\ Go("uses")
  /\ UNCHANGED <<disk, stamp, elements, definedIn, accessing, history, edits, crashes>>

\* Variant: only for the functions of changed files.
SourceUsesOfStale ==
  UNION {{e} \X (Callees(e) \cup Accessed(e)) :
           e \in {x \in Found \cap elements : run.stale = {} \/ x[1] \in run.stale}}

\* The source builder links the functions it has parsed, the register builder
\* those in the graph that have accesses, to the registers it knows.
SourceUses == UNION {{e} \X (Callees(e) \cup Accessed(e)) : e \in Found \cap elements}
SfrUses == UNION {{e} \X {r \in Accessed(e) : \E x \in run.known : x[2] = r[2]} :
                    e \in FunctionsOf(run.mod) \cap accessing}

CreateUses ==
  /\ run.at = "uses"
  /\ \/ run.kind = "source" /\ uses' = uses \cup SourceUses
     \/ run.kind = "sfr" /\ uses' = uses \cup SfrUses
  /\ NoteAccesses
  /\ Go("stamp")
  /\ UNCHANGED <<disk, stamp, elements, definedIn, history, edits, crashes>>

\* stamp_source and stamp_sfr, at the very end.
Stamp ==
  /\ run.at = "stamp"
  /\ stamp' = [f \in Files |-> IF f \in Parsed /\ stamp[f] # NoNode
                               THEN run.hashes[f] ELSE stamp[f]]
  /\ disturbed' = IF run.clean THEN disturbed \ {Target} ELSE disturbed
  /\ layered' = IF run.clean THEN layered \ run.stale ELSE layered
  /\ UNCHANGED orphaned
  /\ End
  /\ UNCHANGED <<disk, elements, definedIn, uses, accessing, edits, crashes>>

Crash ==
  /\ run # Idle
  /\ crashes < MaxCrashes
  /\ crashes' = crashes + 1
  /\ layered' = IF Linked THEN layered \cup Parsed ELSE layered
  /\ orphaned' = IF Unlinked THEN orphaned \cup Parsed ELSE orphaned
  /\ End
  /\ UNCHANGED <<disk, graph, disturbed, edits>>

(***************************************************************************)
(* Around the builders                                                     *)
(***************************************************************************)

\* A file is created, changed or removed.
Edit(f, content) ==
  /\ edits < MaxEdits
  /\ disk[f] # content
  /\ disk' = [disk EXCEPT ![f] = content]
  /\ edits' = edits + 1
  /\ run' = [run EXCEPT !.clean = @ /\ f \notin Parsed]
  /\ layered' = IF f \in Parsed THEN layered \cup {f} ELSE layered
  /\ UNCHANGED <<graph, disturbed, orphaned, crashes>>

\* The Jama builder with --clear: _do_clear_module.
ClearModule(m) ==
  /\ run = Idle
  /\ DetachDelete(InModule(m), {f \in Files : ModuleOf[f] = m})
  /\ layered' = {f \in layered : ModuleOf[f] # m}
  /\ orphaned' = {f \in orphaned : ModuleOf[f] # m}
  /\ UNCHANGED <<disk, run, disturbed, edits, crashes>>

RunStep ==
  \/ Skip \/ Plan \/ PlanForced \/ DeleteChildren \/ DeleteFiles \/ HashRest
  \/ CreateNodes \/ IngestCrossModule \/ CreateDefinedIn \/ DropUses \/ CreateUses \/ Stamp
Next ==
  \/ \E k \in Kinds, m \in Modules, p \in Projects, force \in BOOLEAN : Start(k, m, p, force)
  \/ RunStep
  \/ Crash
  \/ \E f \in Files : \E c \in Contents[f] \cup {NoFile} : Edit(f, c)
  \/ \E m \in Modules : ClearModule(m)

Spec == Init /\ [][Next]_vars

(***************************************************************************)
(* Properties                                                              *)
(***************************************************************************)

Steps == {"idle", "plan", "children", "files", "hash", "nodes", "cross", "link", "drop",
          "uses", "stamp"}
IsContents(d, none) ==
  /\ DOMAIN d = Files
  /\ \A f \in Files : \/ d[f] \in none
                      \/ d[f] \notin {NoFile, NoNode, NoHash} /\ d[f] \subseteq Names
IsRun(r) ==
  /\ DOMAIN r = DOMAIN Idle
  /\ r.at \in Steps /\ r.kind \in Kinds /\ r.mod \in Modules /\ r.proj \in Projects
  /\ IsContents(r.parsed, {NoFile}) /\ IsContents(r.hashes, {NoFile})
  /\ r.stale \subseteq Files /\ r.known \subseteq Elements
  /\ r.force \in BOOLEAN /\ r.clean \in BOOLEAN

\* Every variable keeps its type.
TypeOK ==
  /\ IsContents(disk, {NoFile})
  /\ IsContents(stamp, {NoNode, NoHash})
  /\ elements \subseteq Elements
  /\ definedIn \subseteq Elements \X Files
  /\ uses \subseteq Elements \X Elements
  /\ accessing \subseteq Elements
  /\ IsRun(run)
  /\ disturbed \subseteq Kinds \X Modules \X Projects
  /\ layered \subseteq Files /\ orphaned \subseteq Files
  /\ edits \in 0 .. MaxEdits /\ crashes \in 0 .. MaxCrashes

\* No function or register is in the graph that the stamped content of its file
\* does not define: one that is removed from a file, or whose file is removed,
\* goes with the next run (incremental_tracker.py, "cascade-delete stale nodes
\* before re-ingesting only what changed").  Not so for files that a run rebuilt
\* without deleting anything, because it took itself for the first or was forced,
\* that a dying run left linked and not stamped, or that changed while a run had
\* them, until they are built anew; and for files of which a dying run or another
\* module's registers left something that hangs on no file.
NoLeftovers ==
  run = Idle =>
    \A e \in elements :
      e[1] \notin layered \cup orphaned =>
        stamp[e[1]] \notin {NoNode, NoHash} /\ e[2] \in stamp[e[1]]

WouldSkip(k, m, p) ==
  LET fs == OnDisk(Scope(k, m, p)) IN fs # {} /\ NoChanges(k, m, fs)
Undisturbed(k, m, p) == <<k, m, p>> \notin disturbed
Defined(k, m, p) == {e \in Elements : /\ e[1] \in OnDisk(Scope(k, m, p))
                                      /\ e[2] \in disk[e[1]]}

\* Every function and register that stands in a file is in the graph and hangs
\* on its file.
SkippedKeepsNodes ==
  \A k \in Kinds, m \in Modules, p \in Projects :
    WouldSkip(k, m, p) /\ Undisturbed(k, m, p)
      => \A e \in Defined(k, m, p) : e \in elements /\ <<e, e[1]>> \in definedIn

\* The calls and the register accesses within the module are there.
SkippedKeepsUses ==
  \A m \in Modules, p \in Projects :
    WouldSkip("source", m, p) /\ Undisturbed("source", m, p)
      => \A e, c \in Defined("source", m, p) :
           <<e[2], c[2]>> \in Uses => <<e, c>> \in uses
SkippedKeepsAccesses ==
  \A m \in Modules, p \in Projects :
    (\A k \in Kinds : WouldSkip(k, m, p) /\ Undisturbed(k, m, p))
      => \A e \in Defined("source", m, p), r \in Defined("sfr", m, p) :
           <<e[2], r[2]>> \in Uses => <<e, r>> \in uses

\* When the next run is going to skip the files of a module and its last rebuild
\* was not cut short, nothing of them is missing in the graph.
SkippedIsComplete == SkippedKeepsNodes /\ SkippedKeepsUses /\ SkippedKeepsAccesses
=============================================================================
