--------------------------- MODULE GraphBuildProofs ---------------------------
(***************************************************************************)
(* Proofs about GraphBuild, for every set of modules, projects, files and    *)
(* names and every bound.                                                  *)
(***************************************************************************)
EXTENDS GraphBuild, TLAPS

USE DEF history

Fields == {"at", "kind", "mod", "proj", "force", "clean", "parsed", "stale", "hashes", "known"}
Unwritten == {NoFile, NoNode, NoHash}

\* A file's content is none of the marks for its absence.
LEMMA ContentsAreNames ==
  ASSUME NEW d, IsContents(d, {NoFile}), NEW f \in Files, d[f] # NoFile
  PROVE  d[f] \in SUBSET Names /\ d[f] \notin Unwritten
BY NoAssumption DEF IsContents, Unwritten

\* No builder at work is a well-formed run.
LEMMA IdleIsRun == IsRun(Idle) /\ DOMAIN Idle = Fields
<1>1. (CHOOSE m \in Modules : TRUE) \in Modules /\ (CHOOSE p \in Projects : TRUE) \in Projects
  BY FilesAssumption
<1>2. IsContents(Nothing, {NoFile})
  BY DEF IsContents, Nothing
<1>3. DOMAIN Idle = Fields
  BY DEF Idle, Fields
<1>4. /\ Idle.at = "idle" /\ Idle.kind = "source"
      /\ Idle.mod = CHOOSE m \in Modules : TRUE
      /\ Idle.proj = CHOOSE p \in Projects : TRUE
      /\ Idle.force = FALSE /\ Idle.clean = TRUE
      /\ Idle.parsed = Nothing /\ Idle.hashes = Nothing
      /\ Idle.stale = {} /\ Idle.known = {}
  BY DEF Idle
<1> HIDE DEF Idle
<1> QED BY <1>1, <1>2, <1>3, <1>4 DEF IsRun, Steps, Kinds

\* Moving on to another step keeps a run well formed.
LEMMA GoIsRun ==
  ASSUME IsRun(run), NEW step \in Steps
  PROVE  IsRun([run EXCEPT !.at = step])
<1> DEFINE r == [run EXCEPT !.at = step]
<1>1. DOMAIN run = Fields
  BY IdleIsRun DEF IsRun
<1>2. /\ DOMAIN r = Fields
      /\ r.at = step /\ r.kind = run.kind /\ r.mod = run.mod /\ r.proj = run.proj
      /\ r.force = run.force /\ r.clean = run.clean /\ r.parsed = run.parsed
      /\ r.stale = run.stale /\ r.hashes = run.hashes /\ r.known = run.known
  BY <1>1 DEF Fields
<1> HIDE DEF r
<1> QED BY <1>2, IdleIsRun DEF IsRun

\* So does reading the files into it.
LEMMA StartIsRun ==
  ASSUME TypeOK, NEW k \in Kinds, NEW m \in Modules, NEW p \in Projects, NEW force \in BOOLEAN,
         Start(k, m, p, force)
  PROVE  IsRun(run')
<1> DEFINE fs == OnDisk(Scope(k, m, p))
           read == [f \in Files |-> IF f \in fs THEN disk[f] ELSE NoFile]
<1>1. IsContents(read, {NoFile})
  BY DEF TypeOK, IsContents
<1>2. run' = [Idle EXCEPT !.at = "plan", !.kind = k, !.mod = m, !.proj = p, !.force = force,
                          !.parsed = read]
  BY DEF Start
<1> HIDE DEF read
<1>3. /\ DOMAIN run' = Fields
      /\ run'.at = "plan" /\ run'.kind = k /\ run'.mod = m /\ run'.proj = p
      /\ run'.force = force /\ run'.clean = Idle.clean /\ run'.parsed = read
      /\ run'.stale = Idle.stale /\ run'.hashes = Idle.hashes /\ run'.known = Idle.known
  BY <1>2, IdleIsRun DEF Fields
<1> QED BY <1>1, <1>3, IdleIsRun DEF IsRun, Steps

\* What a plan finds changed has a content, and what it finds deleted is a file.
LEMMA PlanIsRun ==
  ASSUME TypeOK, Plan
  PROVE  IsRun(run')
<1> DEFINE changed == Changed(Parsed)
           deleted == Deleted(run.kind, run.mod, Parsed)
           first == IsFirstRun(run.kind, run.mod, Parsed)
           known == [f \in Files |-> IF f \in changed THEN disk[f] ELSE NoFile]
           gone == IF first THEN {} ELSE changed \cup deleted
           next == IF first THEN "hash" ELSE "children"
<1>1. changed \subseteq Files /\ deleted \subseteq Files
  BY DEF Changed, OnDisk, Parsed, Deleted, Stamped, OfKind, Files
<1>2. IsContents(known, {NoFile})
  BY DEF TypeOK, IsContents
<1>3. run' = [run EXCEPT !.at = next, !.stale = gone, !.hashes = known]
  BY DEF Plan
<1>4. gone \subseteq Files /\ next \in Steps
  BY <1>1 DEF Steps
<1>5. DOMAIN run = Fields /\ IsRun(run)
  BY IdleIsRun DEF TypeOK, IsRun
<1> HIDE DEF next, gone, known
<1>6. /\ DOMAIN run' = Fields
      /\ run'.at = next /\ run'.stale = gone /\ run'.hashes = known
      /\ run'.kind = run.kind /\ run'.mod = run.mod /\ run'.proj = run.proj
      /\ run'.force = run.force /\ run'.clean = run.clean /\ run'.parsed = run.parsed
      /\ run'.known = run.known
  BY <1>3, <1>5 DEF Fields
<1> QED BY <1>2, <1>4, <1>5, <1>6, IdleIsRun DEF IsRun

\* A forced run goes straight to the hashes.
LEMMA PlanForcedIsRun ==
  ASSUME TypeOK, PlanForced
  PROVE  IsRun(run')
<1> DEFINE kept == run.clean /\ Deleted(run.kind, run.mod, Parsed) = {}
<1>1. kept \in BOOLEAN
  OBVIOUS
<1>2. run' = [run EXCEPT !.at = "hash", !.clean = kept]
  BY DEF PlanForced
<1>3. DOMAIN run = Fields /\ IsRun(run)
  BY IdleIsRun DEF TypeOK, IsRun
<1> HIDE DEF kept
<1>4. /\ DOMAIN run' = Fields
      /\ run'.at = "hash" /\ run'.clean = kept
      /\ run'.kind = run.kind /\ run'.mod = run.mod /\ run'.proj = run.proj
      /\ run'.force = run.force /\ run'.parsed = run.parsed /\ run'.stale = run.stale
      /\ run'.hashes = run.hashes /\ run'.known = run.known
  BY <1>2, <1>3 DEF Fields
<1> QED BY <1>1, <1>3, <1>4, IdleIsRun DEF IsRun, Steps

\* Hashing the other files, none of which is gone, completes the hashes.
LEMMA HashRestIsRun ==
  ASSUME TypeOK, HashRest
  PROVE  IsRun(run')
<1> DEFINE rest == {f \in Parsed : run.hashes[f] = NoFile}
           all == [f \in Files |-> IF f \in rest THEN disk[f] ELSE run.hashes[f]]
<1>1. CASE ~(rest \subseteq OnDisk(Files))
  BY <1>1, IdleIsRun DEF HashRest, End
<1>2. CASE rest \subseteq OnDisk(Files)
  <2>1. DOMAIN run = Fields /\ IsRun(run)
    BY IdleIsRun DEF TypeOK, IsRun
  <2>2. DOMAIN run.hashes = Files
    BY <2>1 DEF IsRun, IsContents
  <2>3. IsContents(all, {NoFile})
    BY <2>1 DEF TypeOK, IsRun, IsContents
  <2>4. run' = [run EXCEPT !.at = "nodes",
                  !.hashes = [f \in Files |-> IF f \in rest THEN disk[f] ELSE @[f]]]
    BY <1>2 DEF HashRest
  <2>5. run' = [run EXCEPT !.at = "nodes", !.hashes = all]
    BY <2>4, <2>1 DEF Fields
  <2> HIDE DEF all
  <2>6. /\ DOMAIN run' = Fields
        /\ run'.at = "nodes" /\ run'.hashes = all
        /\ run'.kind = run.kind /\ run'.mod = run.mod /\ run'.proj = run.proj
        /\ run'.force = run.force /\ run'.clean = run.clean /\ run'.parsed = run.parsed
        /\ run'.stale = run.stale /\ run'.known = run.known
    BY <2>5, <2>1 DEF Fields
  <2> QED BY <2>1, <2>3, <2>6, IdleIsRun DEF IsRun, Steps
<1> QED BY <1>1, <1>2

\* The nodes a run creates or looks up are functions and registers of files.
LEMMA CreateNodesIsRun ==
  ASSUME TypeOK, CreateNodes
  PROVE  IsRun(run')
<1> DEFINE next == IF run.kind = "sfr" THEN "cross" ELSE "link"
<1>1. run' = [run EXCEPT !.at = next, !.known = Found]
  BY DEF CreateNodes
<1>2. next \in Steps /\ Found \subseteq Elements
  BY DEF Steps, Found
<1>3. DOMAIN run = Fields /\ IsRun(run)
  BY IdleIsRun DEF TypeOK, IsRun
<1> HIDE DEF next
<1>4. /\ DOMAIN run' = Fields
      /\ run'.at = next /\ run'.known = Found
      /\ run'.kind = run.kind /\ run'.mod = run.mod /\ run'.proj = run.proj
      /\ run'.force = run.force /\ run'.clean = run.clean /\ run'.parsed = run.parsed
      /\ run'.stale = run.stale /\ run'.hashes = run.hashes
  BY <1>1, <1>3 DEF Fields
<1> QED BY <1>2, <1>3, <1>4, IdleIsRun DEF IsRun

LEMMA IngestCrossModuleIsRun ==
  ASSUME TypeOK, IngestCrossModule
  PROVE  IsRun(run') /\ elements' \subseteq Elements
<1>1. PICK new \in SUBSET Elements, old \in SUBSET Elements :
        /\ elements' = elements \cup new
        /\ run' = [run EXCEPT !.at = "link", !.known = @ \cup new \cup old]
  BY DEF IngestCrossModule, RegisterNodes, TypeOK
<1>2. DOMAIN run = Fields /\ IsRun(run)
  BY IdleIsRun DEF TypeOK, IsRun
<1>3. /\ DOMAIN run' = Fields
      /\ run'.at = "link" /\ run'.known = run.known \cup new \cup old
      /\ run'.kind = run.kind /\ run'.mod = run.mod /\ run'.proj = run.proj
      /\ run'.force = run.force /\ run'.clean = run.clean /\ run'.parsed = run.parsed
      /\ run'.stale = run.stale /\ run'.hashes = run.hashes
  BY <1>1, <1>2 DEF Fields
<1>4. run'.known \subseteq Elements
  BY <1>2, <1>3 DEF IsRun
<1> QED BY <1>1, <1>2, <1>3, <1>4, IdleIsRun DEF IsRun, Steps, TypeOK

\* A file that changes marks the run that has read it.
LEMMA EditIsRun ==
  ASSUME TypeOK, NEW f \in Files, NEW content, Edit(f, content)
  PROVE  IsRun(run')
<1> DEFINE kept == run.clean /\ f \notin Parsed
<1>1. kept \in BOOLEAN
  OBVIOUS
<1>2. run' = [run EXCEPT !.clean = kept]
  BY DEF Edit
<1>3. DOMAIN run = Fields /\ IsRun(run)
  BY IdleIsRun DEF TypeOK, IsRun
<1> HIDE DEF kept
<1>4. /\ DOMAIN run' = Fields
      /\ run'.at = run.at /\ run'.clean = kept
      /\ run'.kind = run.kind /\ run'.mod = run.mod /\ run'.proj = run.proj
      /\ run'.force = run.force /\ run'.parsed = run.parsed /\ run'.stale = run.stale
      /\ run'.hashes = run.hashes /\ run'.known = run.known
  BY <1>2, <1>3 DEF Fields
<1> QED BY <1>1, <1>3, <1>4, IdleIsRun DEF IsRun

(***************************************************************************)
(* The type invariant                                                      *)
(***************************************************************************)

\* Deleting keeps the types.
LEMMA DetachDeleteKeeps ==
  ASSUME TypeOK, NEW gone, NEW files, DetachDelete(gone, files)
  PROVE  /\ IsContents(stamp', {NoNode, NoHash})
         /\ elements' \subseteq Elements /\ accessing' \subseteq Elements
         /\ definedIn' \subseteq Elements \X Files /\ uses' \subseteq Elements \X Elements
<1>1. IsContents(stamp', {NoNode, NoHash})
  BY DEF DetachDelete, TypeOK, IsContents
<1>2. /\ elements' \subseteq Elements /\ accessing' \subseteq Elements
      /\ definedIn' \subseteq Elements \X Files /\ uses' \subseteq Elements \X Elements
  BY DEF DetachDelete, TypeOK
<1> QED BY <1>1, <1>2

\* Setting marks or hashes on file nodes keeps their types.
LEMMA StampsKeepType ==
  ASSUME TypeOK, NEW fs,
         \/ stamp' = [f \in Files |-> IF f \in fs /\ stamp[f] = NoNode THEN NoHash ELSE stamp[f]]
         \/ stamp' = [f \in Files |-> IF f \in fs /\ stamp[f] # NoNode
                                      THEN run.hashes[f] ELSE stamp[f]]
            /\ \A f \in fs : run.hashes[f] # NoFile
  PROVE  IsContents(stamp', {NoNode, NoHash})
BY DEF TypeOK, IsContents, IsRun

\* Calls and accesses are written between nodes that are there.
LEMMA UsesOfNodes ==
  SourceUses \subseteq elements \X elements /\ SfrUses \subseteq elements \X elements
<1>1. ASSUME NEW e PROVE Callees(e) \subseteq elements
  BY DEF Callees, FunctionsOf, InModule
<1>2. ASSUME NEW e PROVE Accessed(e) \subseteq elements
  BY DEF Accessed, RegisterNodes
<1>3. SourceUses \subseteq elements \X elements
  <2> SUFFICES ASSUME NEW u \in SourceUses PROVE u \in elements \X elements
    OBVIOUS
  <2>1. PICK e \in Found \cap elements : u \in {e} \X (Callees(e) \cup Accessed(e))
    BY DEF SourceUses
  <2> QED BY <2>1, <1>1, <1>2
<1>4. SfrUses \subseteq elements \X elements
  <2> SUFFICES ASSUME NEW u \in SfrUses PROVE u \in elements \X elements
    OBVIOUS
  <2>1. PICK e \in FunctionsOf(run.mod) \cap accessing :
          u \in {e} \X {r \in Accessed(e) : \E x \in run.known : x[2] = r[2]}
    BY DEF SfrUses
  <2>2. e \in elements
    BY DEF FunctionsOf, InModule
  <2> QED BY <2>1, <2>2, <1>2
<1> QED BY <1>3, <1>4

\* Once the rest is hashed, every file the run has read has a hash.
HashesKnown ==
  run.at \in {"nodes", "cross", "link", "drop", "uses", "stamp"} =>
    \A f \in Parsed : run.hashes[f] # NoFile
TypeInv == TypeOK /\ HashesKnown

\* Every step keeps the types.
LEMMA TypeStep ==
  ASSUME TypeInv, [Next]_vars
  PROVE  TypeOK'
<1> USE DEF TypeInv
<1>0. IsRun(run)
  BY DEF TypeOK
<1>1. ASSUME NEW k \in Kinds, NEW m \in Modules, NEW p \in Projects, NEW force \in BOOLEAN,
             Start(k, m, p, force)
      PROVE  TypeOK'
  BY <1>1, StartIsRun DEF Start, graph, TypeOK
<1>2. CASE Skip
  BY <1>2, IdleIsRun DEF Skip, End, graph, TypeOK
<1>3. ASSUME Plan \/ PlanForced
      PROVE  TypeOK'
  <2>1. IsRun(run')
    BY <1>3, PlanIsRun, PlanForcedIsRun
  <2>2. /\ disturbed' = disturbed \cup {Target} /\ layered' \subseteq layered \cup Known(Parsed)
        /\ UNCHANGED <<disk, graph, orphaned, edits, crashes>>
    BY <1>3 DEF Plan, PlanForced
  <2>3. Target \in Kinds \X Modules \X Projects
    BY <1>0 DEF Target, IsRun
  <2>4. Known(Parsed) \subseteq Files
    BY DEF Known, Parsed
  <2> QED BY <2>1, <2>2, <2>3, <2>4 DEF graph, TypeOK
<1>4. CASE DeleteChildren
  <2>1. IsRun(run')
    BY <1>4, <1>0, GoIsRun DEF DeleteChildren, Go, Steps
  <2>2. PICK gone : DetachDelete(gone, {})
    BY <1>4 DEF DeleteChildren
  <2>3. UNCHANGED <<disk, history, edits, crashes>>
    BY <1>4 DEF DeleteChildren
  <2> QED BY <2>1, <2>2, <2>3, DetachDeleteKeeps DEF TypeOK
<1>5. CASE DeleteFiles
  <2>1. IsRun(run')
    BY <1>5, <1>0, GoIsRun DEF DeleteFiles, Go, Steps
  <2>2. DetachDelete({}, run.stale) /\ UNCHANGED <<disk, history, edits, crashes>>
    BY <1>5 DEF DeleteFiles
  <2> QED BY <2>1, <2>2, DetachDeleteKeeps DEF TypeOK
<1>6. CASE HashRest
  BY <1>6, HashRestIsRun DEF HashRest, graph, TypeOK
<1>7. CASE CreateNodes
  <2>1. IsContents(stamp', {NoNode, NoHash})
    BY <1>7, StampsKeepType DEF CreateNodes
  <2>2. elements' \subseteq Elements
    BY <1>7 DEF CreateNodes, Found, TypeOK
  <2>3. UNCHANGED <<disk, definedIn, uses, accessing, history, edits, crashes>>
    BY <1>7 DEF CreateNodes
  <2> QED BY <1>7, <2>1, <2>2, <2>3, CreateNodesIsRun DEF TypeOK
<1>8. CASE IngestCrossModule
  <2>1. PICK fs : stamp' = [f \in Files |-> IF f \in fs /\ stamp[f] = NoNode
                                            THEN NoHash ELSE stamp[f]]
    BY <1>8 DEF IngestCrossModule
  <2>2. IsContents(stamp', {NoNode, NoHash})
    BY <2>1, StampsKeepType
  <2>3. UNCHANGED <<disk, definedIn, uses, accessing, disturbed, layered, edits, crashes>>
    BY <1>8 DEF IngestCrossModule
  <2>4. orphaned' \subseteq Files
    BY <1>8 DEF IngestCrossModule, OnDisk, Files, TypeOK
  <2> QED BY <1>8, <2>2, <2>3, <2>4, IngestCrossModuleIsRun DEF TypeOK
<1>9. CASE CreateDefinedIn
  <2>1. IsRun(run')
    BY <1>9, <1>0, GoIsRun DEF CreateDefinedIn, Go, Steps
  <2>2. definedIn' \subseteq Elements \X Files
    BY <1>9 DEF CreateDefinedIn, TypeOK, Parsed
  <2>3. UNCHANGED <<disk, stamp, elements, uses, accessing, history, edits, crashes>>
    BY <1>9 DEF CreateDefinedIn
  <2> QED BY <2>1, <2>2, <2>3 DEF TypeOK
<1>10. CASE DropUses
  <2>1. IsRun(run')
    BY <1>10, <1>0, GoIsRun DEF DropUses, Go, Steps
  <2>2. uses' \subseteq uses
    BY <1>10 DEF DropUses
  <2>3. UNCHANGED <<disk, stamp, elements, definedIn, accessing, history, edits, crashes>>
    BY <1>10 DEF DropUses
  <2> QED BY <2>1, <2>2, <2>3 DEF TypeOK
<1>11. CASE CreateUses
  <2>1. IsRun(run')
    BY <1>11, <1>0, GoIsRun DEF CreateUses, Go, Steps
  <2>2. SourceUses \subseteq elements \X elements /\ SfrUses \subseteq elements \X elements
    BY UsesOfNodes
  <2>3. uses' \subseteq Elements \X Elements
    BY <1>11, <2>2 DEF CreateUses, TypeOK
  <2>4. accessing' \subseteq Elements
    BY <1>11 DEF CreateUses, NoteAccesses, TypeOK
  <2>5. UNCHANGED <<disk, stamp, elements, definedIn, history, edits, crashes>>
    BY <1>11 DEF CreateUses
  <2> QED BY <2>1, <2>3, <2>4, <2>5 DEF TypeOK
<1>12. CASE Stamp
  <2>1. \A f \in Parsed : run.hashes[f] # NoFile
    BY <1>12 DEF Stamp, HashesKnown
  <2>2. IsContents(stamp', {NoNode, NoHash})
    BY <1>12, <2>1, StampsKeepType DEF Stamp
  <2>3. disturbed' \subseteq disturbed /\ layered' \subseteq layered /\ orphaned' = orphaned /\ run' = Idle
    BY <1>12 DEF Stamp, End
  <2>4. UNCHANGED <<disk, elements, definedIn, uses, accessing, edits, crashes>>
    BY <1>12 DEF Stamp
  <2> QED BY <2>2, <2>3, <2>4, IdleIsRun DEF TypeOK
<1>13. CASE Crash
  <2>1. crashes' \in 0 .. MaxCrashes
    BY <1>13, BoundsAssumption DEF Crash, TypeOK
  <2>2. layered' \subseteq Files /\ orphaned' \subseteq Files
    BY <1>13 DEF Crash, Parsed, TypeOK
  <2> QED BY <1>13, <2>1, <2>2, IdleIsRun DEF Crash, End, graph, TypeOK
<1>14. ASSUME NEW f \in Files, NEW c \in Contents[f] \cup {NoFile}, Edit(f, c)
       PROVE  TypeOK'
  <2>1. IsRun(run')
    BY <1>14, EditIsRun
  <2>2. c = NoFile \/ c \in SUBSET Names
    BY ContentsAssumption
  <2>3. IsContents(disk', {NoFile})
    BY <1>14, <2>2, NoAssumption DEF Edit, TypeOK, IsContents
  <2>4. edits' \in 0 .. MaxEdits
    BY <1>14, BoundsAssumption DEF Edit, TypeOK
  <2>5. UNCHANGED <<graph, disturbed, orphaned, crashes>> /\ layered' \subseteq Files
    BY <1>14 DEF Edit, TypeOK
  <2> QED BY <2>1, <2>3, <2>4, <2>5 DEF graph, TypeOK
<1>15. ASSUME NEW m \in Modules, ClearModule(m)
       PROVE  TypeOK'
  <2>1. PICK gone, files : DetachDelete(gone, files)
    BY <1>15 DEF ClearModule
  <2>2. UNCHANGED <<disk, run, disturbed, edits, crashes>>
    BY <1>15 DEF ClearModule
  <2>3. layered' \subseteq layered /\ orphaned' \subseteq orphaned
    BY <1>15 DEF ClearModule
  <2> QED BY <2>1, <2>2, <2>3, DetachDeleteKeeps DEF TypeOK
<1>16. CASE UNCHANGED vars
  BY <1>16 DEF vars, graph, TypeOK
<1> QED BY <1>1, <1>2, <1>3, <1>4, <1>5, <1>6, <1>7, <1>8, <1>9, <1>10, <1>11, <1>12, <1>13,
           <1>14, <1>15, <1>16 DEF Next, RunStep

\* Every step keeps the hashes of the files that were read: a run passes the
\* step "hash" only with all of them.
LEMMA HashesStep ==
  ASSUME TypeInv, [Next]_vars
  PROVE  HashesKnown'
<1> USE DEF TypeInv
<1> DEFINE Late == {"nodes", "cross", "link", "drop", "uses", "stamp"}
<1>0. IsRun(run) /\ DOMAIN run = Fields
  BY IdleIsRun DEF TypeOK, IsRun
<1>1. ASSUME run'.at \notin Late
      PROVE  HashesKnown'
  BY <1>1 DEF HashesKnown
<1>2. ASSUME run.at \in Late, run'.parsed = run.parsed, run'.hashes = run.hashes
      PROVE  HashesKnown'
  BY <1>2 DEF HashesKnown, Parsed
<1>3. ASSUME NEW k \in Kinds, NEW m \in Modules, NEW p \in Projects, NEW force \in BOOLEAN,
             Start(k, m, p, force)
      PROVE  run'.at \notin Late
  <2> DEFINE read == [f \in Files |-> IF f \in OnDisk(Scope(k, m, p)) THEN disk[f] ELSE NoFile]
  <2>1. run' = [Idle EXCEPT !.at = "plan", !.kind = k, !.mod = m, !.proj = p, !.force = force,
                            !.parsed = read]
    BY <1>3 DEF Start
  <2> HIDE DEF read
  <2>2. run'.at = "plan"
    BY <2>1, IdleIsRun DEF Fields
  <2> QED BY <2>2
<1>4. ASSUME run' = Idle
      PROVE  run'.at \notin Late
  BY <1>4 DEF Idle
<1>5. CASE Plan
  <2>1. PICK a \in {"hash", "children"} : \E s, h :
          run' = [run EXCEPT !.at = a, !.stale = s, !.hashes = h]
    BY <1>5 DEF Plan
  <2>2. run'.at = a
    BY <2>1, <1>0 DEF Fields
  <2> QED BY <2>2, <1>1
<1>6. CASE PlanForced
  <2>1. PICK c : run' = [run EXCEPT !.at = "hash", !.clean = c]
    BY <1>6 DEF PlanForced
  <2>2. run'.at = "hash"
    BY <2>1, <1>0 DEF Fields
  <2> QED BY <2>2, <1>1
<1>7. CASE DeleteChildren
  <2>1. run'.at = "files"
    BY <1>7, <1>0 DEF DeleteChildren, Go, Fields
  <2> QED BY <2>1, <1>1
<1>8. CASE DeleteFiles
  <2>1. run'.at = "hash"
    BY <1>8, <1>0 DEF DeleteFiles, Go, Fields
  <2> QED BY <2>1, <1>1
<1>9. CASE HashRest
  <2> DEFINE rest == {f \in Parsed : run.hashes[f] = NoFile}
             all == [f \in Files |-> IF f \in rest THEN disk[f] ELSE run.hashes[f]]
  <2>1. CASE ~(rest \subseteq OnDisk(Files))
    BY <2>1, <1>9, <1>4, <1>1 DEF HashRest, End
  <2>2. CASE rest \subseteq OnDisk(Files)
    <3>1. run' = [run EXCEPT !.at = "nodes",
                    !.hashes = [f \in Files |-> IF f \in rest THEN disk[f] ELSE @[f]]]
      BY <2>2, <1>9 DEF HashRest
    <3>2. run'.hashes = all /\ run'.parsed = run.parsed
      BY <3>1, <1>0 DEF Fields
    <3>3. ASSUME NEW f \in Parsed PROVE all[f] # NoFile
      BY <2>2 DEF Parsed, OnDisk
    <3>4. Parsed' = Parsed
      BY <3>2 DEF Parsed
    <3> QED BY <3>2, <3>3, <3>4 DEF HashesKnown
  <2> QED BY <2>1, <2>2
<1>10. CASE CreateNodes
  <2>1. PICK a, k : run' = [run EXCEPT !.at = a, !.known = k]
    BY <1>10 DEF CreateNodes
  <2>2. run'.parsed = run.parsed /\ run'.hashes = run.hashes
    BY <2>1, <1>0 DEF Fields
  <2> QED BY <1>10, <2>2, <1>2 DEF CreateNodes
<1>11. CASE IngestCrossModule
  <2>1. PICK new, old : run' = [run EXCEPT !.at = "link", !.known = @ \cup new \cup old]
    BY <1>11 DEF IngestCrossModule
  <2>2. run'.parsed = run.parsed /\ run'.hashes = run.hashes
    BY <2>1, <1>0 DEF Fields
  <2> QED BY <1>11, <2>2, <1>2 DEF IngestCrossModule
<1>12. ASSUME CreateDefinedIn \/ DropUses \/ CreateUses
       PROVE  HashesKnown'
  <2>1. run.at \in Late
    BY <1>12 DEF CreateDefinedIn, DropUses, CreateUses
  <2>2. PICK a : run' = [run EXCEPT !.at = a]
    BY <1>12 DEF CreateDefinedIn, DropUses, CreateUses, Go
  <2>3. run'.parsed = run.parsed /\ run'.hashes = run.hashes
    BY <2>2, <1>0 DEF Fields
  <2> QED BY <2>1, <2>3, <1>2
<1>13. ASSUME NEW f \in Files, NEW c, Edit(f, c)
       PROVE  HashesKnown'
  <2>1. PICK b : run' = [run EXCEPT !.clean = b]
    BY <1>13 DEF Edit
  <2>2. run'.parsed = run.parsed /\ run'.hashes = run.hashes /\ run'.at = run.at
    BY <2>1, <1>0 DEF Fields
  <2> QED BY <2>2 DEF HashesKnown, Parsed
<1>14. ASSUME UNCHANGED run
       PROVE  HashesKnown'
  BY <1>14 DEF HashesKnown, Parsed
<1>15. ASSUME NEW m \in Modules, ClearModule(m)
       PROVE  HashesKnown'
  BY <1>15, <1>14 DEF ClearModule
<1>16. CASE Skip \/ Stamp \/ Crash
  BY <1>16, <1>4, <1>1 DEF Skip, Stamp, Crash, End
<1>17. CASE UNCHANGED vars
  BY <1>17, <1>14 DEF vars
<1> HIDE DEF Late
<1> QED BY <1>1, <1>3, <1>5, <1>6, <1>7, <1>8, <1>9, <1>10, <1>11, <1>12, <1>13, <1>15, <1>16,
           <1>17 DEF Next, RunStep

LEMMA InitTypes == Init => TypeInv
<1> SUFFICES ASSUME Init PROVE TypeInv
  OBVIOUS
<1>1. ASSUME NEW f \in Files
      PROVE  disk[f] = NoFile \/ (disk[f] \in SUBSET Names /\ disk[f] \notin Unwritten)
  <2>1. disk[f] \in {NoFile} \cup Contents[f]
    BY <1>1 DEF Init
  <2> QED BY <2>1, ContentsAssumption, NoAssumption DEF Unwritten
<1>2. IsContents(disk, {NoFile})
  BY <1>1 DEF Init, IsContents, Unwritten
<1>3. IsContents(stamp, {NoNode, NoHash})
  BY DEF Init, IsContents
<1>4. HashesKnown
  BY DEF Init, HashesKnown, Idle
<1>5. edits \in 0 .. MaxEdits /\ crashes \in 0 .. MaxCrashes
  BY BoundsAssumption DEF Init
<1> QED BY <1>2, <1>3, <1>4, <1>5, IdleIsRun DEF Init, TypeInv, TypeOK

LEMMA TypeInvariant == Spec => []TypeInv
<1>1. TypeInv /\ [Next]_vars => TypeInv'
  BY TypeStep, HashesStep DEF TypeInv
<1> QED BY InitTypes, <1>1, PTL DEF Spec

\* The variables keep their types, whatever runs, edits and crashes happen.
THEOREM TypeCorrect == Spec => []TypeOK
<1>1. TypeInv => TypeOK
  BY DEF TypeInv
<1> QED BY <1>1, TypeInvariant, PTL

(***************************************************************************)
(* What the next run skips                                                 *)
(***************************************************************************)

\* One project and one register header in all.  With two projects a run deletes
\* the nodes of the other's files, and with two headers the registers of both are
\* linked to either: then what is skipped may be incomplete.
OneOfEach ==
  /\ \A p, q \in Projects : p = q
  /\ \A f, g \in SfrFiles : f = g

\* The functions and registers of files that are stamped with a hash.
Recorded(k, m) == {e \in Elements : e[1] \in Stamped(k, m) /\ e[2] \in stamp[e[1]]}

\* Unless its last build is disturbed, the graph has them, with their links.
CompleteNodes(k, m, p) ==
  Undisturbed(k, m, p) =>
    \A e \in Recorded(k, m) : e \in elements /\ <<e, e[1]>> \in definedIn
CompleteCalls(m, p) ==
  Undisturbed("source", m, p) =>
    /\ \A e, c \in Recorded("source", m) : <<e[2], c[2]>> \in Uses => <<e, c>> \in uses
    /\ \A e \in Recorded("source", m) : AccessesRegisters(e) => e \in accessing
CompleteAccesses(m, p) ==
  Undisturbed("source", m, p) /\ Undisturbed("sfr", m, p) =>
    \A e \in Recorded("source", m), r \in Recorded("sfr", m) :
      r[2] \in Registers /\ <<e[2], r[2]>> \in Uses => <<e, r>> \in uses
Complete ==
  \A m \in Modules, p \in Projects :
    /\ \A k \in Kinds : CompleteNodes(k, m, p)
    /\ CompleteCalls(m, p) /\ CompleteAccesses(m, p)

\* What a run has read and hashed, which is on the disk while it is clean, and
\* what it has still to delete.
InScope(f) == f \in OfKind(run.kind) /\ ModuleOf[f] = run.mod
Reads ==
  /\ run.at \notin {"idle", "plan"} => Target \in disturbed
  /\ \A f \in Parsed \cup run.stale : InScope(f)
  /\ run.clean => \A f \in Parsed : disk[f] = run.parsed[f] /\ run.hashes[f] \in {NoFile, disk[f]}
Drops ==
  /\ run.at \in {"children", "files"} /\ run.clean =>
       Stamped(run.kind, run.mod) \subseteq Parsed \cup run.stale
  /\ run.at \in {"hash", "nodes", "cross", "link", "drop", "uses", "stamp"} /\ run.clean =>
       Stamped(run.kind, run.mod) \subseteq Parsed

\* What it has written so far.
Writes ==
  /\ run.at \in {"cross", "link", "drop", "uses", "stamp"} =>
       /\ Found \subseteq elements \cap run.known
       /\ \A f \in Parsed : stamp[f] # NoNode
       /\ run.kind = "sfr" => \A x \in run.known : x[1] \in SfrFiles
  /\ run.at \in {"drop", "uses", "stamp"} => \A e \in Found : <<e, e[1]>> \in definedIn
  /\ run.at = "stamp" /\ run.kind = "source" =>
       /\ \A e, c \in Found : <<e[2], c[2]>> \in Uses => <<e, c>> \in uses
       /\ \A e \in Found : AccessesRegisters(e) => e \in accessing
       /\ \A e \in Found, r \in RegisterNodes :
            r[2] \in Registers /\ <<e[2], r[2]>> \in Uses => <<e, r>> \in uses
  /\ run.at = "stamp" /\ run.kind = "sfr" =>
       \A e \in FunctionsOf(run.mod) \cap accessing, r \in Found :
         <<e[2], r[2]>> \in Uses => <<e, r>> \in uses

\* With one header, everything is linked to its own file.
LinkedToOwn == \A d \in definedIn : d[2] = d[1][1]
HeadersHoldRegisters == \A f \in SfrFiles : disk[f] = NoFile \/ disk[f] \subseteq Registers

CompleteInv == Reads /\ Drops /\ Writes /\ LinkedToOwn /\ HeadersHoldRegisters /\ Complete

(***************************************************************************)
(* What the steps leave of complete files                                  *)
(***************************************************************************)

\* A step that stamps no hash records nothing.
LEMMA NothingRecorded ==
  ASSUME \A f \in Files : stamp'[f] \notin {NoNode, NoHash} => stamp'[f] = stamp[f]
  PROVE  \A k \in Kinds : \A m : Recorded(k, m)' \subseteq Recorded(k, m)
<1> SUFFICES ASSUME NEW k \in Kinds, NEW m, NEW e \in Recorded(k, m)'
             PROVE  e \in Recorded(k, m)
  OBVIOUS
<1>1. e \in Elements /\ e[1] \in OfKind(k) /\ ModuleOf[e[1]] = m
      /\ stamp'[e[1]] \notin {NoNode, NoHash} /\ e[2] \in stamp'[e[1]]
  BY DEF Recorded, Stamped
<1>2. e[1] \in Files
  BY <1>1 DEF Elements
<1> QED BY <1>1, <1>2 DEF Recorded, Stamped

\* A module stays complete when nothing is recorded, no build of it ends and
\* nothing that is recorded of it is taken away.
LEMMA CompleteStays ==
  ASSUME Complete, NEW m \in Modules, NEW p \in Projects,
         \A k \in Kinds : Undisturbed(k, m, p)' => Recorded(k, m)' \subseteq Recorded(k, m),
         \A k \in Kinds : Undisturbed(k, m, p)' => Undisturbed(k, m, p),
         \A k \in Kinds : Undisturbed(k, m, p)' => \A e \in Recorded(k, m)' :
           /\ e \in elements => e \in elements'
           /\ <<e, e[1]>> \in definedIn => <<e, e[1]>> \in definedIn',
         Undisturbed("source", m, p)' => \A e, c \in Recorded("source", m)' :
           <<e, c>> \in uses => <<e, c>> \in uses',
         Undisturbed("source", m, p)' => \A e \in Recorded("source", m)' :
           e \in accessing => e \in accessing',
         Undisturbed("source", m, p)' /\ Undisturbed("sfr", m, p)' =>
           \A e \in Recorded("source", m)', r \in Recorded("sfr", m)' :
             <<e, r>> \in uses => <<e, r>> \in uses'
  PROVE  /\ \A k \in Kinds : CompleteNodes(k, m, p)'
         /\ CompleteCalls(m, p)' /\ CompleteAccesses(m, p)'
<1>1. "source" \in Kinds /\ "sfr" \in Kinds
  BY DEF Kinds
<1>2. /\ \A k \in Kinds : CompleteNodes(k, m, p)
      /\ CompleteCalls(m, p) /\ CompleteAccesses(m, p)
  BY DEF Complete
<1>3. \A k \in Kinds : CompleteNodes(k, m, p)'
  BY <1>2 DEF CompleteNodes
<1>4. CompleteCalls(m, p)'
  BY <1>1, <1>2 DEF CompleteCalls, AccessesRegisters
<1>5. CompleteAccesses(m, p)'
  BY <1>1, <1>2 DEF CompleteAccesses
<1> QED BY <1>3, <1>4, <1>5

\* Whatever is added to the graph leaves complete what was.
LEMMA AddingStays ==
  ASSUME Complete, disturbed \subseteq disturbed',
         \A f \in Files : stamp'[f] \notin {NoNode, NoHash} => stamp'[f] = stamp[f],
         elements \subseteq elements', definedIn \subseteq definedIn', uses \subseteq uses',
         accessing \subseteq accessing'
  PROVE  Complete'
<1>1. \A k \in Kinds : \A m : Recorded(k, m)' \subseteq Recorded(k, m)
  BY NothingRecorded
<1>2. \A k, m, p : Undisturbed(k, m, p)' => Undisturbed(k, m, p)
  BY DEF Undisturbed
<1> SUFFICES ASSUME NEW m \in Modules, NEW p \in Projects
             PROVE  /\ \A k \in Kinds : CompleteNodes(k, m, p)'
                    /\ CompleteCalls(m, p)' /\ CompleteAccesses(m, p)'
  BY DEF Complete
<1> QED BY <1>1, <1>2, CompleteStays

\* So does deleting what is not recorded of undisturbed builds.
LEMMA DeletingStays ==
  ASSUME TypeOK, Complete, NEW gone, NEW files, DetachDelete(gone, files), UNCHANGED disturbed,
         \A k \in Kinds, m \in Modules, p \in Projects :
           Undisturbed(k, m, p) => \A e \in Recorded(k, m)' : e \notin gone
  PROVE  Complete'
<1>1. \A f \in Files : stamp'[f] \notin {NoNode, NoHash} => stamp'[f] = stamp[f] /\ f \notin files
  BY DEF DetachDelete
<1>2. \A k \in Kinds : \A m : Recorded(k, m)' \subseteq Recorded(k, m)
  BY <1>1, NothingRecorded
<1>3. \A k, m, p : Undisturbed(k, m, p)' <=> Undisturbed(k, m, p)
  BY DEF Undisturbed
<1>4. ASSUME NEW k \in Kinds, NEW m \in Modules, NEW e \in Recorded(k, m)'
      PROVE  e[1] \notin files
  <2>1. e \in Elements /\ stamp'[e[1]] \notin {NoNode, NoHash}
    BY <1>4 DEF Recorded, Stamped
  <2>2. e[1] \in Files
    BY <2>1 DEF Elements
  <2> QED BY <1>1, <2>1, <2>2
<1>5. /\ elements' = elements \ gone /\ accessing' = accessing \ gone
      /\ definedIn' = {d \in definedIn : d[1] \notin gone /\ d[2] \notin files}
      /\ uses' = {u \in uses : u[1] \notin gone /\ u[2] \notin gone}
  BY DEF DetachDelete
<1> SUFFICES ASSUME NEW m \in Modules, NEW p \in Projects
             PROVE  /\ \A k \in Kinds : CompleteNodes(k, m, p)'
                    /\ CompleteCalls(m, p)' /\ CompleteAccesses(m, p)'
  BY DEF Complete
<1>6. "source" \in Kinds /\ "sfr" \in Kinds
  BY DEF Kinds
<1>7. \A k \in Kinds : Undisturbed(k, m, p)' => \A e \in Recorded(k, m)' :
        /\ e \notin gone
        /\ e \in elements => e \in elements'
        /\ <<e, e[1]>> \in definedIn => <<e, e[1]>> \in definedIn'
        /\ e \in accessing => e \in accessing'
  BY <1>3, <1>4, <1>5
<1>8. Undisturbed("source", m, p)' => \A e, c \in Recorded("source", m)' :
        <<e, c>> \in uses => <<e, c>> \in uses'
  BY <1>5, <1>6, <1>7
<1>9. Undisturbed("source", m, p)' /\ Undisturbed("sfr", m, p)' =>
        \A e \in Recorded("source", m)', r \in Recorded("sfr", m)' :
          <<e, r>> \in uses => <<e, r>> \in uses'
  BY <1>5, <1>6, <1>7
<1> QED BY <1>2, <1>3, <1>6, <1>7, <1>8, <1>9, CompleteStays

(***************************************************************************)
(* What the steps do to the run                                            *)
(***************************************************************************)

SameBuild ==
  /\ run'.kind = run.kind /\ run'.mod = run.mod /\ run'.proj = run.proj
  /\ run'.parsed = run.parsed

LEMMA BuildStays ==
  ASSUME SameBuild
  PROVE  /\ Parsed' = Parsed /\ Found' = Found /\ Target' = Target
         /\ \A f : InScope(f)' = InScope(f)
         /\ FoundAccesses' = FoundAccesses
BY DEF SameBuild, Parsed, Found, Target, InScope, FoundAccesses, AccessesRegisters

LEMMA GoDoes ==
  ASSUME TypeOK, NEW step, Go(step)
  PROVE  /\ SameBuild /\ run'.at = step /\ run'.stale = run.stale /\ run'.hashes = run.hashes
         /\ run'.known = run.known /\ run'.clean = run.clean
<1>1. DOMAIN run = Fields /\ run' = [run EXCEPT !.at = step]
  BY IdleIsRun DEF TypeOK, IsRun, Go
<1> QED BY <1>1 DEF Fields, SameBuild

LEMMA StartDoes ==
  ASSUME TypeOK, NEW k \in Kinds, NEW m \in Modules, NEW p \in Projects, NEW force \in BOOLEAN,
         Start(k, m, p, force)
  PROVE  /\ run'.at = "plan" /\ run'.kind = k /\ run'.mod = m /\ run'.proj = p
         /\ run'.parsed = [f \in Files |-> IF f \in OnDisk(Scope(k, m, p)) THEN disk[f] ELSE NoFile]
         /\ run'.stale = {} /\ run'.hashes = Nothing
<1> DEFINE read == [f \in Files |-> IF f \in OnDisk(Scope(k, m, p)) THEN disk[f] ELSE NoFile]
<1>1. run' = [Idle EXCEPT !.at = "plan", !.kind = k, !.mod = m, !.proj = p, !.force = force,
                          !.parsed = read]
  BY DEF Start
<1>2. Idle.stale = {} /\ Idle.hashes = Nothing
  BY DEF Idle
<1> HIDE DEF read
<1>3. /\ run'.at = "plan" /\ run'.kind = k /\ run'.mod = m /\ run'.proj = p
      /\ run'.parsed = read /\ run'.stale = Idle.stale /\ run'.hashes = Idle.hashes
  BY <1>1, IdleIsRun DEF Fields
<1> QED BY <1>2, <1>3 DEF read

LEMMA PlanDoes ==
  ASSUME TypeOK, Plan
  PROVE  LET first == IsFirstRun(run.kind, run.mod, Parsed) IN
         /\ SameBuild /\ run'.clean = run.clean
         /\ run'.at = (IF first THEN "hash" ELSE "children")
         /\ run'.stale = (IF first THEN {} ELSE Changed(Parsed) \cup Deleted(run.kind, run.mod, Parsed))
         /\ run'.hashes = [f \in Files |-> IF f \in Changed(Parsed) THEN disk[f] ELSE NoFile]
<1> DEFINE first == IsFirstRun(run.kind, run.mod, Parsed)
           at == IF first THEN "hash" ELSE "children"
           stale == IF first THEN {} ELSE Changed(Parsed) \cup Deleted(run.kind, run.mod, Parsed)
           hashes == [f \in Files |-> IF f \in Changed(Parsed) THEN disk[f] ELSE NoFile]
<1>1. DOMAIN run = Fields /\ run' = [run EXCEPT !.at = at, !.stale = stale, !.hashes = hashes]
  BY IdleIsRun DEF TypeOK, IsRun, Plan
<1> HIDE DEF at, stale, hashes
<1>2. SameBuild /\ run'.clean = run.clean /\ run'.at = at /\ run'.stale = stale
      /\ run'.hashes = hashes
  BY <1>1 DEF Fields, SameBuild
<1> QED BY <1>2 DEF at, stale, hashes

LEMMA PlanForcedDoes ==
  ASSUME TypeOK, PlanForced
  PROVE  /\ SameBuild /\ run'.at = "hash" /\ run'.stale = run.stale /\ run'.hashes = run.hashes
         /\ run'.clean = (run.clean /\ Deleted(run.kind, run.mod, Parsed) = {})
<1> DEFINE kept == run.clean /\ Deleted(run.kind, run.mod, Parsed) = {}
<1>1. DOMAIN run = Fields /\ run' = [run EXCEPT !.at = "hash", !.clean = kept]
  BY IdleIsRun DEF TypeOK, IsRun, PlanForced
<1> HIDE DEF kept
<1>2. SameBuild /\ run'.at = "hash" /\ run'.stale = run.stale /\ run'.hashes = run.hashes
      /\ run'.clean = kept
  BY <1>1 DEF Fields, SameBuild
<1> QED BY <1>2 DEF kept

LEMMA HashRestDoes ==
  ASSUME TypeOK, HashRest, run' # Idle
  PROVE  /\ SameBuild /\ run'.at = "nodes" /\ run'.stale = run.stale /\ run'.clean = run.clean
         /\ run'.hashes = [f \in Files |-> IF f \in Parsed /\ run.hashes[f] = NoFile
                                           THEN disk[f] ELSE run.hashes[f]]
<1> DEFINE rest == {f \in Parsed : run.hashes[f] = NoFile}
           all == [f \in Files |-> IF f \in rest THEN disk[f] ELSE run.hashes[f]]
<1>1. DOMAIN run = Fields /\ run' = [run EXCEPT !.at = "nodes",
                !.hashes = [f \in Files |-> IF f \in rest THEN disk[f] ELSE @[f]]]
  BY IdleIsRun DEF TypeOK, IsRun, HashRest, End
<1>2. run' = [run EXCEPT !.at = "nodes", !.hashes = all]
  BY <1>1 DEF Fields
<1> HIDE DEF all
<1>3. SameBuild /\ run'.at = "nodes" /\ run'.stale = run.stale /\ run'.clean = run.clean
      /\ run'.hashes = all
  BY <1>1, <1>2 DEF Fields, SameBuild
<1> QED BY <1>3 DEF all

LEMMA CreateNodesDoes ==
  ASSUME TypeOK, CreateNodes
  PROVE  /\ SameBuild /\ run'.at = (IF run.kind = "sfr" THEN "cross" ELSE "link")
         /\ run'.known = Found /\ run'.stale = run.stale /\ run'.hashes = run.hashes
         /\ run'.clean = run.clean
<1> DEFINE next == IF run.kind = "sfr" THEN "cross" ELSE "link"
<1>1. DOMAIN run = Fields /\ run' = [run EXCEPT !.at = next, !.known = Found]
  BY IdleIsRun DEF TypeOK, IsRun, CreateNodes
<1> HIDE DEF next
<1>2. SameBuild /\ run'.at = next /\ run'.known = Found /\ run'.stale = run.stale
      /\ run'.hashes = run.hashes /\ run'.clean = run.clean
  BY <1>1 DEF Fields, SameBuild
<1> QED BY <1>2 DEF next

LEMMA IngestCrossModuleDoes ==
  ASSUME TypeOK, IngestCrossModule
  PROVE  \E absent \in SUBSET SfrFiles, more \in SUBSET {e \in Elements : e[1] \in SfrFiles} :
         /\ \A f \in absent : ModuleOf[f] # run.mod
         /\ elements \subseteq elements'
         /\ stamp' = [f \in Files |-> IF f \in absent /\ stamp[f] = NoNode THEN NoHash ELSE stamp[f]]
         /\ SameBuild /\ run'.at = "link" /\ run'.known = run.known \cup more
         /\ run'.stale = run.stale /\ run'.hashes = run.hashes /\ run'.clean = run.clean
<1>1. \E absent \in SUBSET SfrFiles, new \in SUBSET {e \in Elements : e[1] \in SfrFiles},
         old \in SUBSET {e \in Elements : e[1] \in SfrFiles} :
         /\ \A f \in absent : ModuleOf[f] # run.mod
         /\ elements' = elements \cup new
         /\ stamp' = [f \in Files |-> IF f \in absent /\ stamp[f] = NoNode THEN NoHash ELSE stamp[f]]
         /\ run' = [run EXCEPT !.at = "link", !.known = @ \cup new \cup old]
  <2> DEFINE accessed == {n \in Registers : \E e \in FunctionsOf(run.mod) \cap accessing :
                                        <<e[2], n>> \in Uses}
             others == {f \in OnDisk(SfrFiles) : /\ ModuleOf[f] # run.mod
                                                 /\ disk[f] \cap accessed # {}}
             absent == {f \in others : RegisterNodes \cap InModule(ModuleOf[f]) = {}}
             new == {e \in Elements : e[1] \in absent /\ e[2] \in disk[e[1]]}
             old == {e \in RegisterNodes : \E f \in others \ absent : ModuleOf[f] = ModuleOf[e[1]]}
  <2>1. absent \in SUBSET SfrFiles /\ \A f \in absent : ModuleOf[f] # run.mod
    BY DEF OnDisk
  <2>2. new \in SUBSET {e \in Elements : e[1] \in SfrFiles}
    BY <2>1
  <2>3. old \in SUBSET {e \in Elements : e[1] \in SfrFiles}
    BY DEF RegisterNodes, TypeOK
  <2>4. /\ elements' = elements \cup new
        /\ stamp' = [f \in Files |-> IF f \in absent /\ stamp[f] = NoNode THEN NoHash ELSE stamp[f]]
        /\ run' = [run EXCEPT !.at = "link", !.known = @ \cup new \cup old]
    BY DEF IngestCrossModule
  <2> HIDE DEF accessed, others, absent, new, old
  <2> QED BY <2>1, <2>2, <2>3, <2>4
<1>2. PICK absent \in SUBSET SfrFiles, new \in SUBSET {e \in Elements : e[1] \in SfrFiles},
         old \in SUBSET {e \in Elements : e[1] \in SfrFiles} :
         /\ \A f \in absent : ModuleOf[f] # run.mod
         /\ elements' = elements \cup new
         /\ stamp' = [f \in Files |-> IF f \in absent /\ stamp[f] = NoNode THEN NoHash ELSE stamp[f]]
         /\ run' = [run EXCEPT !.at = "link", !.known = @ \cup new \cup old]
  BY <1>1
<1>3. DOMAIN run = Fields
  BY IdleIsRun DEF TypeOK, IsRun
<1>4. /\ SameBuild /\ run'.at = "link" /\ run'.known = run.known \cup (new \cup old)
      /\ run'.stale = run.stale /\ run'.hashes = run.hashes /\ run'.clean = run.clean
  BY <1>2, <1>3 DEF Fields, SameBuild
<1>5. new \cup old \in SUBSET {e \in Elements : e[1] \in SfrFiles}
  OBVIOUS
<1> QED BY <1>2, <1>4, <1>5

LEMMA EditDoes ==
  ASSUME TypeOK, NEW f \in Files, NEW content, Edit(f, content)
  PROVE  /\ SameBuild /\ run'.at = run.at /\ run'.known = run.known /\ run'.stale = run.stale
         /\ run'.hashes = run.hashes /\ run'.clean = (run.clean /\ f \notin Parsed)
         /\ \A g \in Files : disk'[g] = IF g = f THEN content ELSE disk[g]
<1> DEFINE kept == run.clean /\ f \notin Parsed
<1>1. DOMAIN run = Fields /\ run' = [run EXCEPT !.clean = kept]
  BY IdleIsRun DEF TypeOK, IsRun, Edit
<1> HIDE DEF kept
<1>2. SameBuild /\ run'.at = run.at /\ run'.known = run.known /\ run'.stale = run.stale
      /\ run'.hashes = run.hashes /\ run'.clean = kept
  BY <1>1 DEF Fields, SameBuild
<1>3. \A g \in Files : disk'[g] = IF g = f THEN content ELSE disk[g]
  BY DEF Edit, TypeOK, IsContents
<1> QED BY <1>2, <1>3 DEF kept

(***************************************************************************)
(* The run between its steps                                               *)
(***************************************************************************)

\* A run that has ended has nothing in hand.
LEMMA EndedIs == ASSUME run' = Idle PROVE Reads' /\ Drops' /\ Writes'
<1>1. run'.at = "idle" /\ run'.stale = {} /\ run'.parsed = Nothing
  BY DEF Idle
<1>2. Parsed' = {}
  BY <1>1 DEF Parsed, Nothing
<1> QED BY <1>1, <1>2 DEF Reads, Drops, Writes

LEMMA StampedStays ==
  ASSUME \A f \in Files : stamp'[f] \notin {NoNode, NoHash} => stamp'[f] = stamp[f],
         NEW k \in Kinds, NEW m
  PROVE  Stamped(k, m)' \subseteq Stamped(k, m)
<1>1. OfKind(k) \subseteq Files
  BY DEF OfKind, Files
<1> QED BY <1>1 DEF Stamped

LEMMA ReadsStep ==
  ASSUME TypeInv, OneOfEach, Reads, [Next]_vars
  PROVE  Reads'
<1>0. TypeOK /\ IsRun(run)
  BY DEF TypeInv, TypeOK
<1>1. ASSUME SameBuild, run'.hashes = run.hashes, run'.stale = run.stale, run'.clean => run.clean,
             UNCHANGED disk, disturbed \subseteq disturbed', run.at \notin {"idle", "plan"}
      PROVE  Reads'
  BY <1>1, BuildStays DEF Reads, SameBuild
<1>2. ASSUME NEW k \in Kinds, NEW m \in Modules, NEW p \in Projects, NEW force \in BOOLEAN,
             Start(k, m, p, force)
      PROVE  Reads'
  <2>1. /\ run'.at = "plan" /\ run'.kind = k /\ run'.mod = m /\ run'.stale = {}
        /\ run'.parsed = [f \in Files |-> IF f \in OnDisk(Scope(k, m, p)) THEN disk[f] ELSE NoFile]
        /\ run'.hashes = Nothing
    BY <1>0, <1>2, StartDoes
  <2>2. UNCHANGED disk
    BY <1>2 DEF Start
  <2>3. \A f \in Parsed' : f \in Files /\ f \in OnDisk(Scope(k, m, p)) /\ run'.parsed[f] = disk[f]
    BY <2>1 DEF Parsed
  <2>4. \A f \in Parsed' : run'.hashes[f] = NoFile
    BY <2>1, <2>3 DEF Nothing
  <2>5. \A f \in Parsed' : f \in OfKind(k) /\ ModuleOf[f] = m
    BY <2>3 DEF OnDisk, Scope
  <2> QED BY <2>1, <2>2, <2>3, <2>4, <2>5 DEF Reads, InScope
<1>3. CASE Plan
  <2>1. /\ SameBuild /\ run'.clean = run.clean
        /\ run'.stale \subseteq Changed(Parsed) \cup Deleted(run.kind, run.mod, Parsed)
        /\ run'.hashes = [f \in Files |-> IF f \in Changed(Parsed) THEN disk[f] ELSE NoFile]
    BY <1>0, <1>3, PlanDoes
  <2>2. UNCHANGED disk /\ Target \in disturbed'
    BY <1>3 DEF Plan
  <2>3. Changed(Parsed) \subseteq Parsed /\ Parsed \subseteq Files
    BY DEF Changed, OnDisk, Parsed
  <2>4. \A f \in Parsed : InScope(f)
    BY DEF Reads
  <2>5. \A f \in run'.stale : InScope(f)
    BY <2>1, <2>3, <2>4 DEF Deleted, Stamped, InScope
  <2>6. \A f \in Parsed : run'.hashes[f] \in {NoFile, disk[f]}
    BY <2>1, <2>3
  <2>7. Parsed' = Parsed /\ Target' = Target /\ \A f : InScope(f)' = InScope(f)
    BY <2>1, BuildStays
  <2>8. run.clean => \A f \in Parsed : disk[f] = run.parsed[f]
    BY DEF Reads
  <2> QED BY <2>1, <2>2, <2>4, <2>5, <2>6, <2>7, <2>8 DEF Reads, SameBuild
<1>4. CASE PlanForced
  <2>1. /\ SameBuild /\ run'.stale = run.stale /\ run'.hashes = run.hashes
        /\ (run'.clean => run.clean)
    BY <1>0, <1>4, PlanForcedDoes
  <2>2. UNCHANGED disk /\ Target \in disturbed'
    BY <1>4 DEF PlanForced
  <2> QED BY <2>1, <2>2, BuildStays DEF Reads, SameBuild
<1>5. CASE DeleteChildren \/ DeleteFiles \/ CreateDefinedIn \/ DropUses \/ CreateUses
  <2>1. PICK step : Go(step)
    BY <1>5 DEF DeleteChildren, DeleteFiles, CreateDefinedIn, DropUses, CreateUses
  <2>2. UNCHANGED <<disk, disturbed>> /\ run.at \notin {"idle", "plan"}
    BY <1>5 DEF DeleteChildren, DeleteFiles, CreateDefinedIn, DropUses, CreateUses
  <2>3. SameBuild /\ run'.hashes = run.hashes /\ run'.stale = run.stale /\ run'.clean = run.clean
    BY <1>0, <2>1, GoDoes
  <2> QED BY <1>1, <2>2, <2>3
<1>6. CASE HashRest
  <2>1. CASE run' = Idle
    BY <2>1, EndedIs
  <2>2. CASE run' # Idle
    <3>1. /\ SameBuild /\ run'.at = "nodes" /\ run'.stale = run.stale /\ run'.clean = run.clean
          /\ run'.hashes = [f \in Files |-> IF f \in Parsed /\ run.hashes[f] = NoFile
                                           THEN disk[f] ELSE run.hashes[f]]
      BY <1>0, <1>6, <2>2, HashRestDoes
    <3>2. UNCHANGED <<disk, disturbed>> /\ run.at \notin {"idle", "plan"} /\ Parsed \subseteq Files
      BY <1>6 DEF HashRest, Parsed
    <3>3. \A f \in Parsed : run'.hashes[f] \in {run.hashes[f], disk[f]}
      BY <3>1, <3>2
    <3>4. Parsed' = Parsed /\ Target' = Target /\ \A f : InScope(f)' = InScope(f)
      BY <3>1, BuildStays
    <3>5. Target \in disturbed /\ \A f \in Parsed \cup run.stale : InScope(f)
      BY <3>2 DEF Reads
    <3>6. run'.clean => \A f \in Parsed : disk[f] = run'.parsed[f] /\ run'.hashes[f] \in {NoFile, disk[f]}
      BY <3>1, <3>3 DEF Reads, SameBuild
    <3> QED BY <3>1, <3>2, <3>4, <3>5, <3>6 DEF Reads
  <2> QED BY <2>1, <2>2
<1>7. CASE CreateNodes
  <2>1. UNCHANGED <<disk, disturbed>> /\ run.at = "nodes"
    BY <1>7 DEF CreateNodes
  <2> QED BY <1>0, <1>1, <1>7, <2>1, CreateNodesDoes
<1>8. CASE IngestCrossModule
  <2>1. UNCHANGED <<disk, disturbed>> /\ run.at = "cross"
    BY <1>8 DEF IngestCrossModule
  <2> QED BY <1>0, <1>1, <1>8, <2>1, IngestCrossModuleDoes
<1>9. ASSUME NEW f \in Files, NEW c, Edit(f, c)
      PROVE  Reads'
  <2>1. /\ SameBuild /\ run'.at = run.at /\ run'.stale = run.stale /\ run'.hashes = run.hashes
        /\ run'.clean = (run.clean /\ f \notin Parsed)
        /\ \A g \in Files : disk'[g] = IF g = f THEN c ELSE disk[g]
    BY <1>0, <1>9, EditDoes
  <2>2. UNCHANGED disturbed /\ Parsed \subseteq Files
    BY <1>9 DEF Edit, Parsed
  <2>3. run'.clean => \A g \in Parsed : disk'[g] = disk[g]
    BY <2>1, <2>2
  <2> QED BY <2>1, <2>2, <2>3, BuildStays DEF Reads, SameBuild
<1>10. CASE Skip \/ Stamp \/ Crash
  BY <1>10, EndedIs DEF Skip, Stamp, Crash, End
<1>11. ASSUME UNCHANGED <<disk, run, disturbed>>
       PROVE  Reads'
  BY <1>11 DEF Reads, Parsed, Target, InScope
<1>12. ASSUME NEW m \in Modules, ClearModule(m) PROVE Reads'
  BY <1>11, <1>12 DEF ClearModule
<1>13. CASE UNCHANGED vars
  BY <1>11, <1>13 DEF vars
<1> QED BY <1>2, <1>3, <1>4, <1>5, <1>6, <1>7, <1>8, <1>9, <1>10, <1>12, <1>13 DEF Next, RunStep

LEMMA DropsStep ==
  ASSUME TypeInv, Reads, Drops, [Next]_vars
  PROVE  Drops'
<1> DEFINE S == Stamped(run.kind, run.mod)
<1>0. TypeOK /\ IsRun(run) /\ run.kind \in Kinds
  BY DEF TypeInv, TypeOK, IsRun
<1>1. ASSUME SameBuild, run'.stale = run.stale, run'.clean => run.clean,
             \A f \in Files : stamp'[f] \notin {NoNode, NoHash} => stamp'[f] = stamp[f],
             \/ run.at \in {"children", "files"} /\ run'.at \in {"children", "files"}
             \/ /\ run.at \in {"hash", "nodes", "cross", "link", "drop", "uses", "stamp"}
                /\ run'.at \notin {"children", "files"}
             \/ run'.at \in {"idle", "plan"}
      PROVE  Drops'
  <2>1. S' \subseteq S /\ Parsed' = Parsed
    BY <1>0, <1>1, StampedStays, BuildStays DEF SameBuild
  <2> QED BY <1>1, <2>1 DEF Drops, SameBuild
<1>2. ASSUME NEW k \in Kinds, NEW m \in Modules, NEW p \in Projects, NEW force \in BOOLEAN,
             Start(k, m, p, force)
      PROVE  Drops'
  <2>1. run'.at = "plan"
    BY <1>0, <1>2, StartDoes
  <2> QED BY <2>1 DEF Drops
<1>3. CASE Plan
  <2> DEFINE first == IsFirstRun(run.kind, run.mod, Parsed)
  <2>1. /\ SameBuild /\ run'.at = (IF first THEN "hash" ELSE "children")
        /\ run'.stale = (IF first THEN {} ELSE Changed(Parsed) \cup Deleted(run.kind, run.mod, Parsed))
    BY <1>0, <1>3, PlanDoes
  <2>2. S' = S /\ Parsed' = Parsed
    <3>1. UNCHANGED stamp
      BY <1>3 DEF Plan, graph
    <3> QED BY <2>1, <3>1, BuildStays DEF Stamped, SameBuild
  <2>3. S \ Parsed \subseteq Deleted(run.kind, run.mod, Parsed)
    BY DEF Deleted, OnDisk
  <2>4. first => S \subseteq Parsed
    BY <2>3 DEF IsFirstRun
  <2> HIDE DEF first, S
  <2> QED BY <2>1, <2>2, <2>3, <2>4 DEF Drops, S
<1>4. CASE PlanForced
  <2>1. /\ SameBuild /\ run'.at = "hash"
        /\ run'.clean = (run.clean /\ Deleted(run.kind, run.mod, Parsed) = {})
    BY <1>0, <1>4, PlanForcedDoes
  <2>2. S' = S /\ Parsed' = Parsed
    <3>1. UNCHANGED stamp
      BY <1>4 DEF PlanForced, graph
    <3> QED BY <2>1, <3>1, BuildStays DEF Stamped, SameBuild
  <2>3. S \ Parsed \subseteq Deleted(run.kind, run.mod, Parsed)
    BY DEF Deleted, OnDisk
  <2> HIDE DEF S
  <2> QED BY <2>1, <2>2, <2>3 DEF Drops, S
<1>5. CASE DeleteChildren
  <2>1. SameBuild /\ run'.at = "files" /\ run'.stale = run.stale /\ run'.clean = run.clean
    BY <1>0, <1>5, GoDoes DEF DeleteChildren
  <2>2. run.at = "children" /\ \A f \in Files : stamp'[f] = stamp[f]
    BY <1>5 DEF DeleteChildren, DetachDelete
  <2> QED BY <1>1, <2>1, <2>2
<1>6. CASE DeleteFiles
  <2>1. SameBuild /\ run'.at = "hash" /\ run'.stale = run.stale /\ run'.clean = run.clean
    BY <1>0, <1>6, GoDoes DEF DeleteFiles
  <2>2. run.at = "files" /\ stamp' = [f \in Files |-> IF f \in run.stale THEN NoNode ELSE stamp[f]]
    BY <1>6 DEF DeleteFiles, DetachDelete
  <2>3. S' \subseteq S \ run.stale
    <3>1. OfKind(run.kind) \subseteq Files
      BY DEF OfKind, Files
    <3> QED BY <2>1, <2>2, <3>1 DEF Stamped, SameBuild
  <2>4. Parsed' = Parsed
    BY <2>1, BuildStays
  <2> HIDE DEF S
  <2> QED BY <2>1, <2>2, <2>3, <2>4 DEF Drops, S
<1>7. CASE HashRest
  <2>1. CASE run' = Idle
    BY <2>1, EndedIs
  <2>2. CASE run' # Idle
    <3>1. SameBuild /\ run'.at = "nodes" /\ run'.stale = run.stale /\ run'.clean = run.clean
      BY <1>0, <1>7, <2>2, HashRestDoes
    <3>2. run.at = "hash" /\ UNCHANGED stamp
      BY <1>7 DEF HashRest, graph
    <3> QED BY <1>1, <3>1, <3>2
  <2> QED BY <2>1, <2>2
<1>8. CASE CreateNodes
  <2>1. run.at = "nodes" /\ \A f \in Files : stamp'[f] \notin {NoNode, NoHash} => stamp'[f] = stamp[f]
    BY <1>8 DEF CreateNodes
  <2>2. SameBuild /\ run'.stale = run.stale /\ run'.clean = run.clean /\ run'.at \in {"cross", "link"}
    BY <1>0, <1>8, CreateNodesDoes
  <2> QED BY <1>1, <2>1, <2>2
<1>9. CASE IngestCrossModule
  <2>1. \A f \in Files : stamp'[f] \notin {NoNode, NoHash} => stamp'[f] = stamp[f]
    BY <1>0, <1>9, IngestCrossModuleDoes
  <2>2. SameBuild /\ run'.stale = run.stale /\ run'.clean = run.clean /\ run'.at = "link"
    BY <1>0, <1>9, IngestCrossModuleDoes
  <2>3. run.at = "cross"
    BY <1>9 DEF IngestCrossModule
  <2> QED BY <1>1, <2>1, <2>2, <2>3
<1>10. CASE CreateDefinedIn \/ DropUses \/ CreateUses
  <2>1. PICK step \in {"drop", "uses", "stamp"} : Go(step)
    BY <1>10 DEF CreateDefinedIn, DropUses, CreateUses
  <2>2. SameBuild /\ run'.at = step /\ run'.stale = run.stale /\ run'.clean = run.clean
    BY <1>0, <2>1, GoDoes
  <2>3. UNCHANGED stamp /\ run.at \in {"link", "drop", "uses"}
    BY <1>10 DEF CreateDefinedIn, DropUses, CreateUses
  <2> QED BY <1>1, <2>2, <2>3
<1>11. ASSUME NEW f \in Files, NEW c, Edit(f, c)
       PROVE  Drops'
  <2>1. SameBuild /\ run'.at = run.at /\ run'.stale = run.stale /\ (run'.clean => run.clean)
    BY <1>0, <1>11, EditDoes
  <2>2. UNCHANGED stamp
    BY <1>11 DEF Edit, graph
  <2>3. S' = S /\ Parsed' = Parsed
    BY <2>1, <2>2, BuildStays DEF Stamped, SameBuild
  <2> QED BY <2>1, <2>3 DEF Drops, SameBuild
<1>12. CASE Skip \/ Stamp \/ Crash
  BY <1>12, EndedIs DEF Skip, Stamp, Crash, End
<1>13. ASSUME NEW m \in Modules, ClearModule(m) PROVE Drops'
  <2>1. run' = Idle
    BY <1>13 DEF ClearModule
  <2> QED BY <2>1, EndedIs
<1>14. CASE UNCHANGED vars
  BY <1>14 DEF vars, graph, Drops, Stamped, Parsed
<1> QED BY <1>2, <1>3, <1>4, <1>5, <1>6, <1>7, <1>8, <1>9, <1>10, <1>11, <1>12, <1>13, <1>14
        DEF Next, RunStep

\* Writing between the nodes and the relationships of a run keeps what it has written.
LEMMA WritesStep ==
  ASSUME TypeInv, OneOfEach, Reads, Writes, [Next]_vars
  PROVE  Writes'
<1>0. TypeOK /\ IsRun(run) /\ run.kind \in Kinds /\ run.proj \in Projects
  BY DEF TypeInv, TypeOK, IsRun
<1>s. \A e \in Found : /\ e \in Elements /\ e[1] \in Parsed /\ e[1] \in Files
                       /\ e[1] \in OfKind(run.kind) /\ ModuleOf[e[1]] = run.mod
  BY DEF Found, Parsed, Reads, InScope
<1>1. ASSUME run'.at \in {"idle", "plan", "children", "files", "hash", "nodes"}
      PROVE  Writes'
  BY <1>1 DEF Writes
<1>2. ASSUME NEW k \in Kinds, NEW m \in Modules, NEW p \in Projects, NEW force \in BOOLEAN,
             Start(k, m, p, force)
      PROVE  Writes'
  BY <1>0, <1>1, <1>2, StartDoes
<1>3. CASE Plan
  BY <1>0, <1>1, <1>3, PlanDoes
<1>4. CASE PlanForced
  BY <1>0, <1>1, <1>4, PlanForcedDoes
<1>5. CASE DeleteChildren \/ DeleteFiles
  <2>1. PICK step \in {"files", "hash"} : Go(step)
    BY <1>5 DEF DeleteChildren, DeleteFiles
  <2>2. run'.at = step
    BY <1>0, <2>1, GoDoes
  <2> QED BY <1>1, <2>2
<1>6. CASE HashRest
  <2>1. CASE run' = Idle
    BY <2>1, EndedIs
  <2>2. CASE run' # Idle
    BY <1>0, <1>1, <1>6, <2>2, HashRestDoes
  <2> QED BY <2>1, <2>2
<1>7. CASE CreateNodes
  <2>1. /\ SameBuild /\ run'.at \in {"cross", "link"} /\ run'.known = Found
    BY <1>0, <1>7, CreateNodesDoes
  <2>2. Parsed' = Parsed /\ Found' = Found /\ run'.kind = run.kind
    BY <2>1, BuildStays DEF SameBuild
  <2>3. /\ elements' = elements \cup Found
        /\ stamp' = [f \in Files |-> IF f \in Parsed /\ stamp[f] = NoNode THEN NoHash ELSE stamp[f]]
    BY <1>7 DEF CreateNodes
  <2>4. \A f \in Parsed : stamp'[f] # NoNode
    BY <2>3, NoAssumption DEF Parsed
  <2>5. run.kind = "sfr" => \A x \in Found : x[1] \in SfrFiles
    BY <1>s DEF OfKind
  <2> QED BY <2>1, <2>2, <2>3, <2>4, <2>5 DEF Writes
<1>8. CASE IngestCrossModule
  <2>1. PICK absent \in SUBSET SfrFiles, more \in SUBSET {e \in Elements : e[1] \in SfrFiles} :
         /\ elements \subseteq elements'
         /\ stamp' = [f \in Files |-> IF f \in absent /\ stamp[f] = NoNode THEN NoHash ELSE stamp[f]]
         /\ SameBuild /\ run'.at = "link" /\ run'.known = run.known \cup more
    BY <1>0, <1>8, IngestCrossModuleDoes
  <2>2. Parsed' = Parsed /\ Found' = Found /\ run'.kind = run.kind
    BY <2>1, BuildStays DEF SameBuild
  <2>3. run.at = "cross"
    BY <1>8 DEF IngestCrossModule
  <2>4. \A f \in Parsed : stamp'[f] # NoNode
    BY <2>1, <2>3, NoAssumption DEF Parsed, Writes
  <2> QED BY <2>1, <2>2, <2>3, <2>4 DEF Writes
<1>9. CASE CreateDefinedIn
  <2>1. SameBuild /\ run'.at = "drop" /\ run'.known = run.known
    BY <1>0, <1>9, GoDoes DEF CreateDefinedIn
  <2>2. Parsed' = Parsed /\ Found' = Found /\ run'.kind = run.kind
    BY <2>1, BuildStays DEF SameBuild
  <2>3. run.at = "link" /\ UNCHANGED <<stamp, elements>>
    BY <1>9 DEF CreateDefinedIn
  <2>4. ASSUME NEW e \in Found PROVE <<e, e[1]>> \in definedIn'
    <3>1. e \in run.known \cap elements /\ e[1] \in {f \in Parsed : stamp[f] # NoNode}
      BY <1>s, <2>3 DEF Writes
    <3> QED BY <1>9, <3>1 DEF CreateDefinedIn
  <2> QED BY <2>1, <2>2, <2>3, <2>4 DEF Writes
<1>10. CASE DropUses
  <2>1. SameBuild /\ run'.at = "uses" /\ run'.known = run.known
    BY <1>0, <1>10, GoDoes DEF DropUses
  <2>2. Parsed' = Parsed /\ Found' = Found /\ run'.kind = run.kind
    BY <2>1, BuildStays DEF SameBuild
  <2>3. run.at = "drop" /\ UNCHANGED <<stamp, elements, definedIn>>
    BY <1>10 DEF DropUses
  <2> QED BY <2>1, <2>2, <2>3 DEF Writes
<1>11. CASE CreateUses
  <2>1. SameBuild /\ run'.at = "stamp" /\ run'.known = run.known
    BY <1>0, <1>11, GoDoes DEF CreateUses
  <2>2. Parsed' = Parsed /\ Found' = Found /\ run'.kind = run.kind /\ run'.mod = run.mod
    BY <2>1, BuildStays DEF SameBuild
  <2>3. /\ run.at = "uses" /\ UNCHANGED <<stamp, elements, definedIn>> /\ NoteAccesses
        /\ run.kind = "source" => uses' = uses \cup SourceUses
        /\ run.kind = "sfr" => uses' = uses \cup SfrUses
    BY <1>11 DEF CreateUses
  <2>4. RegisterNodes' = RegisterNodes /\ FunctionsOf(run.mod)' = FunctionsOf(run.mod)
    BY <2>2, <2>3 DEF RegisterNodes, FunctionsOf, InModule
  <2>5. /\ Found \subseteq elements \cap run.known /\ \A f \in Parsed : stamp[f] # NoNode
        /\ run.kind = "sfr" => \A x \in run.known : x[1] \in SfrFiles
        /\ \A e \in Found : <<e, e[1]>> \in definedIn
    BY <2>3 DEF Writes
  <2>6. ASSUME run.kind = "source"
        PROVE  /\ \A e, c \in Found : <<e[2], c[2]>> \in Uses => <<e, c>> \in uses'
               /\ \A e \in Found : AccessesRegisters(e) => e \in accessing'
               /\ \A e \in Found, r \in RegisterNodes :
                    r[2] \in Registers /\ <<e[2], r[2]>> \in Uses => <<e, r>> \in uses'
    <3>1. ASSUME NEW e \in Found, NEW c \in Found, <<e[2], c[2]>> \in Uses
          PROVE  c \in Callees(e)
      <4>1. c \in FunctionsOf(run.mod)
        BY <1>s, <2>5, <2>6 DEF FunctionsOf, InModule, OfKind
      <4>2. ProjectOf[c[1]] = run.proj
        BY <1>0, <1>s, FilesAssumption DEF OneOfEach
      <4>3. c[2] \in {x[2] : x \in run.known}
        BY <2>5
      <4> QED BY <3>1, <4>1, <4>2, <4>3 DEF Callees
    <3>2. ASSUME NEW e \in Found, NEW x \in Callees(e) \cup Accessed(e)
          PROVE  <<e, x>> \in uses'
      <4>1. e \in Found \cap elements /\ <<e, x>> \in {e} \X (Callees(e) \cup Accessed(e))
        BY <2>5
      <4> HIDE DEF Callees, Accessed
      <4>2. <<e, x>> \in SourceUses
        BY <4>1 DEF SourceUses
      <4> QED BY <2>3, <2>6, <4>2
    <3>3. \A e \in Found : AccessesRegisters(e) => e \in accessing'
      BY <2>3, <2>5, <2>6 DEF NoteAccesses
    <3>4. ASSUME NEW e \in Found, NEW r \in RegisterNodes, <<e[2], r[2]>> \in Uses
          PROVE  r \in Accessed(e)
      BY <3>4 DEF Accessed
    <3> QED BY <3>1, <3>2, <3>3, <3>4
  <2>7. ASSUME run.kind = "sfr", NEW e \in FunctionsOf(run.mod) \cap accessing', NEW r \in Found,
               <<e[2], r[2]>> \in Uses
        PROVE  <<e, r>> \in uses'
    <3>1. e \in FunctionsOf(run.mod) \cap accessing
      BY <2>3, <2>7 DEF NoteAccesses
    <3>2. r \in Accessed(e) /\ r \in run.known
      BY <1>s, <2>5, <2>7 DEF Accessed, RegisterNodes, OfKind
    <3>3. <<e, r>> \in {e} \X {x \in Accessed(e) : \E y \in run.known : y[2] = x[2]}
      BY <3>2
    <3>4. <<e, r>> \in SfrUses
      BY <3>1, <3>3 DEF SfrUses
    <3> QED BY <2>3, <2>7, <3>4
  <2>8. \A e : AccessesRegisters(e)' = AccessesRegisters(e)
    BY DEF AccessesRegisters
  <2> QED BY <2>1, <2>2, <2>3, <2>4, <2>5, <2>6, <2>7, <2>8 DEF Writes
<1>12. ASSUME NEW f \in Files, NEW c, Edit(f, c)
       PROVE  Writes'
  <2>1. SameBuild /\ run'.at = run.at /\ run'.known = run.known
    BY <1>0, <1>12, EditDoes
  <2>2. Parsed' = Parsed /\ Found' = Found /\ run'.kind = run.kind /\ run'.mod = run.mod
    BY <2>1, BuildStays DEF SameBuild
  <2>3. UNCHANGED graph
    BY <1>12 DEF Edit
  <2>4. RegisterNodes' = RegisterNodes /\ FunctionsOf(run.mod)' = FunctionsOf(run.mod)
        /\ \A e : AccessesRegisters(e)' = AccessesRegisters(e)
    BY <2>2, <2>3 DEF RegisterNodes, FunctionsOf, InModule, graph, AccessesRegisters
  <2> QED BY <2>1, <2>2, <2>3, <2>4 DEF Writes, graph
<1>13. CASE Skip \/ Stamp \/ Crash
  BY <1>13, EndedIs DEF Skip, Stamp, Crash, End
<1>14. ASSUME NEW m \in Modules, ClearModule(m) PROVE Writes'
  <2>1. run' = Idle
    BY <1>14 DEF ClearModule
  <2> QED BY <2>1, EndedIs
<1>15. CASE UNCHANGED vars
  <2>1. Parsed' = Parsed /\ Found' = Found /\ RegisterNodes' = RegisterNodes
        /\ FunctionsOf(run.mod)' = FunctionsOf(run.mod)
        /\ \A e : AccessesRegisters(e)' = AccessesRegisters(e)
    BY <1>15 DEF vars, graph, Parsed, Found, RegisterNodes, FunctionsOf, InModule, AccessesRegisters
  <2> QED BY <1>15, <2>1 DEF Writes, vars, graph
<1> QED BY <1>2, <1>3, <1>4, <1>5, <1>6, <1>7, <1>8, <1>9, <1>10, <1>11, <1>12, <1>13, <1>14, <1>15
        DEF Next, RunStep

(***************************************************************************)
(* The graph between the steps                                             *)
(***************************************************************************)

\* The only header takes the registers, and a file its functions.
LEMMA LinkedStep ==
  ASSUME TypeInv, OneOfEach, Reads, Writes, LinkedToOwn, [Next]_vars
  PROVE  LinkedToOwn'
<1>1. ASSUME definedIn' \subseteq definedIn
      PROVE  LinkedToOwn'
  BY <1>1 DEF LinkedToOwn
<1>2. ASSUME NEW gone, NEW files, DetachDelete(gone, files)
      PROVE  LinkedToOwn'
  BY <1>1, <1>2 DEF DetachDelete
<1>3. CASE CreateDefinedIn
  <2>1. ASSUME NEW d \in definedIn', d \notin definedIn PROVE d[2] = d[1][1]
    <3>1. /\ d[1] \in run.known /\ d[2] \in Parsed /\ run.at = "link"
          /\ run.kind = "source" => d[2] = d[1][1]
      BY <1>3, <2>1 DEF CreateDefinedIn
    <3>2. CASE run.kind = "source"
      BY <3>1, <3>2
    <3>3. CASE run.kind # "source"
      <4>1. run.kind = "sfr"
        BY <3>3 DEF TypeInv, TypeOK, IsRun, Kinds
      <4>2. d[1][1] \in SfrFiles
        BY <3>1, <4>1 DEF Writes
      <4>3. d[2] \in SfrFiles
        BY <3>1, <4>1 DEF Reads, InScope, OfKind
      <4> QED BY <4>2, <4>3 DEF OneOfEach
    <3> QED BY <3>2, <3>3
  <2> QED BY <2>1 DEF LinkedToOwn
<1>4. CASE DeleteChildren \/ DeleteFiles
  BY <1>2, <1>4 DEF DeleteChildren, DeleteFiles
<1>5. ASSUME NEW m \in Modules, ClearModule(m) PROVE LinkedToOwn'
  BY <1>2, <1>5 DEF ClearModule
<1>6. CASE Skip \/ Plan \/ PlanForced \/ HashRest \/ CreateNodes \/ IngestCrossModule
           \/ DropUses \/ CreateUses \/ Stamp \/ Crash
  BY <1>1, <1>6 DEF Skip, Plan, PlanForced, HashRest, CreateNodes, IngestCrossModule,
     DropUses, CreateUses, Stamp, Crash, graph
<1>7. ASSUME NEW k \in Kinds, NEW m \in Modules, NEW p \in Projects, NEW force \in BOOLEAN,
             Start(k, m, p, force)
      PROVE  LinkedToOwn'
  BY <1>1, <1>7 DEF Start, graph
<1>8. ASSUME NEW f \in Files, NEW c, Edit(f, c) PROVE LinkedToOwn'
  BY <1>1, <1>8 DEF Edit, graph
<1>9. CASE UNCHANGED vars
  BY <1>1, <1>9 DEF vars, graph
<1> QED BY <1>3, <1>4, <1>5, <1>6, <1>7, <1>8, <1>9 DEF Next, RunStep

\* Only edits write files.
LEMMA DiskStays ==
  ASSUME [Next]_vars, ~ \E f \in Files : \E c \in Contents[f] \cup {NoFile} : Edit(f, c)
  PROVE  UNCHANGED disk
BY DEF Next, RunStep, Start, Skip, Plan, PlanForced, DeleteChildren, DeleteFiles, HashRest,
   CreateNodes, IngestCrossModule, CreateDefinedIn, DropUses, CreateUses, Stamp, Crash,
   ClearModule, vars

LEMMA HeadersStep ==
  ASSUME TypeInv, HeadersHoldRegisters, [Next]_vars
  PROVE  HeadersHoldRegisters'
<1>1. CASE UNCHANGED disk
  BY <1>1 DEF HeadersHoldRegisters
<1>2. ASSUME NEW f \in Files, NEW c \in Contents[f] \cup {NoFile}, Edit(f, c)
      PROVE  HeadersHoldRegisters'
  <2>1. \A g \in Files : disk'[g] = IF g = f THEN c ELSE disk[g]
    BY <1>2, EditDoes DEF TypeInv
  <2>2. f \in SfrFiles => c = NoFile \/ c \subseteq Registers
    BY ContentsAssumption
  <2>3. SfrFiles \subseteq Files
    BY DEF Files
  <2> QED BY <2>1, <2>2, <2>3 DEF HeadersHoldRegisters
<1> QED BY <1>1, <1>2, DiskStays

(***************************************************************************)
(* Complete files                                                          *)
(***************************************************************************)

\* What hangs on the stale files is part of the build that is under way.
LEMMA DeleteChildrenComplete ==
  ASSUME TypeInv, OneOfEach, Reads, LinkedToOwn, Complete, DeleteChildren
  PROVE  Complete'
<1> DEFINE gone == {e \in elements : \E f \in run.stale : <<e, f>> \in definedIn}
<1>0. TypeOK /\ run.kind \in Kinds /\ run.mod \in Modules /\ run.proj \in Projects
  BY DEF TypeInv, TypeOK, IsRun
<1>1. DetachDelete(gone, {}) /\ UNCHANGED disturbed /\ run.at = "children"
  BY DEF DeleteChildren
<1>2. \A e \in gone : InScope(e[1])
  BY DEF LinkedToOwn, Reads
<1>3. Target \in disturbed
  BY <1>1 DEF Reads
<1>4. ASSUME NEW k \in Kinds, NEW m \in Modules, NEW p \in Projects, Undisturbed(k, m, p),
             NEW e \in Recorded(k, m)', e \in gone
      PROVE  FALSE
  <2>1. e[1] \in OfKind(k) /\ ModuleOf[e[1]] = m
    BY <1>4 DEF Recorded, Stamped
  <2>2. e[1] \in OfKind(run.kind) /\ ModuleOf[e[1]] = run.mod
    BY <1>2, <1>4 DEF InScope
  <2>3. k = run.kind /\ m = run.mod
    BY <1>0, <2>1, <2>2, FilesAssumption DEF OfKind, Kinds
  <2>4. p = run.proj
    BY <1>0 DEF OneOfEach
  <2> QED BY <1>3, <1>4, <2>3, <2>4 DEF Undisturbed, Target
<1> HIDE DEF gone
<1> QED BY <1>0, <1>1, <1>4, DeletingStays

\* Clearing a module takes the stamps of its files with their functions.
LEMMA ClearModuleComplete ==
  ASSUME TypeOK, Complete, NEW m \in Modules, ClearModule(m)
  PROVE  Complete'
<1> DEFINE gone == InModule(m)
           files == {f \in Files : ModuleOf[f] = m}
<1>1. DetachDelete(gone, files) /\ UNCHANGED disturbed
  BY DEF ClearModule
<1>2. ASSUME NEW k \in Kinds, NEW n \in Modules, NEW e \in Recorded(k, n)', e \in gone
      PROVE  FALSE
  <2>1. e \in Elements /\ ModuleOf[e[1]] = n /\ stamp'[e[1]] \notin {NoNode, NoHash}
    BY <1>2 DEF Recorded, Stamped
  <2>2. ModuleOf[e[1]] = m /\ e[1] \in Files
    BY <1>2, <2>1 DEF InModule, Elements
  <2>3. stamp'[e[1]] = NoNode
    BY <1>1, <2>2 DEF DetachDelete
  <2> QED BY <2>1, <2>3
<1> HIDE DEF gone, files
<1> QED BY <1>1, <1>2, DeletingStays

\* A run that drops the relationships of its functions is under way; a register
\* builder leaves the calls between functions.
LEMMA DropUsesComplete ==
  ASSUME TypeInv, OneOfEach, Reads, Complete, DropUses
  PROVE  Complete'
<1> DEFINE callers == {e \in FunctionsOf(run.mod) : run.kind = "source" => ProjectOf[e[1]] = run.proj}
<1>0. TypeOK /\ run.kind \in Kinds /\ run.mod \in Modules /\ run.proj \in Projects
  BY DEF TypeInv, TypeOK, IsRun
<1>1. /\ run.at = "drop" /\ UNCHANGED <<stamp, elements, definedIn, accessing, disturbed>>
      /\ uses' = {u \in uses : \/ u[1] \notin callers
                               \/ u[2][1] \in SourceFiles /\ run.kind = "sfr"
                               \/ u[2][1] \in SfrFiles /\ run.kind = "source" /\ ~FoundAccesses}
  BY DEF DropUses
<1>2. Target \in disturbed
  BY <1>1 DEF Reads
<1>3. \A e \in callers : ModuleOf[e[1]] = run.mod
  BY DEF FunctionsOf, InModule
<1> HIDE DEF callers
<1> SUFFICES ASSUME NEW m \in Modules, NEW p \in Projects
             PROVE  /\ \A k \in Kinds : CompleteNodes(k, m, p)'
                    /\ CompleteCalls(m, p)' /\ CompleteAccesses(m, p)'
  BY DEF Complete
<1>4. p = run.proj /\ "source" \in Kinds /\ "sfr" \in Kinds
  BY <1>0 DEF OneOfEach, Kinds
<1>5. \A k \in Kinds : Recorded(k, m)' \subseteq Recorded(k, m)
  BY <1>1, NothingRecorded
<1>6. \A k \in Kinds : Undisturbed(k, m, p)' <=> Undisturbed(k, m, p)
  BY <1>1 DEF Undisturbed
<1>7. \A e \in Recorded("source", m) : e[1] \in SourceFiles /\ ModuleOf[e[1]] = m
  BY DEF Recorded, Stamped, OfKind
<1>8. ASSUME Undisturbed("source", m, p), NEW e \in Recorded("source", m),
             NEW c \in Recorded("source", m), <<e, c>> \in uses
      PROVE  <<e, c>> \in uses'
  <2>1. CASE run.kind = "sfr"
    BY <1>1, <1>7, <1>8, <2>1
  <2>2. CASE run.kind = "source"
    <3>1. m # run.mod
      BY <1>2, <1>4, <1>8, <2>2 DEF Undisturbed, Target
    <3>2. e \notin callers
      BY <1>3, <1>7, <3>1
    <3> QED BY <1>1, <1>8, <3>2
  <2> QED BY <1>0, <2>1, <2>2 DEF Kinds
<1>9. ASSUME Undisturbed("source", m, p), Undisturbed("sfr", m, p),
             NEW e \in Recorded("source", m), NEW r, <<e, r>> \in uses
      PROVE  <<e, r>> \in uses'
  <2>1. m # run.mod
    BY <1>0, <1>2, <1>4, <1>9 DEF Undisturbed, Target, Kinds
  <2>2. e \notin callers
    BY <1>3, <1>7, <2>1
  <2> QED BY <1>1, <1>9, <2>2
<1> QED BY <1>1, <1>4, <1>5, <1>6, <1>8, <1>9, CompleteStays

\* The stamps of a clean run record what it has found and written; the other
\* builds, and those that were disturbed, are as before.
LEMMA StampComplete ==
  ASSUME TypeInv, OneOfEach, Reads, Drops, Writes, Complete, Stamp
  PROVE  Complete'
<1>0. TypeOK /\ IsRun(run) /\ run.kind \in Kinds /\ run.mod \in Modules /\ run.proj \in Projects
  BY DEF TypeInv, TypeOK, IsRun
<1>1. /\ run.at = "stamp" /\ UNCHANGED <<disk, elements, definedIn, uses, accessing>>
      /\ stamp' = [f \in Files |-> IF f \in Parsed /\ stamp[f] # NoNode THEN run.hashes[f] ELSE stamp[f]]
      /\ disturbed' = IF run.clean THEN disturbed \ {Target} ELSE disturbed
  BY DEF Stamp
<1>2. /\ Target \in disturbed
      /\ \A f \in Parsed : f \in OfKind(run.kind) /\ ModuleOf[f] = run.mod
  BY <1>1 DEF Reads, InScope
<1>3. \A k \in Kinds : OfKind(k) \subseteq Files
  BY DEF OfKind, Files
<1>4. ASSUME NEW k \in Kinds, NEW m \in Modules, ~(k = run.kind /\ m = run.mod)
      PROVE  Recorded(k, m)' \subseteq Recorded(k, m)
  <2> SUFFICES ASSUME NEW e \in Recorded(k, m)' PROVE e \in Recorded(k, m)
    OBVIOUS
  <2>1. /\ e \in Elements /\ e[1] \in OfKind(k) /\ ModuleOf[e[1]] = m
        /\ stamp'[e[1]] \notin {NoNode, NoHash} /\ e[2] \in stamp'[e[1]]
    BY DEF Recorded, Stamped
  <2>2. e[1] \notin Parsed
    BY <1>0, <1>2, <1>4, <2>1, FilesAssumption DEF OfKind, Kinds
  <2>3. stamp'[e[1]] = stamp[e[1]]
    BY <1>1, <1>3, <2>1, <2>2
  <2> QED BY <2>1, <2>3 DEF Recorded, Stamped
<1>5. ASSUME NEW k \in Kinds, NEW m \in Modules, NEW p \in Projects, ~(k = run.kind /\ m = run.mod)
      PROVE  Undisturbed(k, m, p)' => Undisturbed(k, m, p)
  BY <1>1, <1>5 DEF Undisturbed, Target
<1>6. PICK kind \in Kinds, mod \in Modules : kind = run.kind /\ mod = run.mod
  BY <1>0
<1>7. ASSUME ~run.clean, NEW p \in Projects
      PROVE  ~Undisturbed(kind, mod, p)'
  <2>1. p = run.proj
    BY <1>0 DEF OneOfEach
  <2> QED BY <1>1, <1>2, <1>6, <1>7, <2>1 DEF Undisturbed, Target
<1>8. ASSUME run.clean
      PROVE  Recorded(kind, mod)' \subseteq Found
  <2> SUFFICES ASSUME NEW e \in Recorded(kind, mod)' PROVE e \in Found
    OBVIOUS
  <2>1. /\ e \in Elements /\ e[1] \in OfKind(kind) /\ ModuleOf[e[1]] = mod /\ e[1] \in Files
        /\ stamp'[e[1]] \notin {NoNode, NoHash} /\ e[2] \in stamp'[e[1]]
    BY <1>3 DEF Recorded, Stamped
  <2>2. e[1] \in Parsed
    <3>1. SUFFICES ASSUME e[1] \notin Parsed PROVE FALSE
      OBVIOUS
    <3>2. stamp'[e[1]] = stamp[e[1]]
      BY <1>1, <2>1, <3>1
    <3>3. e[1] \in Stamped(run.kind, run.mod)
      BY <1>6, <2>1, <3>2 DEF Stamped
    <3> QED BY <1>1, <1>8, <3>1, <3>3 DEF Drops
  <2>3. stamp'[e[1]] = run.hashes[e[1]]
    BY <1>1, <2>1, <2>2 DEF Writes
  <2>4. run.hashes[e[1]] = run.parsed[e[1]]
    BY <1>1, <1>8, <2>2 DEF TypeInv, HashesKnown, Reads
  <2> QED BY <2>1, <2>2, <2>3, <2>4 DEF Found
<1>9. \A k \in Kinds, m \in Modules, p \in Projects :
        CompleteNodes(k, m, p) /\ CompleteCalls(m, p) /\ CompleteAccesses(m, p)
  BY DEF Complete
<1> SUFFICES ASSUME NEW m \in Modules, NEW p \in Projects
             PROVE  /\ \A k \in Kinds : CompleteNodes(k, m, p)'
                    /\ CompleteCalls(m, p)' /\ CompleteAccesses(m, p)'
  BY DEF Complete
<1>10. CASE m # mod \/ ~run.clean
  <2>1. \A k \in Kinds : Undisturbed(k, m, p)' => ~(k = run.kind /\ m = run.mod)
    BY <1>6, <1>7, <1>10
  <2>2. \A k \in Kinds : Undisturbed(k, m, p)' =>
          Recorded(k, m)' \subseteq Recorded(k, m) /\ Undisturbed(k, m, p)
    BY <1>4, <1>5, <2>1
  <2> QED BY <1>1, <2>2, CompleteStays
<1>11. CASE m = mod /\ run.clean
  <2>0. "source" \in Kinds /\ "sfr" \in Kinds
    BY DEF Kinds
  <2>1. /\ Found \subseteq elements /\ \A e \in Found : <<e, e[1]>> \in definedIn
    BY <1>1 DEF Writes
  <2>2. Recorded(kind, m)' \subseteq Found
    BY <1>8, <1>11
  <2>3. ASSUME NEW k \in Kinds PROVE CompleteNodes(k, m, p)'
    <3>1. CASE k = kind
      BY <1>1, <2>1, <2>2, <3>1 DEF CompleteNodes
    <3>2. CASE k # kind
      BY <1>1, <1>4, <1>5, <1>6, <1>9, <3>2 DEF CompleteNodes
    <3> QED BY <3>1, <3>2
  <2>4. \A e : AccessesRegisters(e)' = AccessesRegisters(e)
    BY DEF AccessesRegisters
  <2>5. CompleteCalls(m, p)'
    <3>1. CASE kind = "source"
      <4>1. /\ \A e, c \in Found : <<e[2], c[2]>> \in Uses => <<e, c>> \in uses
            /\ \A e \in Found : AccessesRegisters(e) => e \in accessing
        BY <1>1, <1>6, <3>1 DEF Writes
      <4> QED BY <1>1, <2>2, <2>4, <3>1, <4>1 DEF CompleteCalls
    <3>2. CASE kind = "sfr"
      <4>1. /\ Recorded("source", m)' \subseteq Recorded("source", m)
            /\ Undisturbed("source", m, p)' => Undisturbed("source", m, p)
        BY <1>4, <1>5, <1>6, <2>0, <3>2
      <4> QED BY <1>1, <1>9, <2>4, <4>1 DEF CompleteCalls
    <3> QED BY <3>1, <3>2 DEF Kinds
  <2>6. CompleteAccesses(m, p)'
    <3> SUFFICES ASSUME Undisturbed("source", m, p)', Undisturbed("sfr", m, p)',
                        NEW e \in Recorded("source", m)', NEW r \in Recorded("sfr", m)',
                        r[2] \in Registers, <<e[2], r[2]>> \in Uses
                 PROVE  <<e, r>> \in uses
      BY <1>1 DEF CompleteAccesses
    <3>1. e[1] \in SourceFiles /\ ModuleOf[e[1]] = m /\ r[1] \in SfrFiles
      BY DEF Recorded, Stamped, OfKind
    <3>2. e \in elements /\ r \in elements
      BY <1>1, <2>0, <2>3 DEF CompleteNodes
    <3>3. CASE kind = "source"
      <4>1. e \in Found /\ r \in RegisterNodes
        BY <2>2, <3>1, <3>2, <3>3 DEF RegisterNodes
      <4> QED BY <1>1, <1>6, <3>3, <4>1 DEF Writes
    <3>4. CASE kind = "sfr"
      <4>1. r \in Found
        BY <2>2, <3>4
      <4>2. e \in FunctionsOf(run.mod)
        BY <1>6, <1>11, <3>1, <3>2 DEF FunctionsOf, InModule
      <4>3. e \in accessing
        BY <1>1, <2>4, <2>5 DEF CompleteCalls, AccessesRegisters
      <4> QED BY <1>1, <1>6, <3>4, <4>1, <4>2, <4>3 DEF Writes
    <3> QED BY <3>3, <3>4 DEF Kinds
  <2> QED BY <2>3, <2>5, <2>6
<1> QED BY <1>10, <1>11

LEMMA CompleteStep ==
  ASSUME TypeInv, OneOfEach, CompleteInv, [Next]_vars
  PROVE  Complete'
<1> USE DEF CompleteInv
<1>0. TypeOK
  BY DEF TypeInv
<1>1. ASSUME UNCHANGED graph, disturbed \subseteq disturbed'
      PROVE  Complete'
  BY <1>1, AddingStays DEF graph
<1>2. CASE Skip \/ Plan \/ PlanForced \/ HashRest \/ Crash
  BY <1>1, <1>2 DEF Skip, Plan, PlanForced, HashRest, Crash
<1>3. ASSUME NEW k \in Kinds, NEW m \in Modules, NEW p \in Projects, NEW force \in BOOLEAN,
             Start(k, m, p, force)
      PROVE  Complete'
  BY <1>1, <1>3 DEF Start
<1>4. ASSUME NEW f \in Files, NEW c, Edit(f, c) PROVE Complete'
  BY <1>1, <1>4 DEF Edit
<1>5. CASE DeleteChildren
  BY <1>5, DeleteChildrenComplete
<1>6. CASE DeleteFiles
  <2>1. DetachDelete({}, run.stale) /\ UNCHANGED disturbed
    BY <1>6 DEF DeleteFiles
  <2> QED BY <1>0, <2>1, DeletingStays
<1>7. CASE CreateNodes
  BY <1>7, AddingStays DEF CreateNodes
<1>8. CASE IngestCrossModule
  <2>1. /\ \A f \in Files : stamp'[f] \notin {NoNode, NoHash} => stamp'[f] = stamp[f]
        /\ elements \subseteq elements'
    BY <1>0, <1>8, IngestCrossModuleDoes
  <2>2. UNCHANGED <<definedIn, uses, accessing, disturbed>>
    BY <1>8 DEF IngestCrossModule
  <2> QED BY <2>1, <2>2, AddingStays
<1>9. CASE CreateDefinedIn
  BY <1>9, AddingStays DEF CreateDefinedIn
<1>10. CASE DropUses
  BY <1>10, DropUsesComplete
<1>11. CASE CreateUses
  <2>1. uses \subseteq uses' /\ accessing \subseteq accessing'
        /\ UNCHANGED <<stamp, elements, definedIn, disturbed>>
    BY <1>11 DEF CreateUses, NoteAccesses
  <2> QED BY <2>1, AddingStays
<1>12. CASE Stamp
  BY <1>12, StampComplete
<1>13. ASSUME NEW m \in Modules, ClearModule(m) PROVE Complete'
  BY <1>0, <1>13, ClearModuleComplete
<1>14. CASE UNCHANGED vars
  BY <1>1, <1>14 DEF vars
<1> QED BY <1>2, <1>3, <1>4, <1>5, <1>6, <1>7, <1>8, <1>9, <1>10, <1>11, <1>12, <1>13, <1>14
        DEF Next, RunStep

LEMMA InitComplete == Init => CompleteInv
<1> SUFFICES ASSUME Init PROVE CompleteInv
  OBVIOUS
<1>1. run.at = "idle" /\ run.stale = {} /\ Parsed = {}
  BY DEF Init, Idle, Parsed, Nothing
<1>2. Reads /\ Drops /\ Writes
  BY <1>1 DEF Reads, Drops, Writes
<1>3. \A f \in SfrFiles : disk[f] \in {NoFile} \cup Contents[f]
  BY DEF Init, Files
<1>4. HeadersHoldRegisters
  BY <1>3, ContentsAssumption DEF HeadersHoldRegisters
<1>5. \A k \in Kinds, m \in Modules : Recorded(k, m) = {}
  BY DEF Init, Recorded, Stamped, OfKind, Files
<1>6. Complete
  BY <1>5 DEF Complete, CompleteNodes, CompleteCalls, CompleteAccesses, Kinds
<1>7. LinkedToOwn
  BY DEF Init, LinkedToOwn
<1> QED BY <1>2, <1>4, <1>6, <1>7 DEF CompleteInv

\* Where the next run would skip, the stamps are what stands on the disk.
LEMMA SkippedIsRecorded ==
  ASSUME TypeOK, NEW k \in Kinds, NEW m \in Modules, NEW p \in Projects, WouldSkip(k, m, p)
  PROVE  Defined(k, m, p) \subseteq Recorded(k, m)
<1> SUFFICES ASSUME NEW e \in Defined(k, m, p) PROVE e \in Recorded(k, m)
  OBVIOUS
<1> DEFINE fs == OnDisk(Scope(k, m, p))
<1>1. e \in Elements /\ e[1] \in fs /\ e[2] \in disk[e[1]]
  BY DEF Defined
<1>2. e[1] \in OfKind(k) /\ ModuleOf[e[1]] = m /\ e[1] \in OnDisk(fs)
  BY <1>1 DEF OnDisk, Scope
<1>3. stamp[e[1]] = disk[e[1]]
  BY <1>2 DEF WouldSkip, NoChanges, Changed
<1>4. disk[e[1]] # NoFile /\ e[1] \in Files
  BY <1>1 DEF OnDisk, Elements
<1>5. disk[e[1]] \notin Unwritten
  BY <1>4, ContentsAreNames DEF TypeOK
<1> QED BY <1>1, <1>2, <1>3, <1>5 DEF Recorded, Stamped, Unwritten

\* In every state in which the invariant holds, what is skipped is complete.
LEMMA CompleteSkips ==
  ASSUME TypeInv, OneOfEach, CompleteInv
  PROVE  SkippedIsComplete
<1>0. "source" \in Kinds /\ "sfr" \in Kinds
  BY DEF Kinds
<1>1. ASSUME NEW k \in Kinds, NEW m \in Modules, NEW p \in Projects, WouldSkip(k, m, p)
      PROVE  Defined(k, m, p) \subseteq Recorded(k, m)
  BY <1>1, SkippedIsRecorded DEF TypeInv
<1>2. \A k \in Kinds, m \in Modules, p \in Projects :
        CompleteNodes(k, m, p) /\ CompleteCalls(m, p) /\ CompleteAccesses(m, p)
  BY DEF CompleteInv, Complete
<1>3. SkippedKeepsNodes
  BY <1>1, <1>2 DEF SkippedKeepsNodes, CompleteNodes
<1>4. SkippedKeepsUses
  BY <1>0, <1>1, <1>2 DEF SkippedKeepsUses, CompleteCalls
<1>5. SkippedKeepsAccesses
  <2> SUFFICES ASSUME NEW m \in Modules, NEW p \in Projects,
                      \A k \in Kinds : WouldSkip(k, m, p) /\ Undisturbed(k, m, p),
                      NEW e \in Defined("source", m, p), NEW r \in Defined("sfr", m, p),
                      <<e[2], r[2]>> \in Uses
               PROVE  <<e, r>> \in uses
    BY DEF SkippedKeepsAccesses
  <2>1. e \in Recorded("source", m) /\ r \in Recorded("sfr", m)
    BY <1>0, <1>1
  <2>2. r[2] \in Registers
    BY DEF Defined, OnDisk, Scope, OfKind, CompleteInv, HeadersHoldRegisters
  <2> QED BY <1>0, <1>2, <2>1, <2>2 DEF CompleteAccesses
<1> QED BY <1>3, <1>4, <1>5 DEF SkippedIsComplete

\* With one project and one register header, whatever number of modules, source
\* files and names there is: the files of a module that the next run would skip
\* have all their functions, registers, calls and accesses in the graph, unless
\* the last build of the module was cut short or overtaken by an edit.
THEOREM SkippedStaysComplete == OneOfEach => (Spec => []SkippedIsComplete)
<1> SUFFICES ASSUME OneOfEach PROVE Spec => []SkippedIsComplete
  OBVIOUS
<1>1. TypeInv /\ CompleteInv /\ [Next]_vars => CompleteInv'
  BY ReadsStep, DropsStep, WritesStep, LinkedStep, HeadersStep, CompleteStep DEF CompleteInv
<1>2. TypeInv /\ CompleteInv => SkippedIsComplete
  BY CompleteSkips
<1> QED BY InitComplete, <1>1, <1>2, TypeInvariant, PTL DEF Spec

(***************************************************************************)
(* What a run leaves of the files it does not layer                        *)
(***************************************************************************)

\* Every function and register hangs on its file, or is about to.
Hangs ==
  \A e \in elements :
    e[1] \notin orphaned =>
      \/ <<e, e[1]>> \in definedIn
      \/ Unlinked /\ e \in run.known /\ e[1] \in Parsed
HasNodes == (Unlinked \/ Linked) => \A f \in Parsed : stamp[f] # NoNode

\* What the run has read of a file is on the disk and is what it has hashed.
ReadWhole ==
  \A f \in Parsed :
    (f \notin layered \/ run.clean) =>
      disk[f] = run.parsed[f] /\ run.hashes[f] \in {NoFile, run.parsed[f]}

\* Nothing is left of what it was to delete, and the other files it has read hold
\* what the graph has of them.
Emptied ==
  /\ run.at = "plan" => run.stale = {}
  /\ run.at \in {"files", "hash", "nodes"} =>
       \A e \in elements : e[1] \notin run.stale \ orphaned
  /\ (Unlinked \/ Linked) =>
       \A e \in elements : e[1] \notin run.stale \ (orphaned \cup Parsed)
AsRead ==
  /\ run.at \in {"children", "files", "hash", "nodes"} =>
       \A e \in elements :
         e[1] \in Parsed \ (layered \cup orphaned \cup run.stale) => e[2] \in run.parsed[e[1]]
  /\ (Unlinked \/ Linked) =>
       \A e \in elements :
         (e[1] \in Parsed \ orphaned /\ (e[1] \notin layered \/ e[1] \in run.stale))
           => e[2] \in run.parsed[e[1]]

\* What a run is not at work on is as it was stamped.
AsStamped ==
  \A e \in elements :
    (e[1] \notin layered \cup orphaned /\ ~((Unlinked \/ Linked) /\ e[1] \in Parsed))
      => stamp[e[1]] \notin {NoNode, NoHash} /\ e[2] \in stamp[e[1]]
LeftInv == Hangs /\ HasNodes /\ ReadWhole /\ Emptied /\ AsRead /\ AsStamped

\* A run deletes a file node after what hangs on it, and links what it has created.
LEMMA HangsStep ==
  ASSUME TypeInv, Hangs, HasNodes, Emptied, [Next]_vars
  PROVE  Hangs'
<1>0. TypeOK /\ elements \subseteq Elements
  BY DEF TypeInv, TypeOK
<1>f. \A e \in elements : e[1] \in Files
  BY <1>0 DEF Elements
<1>1. ASSUME UNCHANGED <<elements, definedIn>>, orphaned \subseteq orphaned', ~Unlinked
      PROVE  Hangs'
  BY <1>1 DEF Hangs
<1>2. ASSUME UNCHANGED <<elements, definedIn>>, orphaned \subseteq orphaned', Unlinked' = Unlinked,
             run'.known = run.known, Parsed' = Parsed
      PROVE  Hangs'
  BY <1>2 DEF Hangs
<1>3. ASSUME NEW k \in Kinds, NEW m \in Modules, NEW p \in Projects, NEW force \in BOOLEAN,
             Start(k, m, p, force)
      PROVE  Hangs'
  <2>1. run = Idle /\ UNCHANGED <<elements, definedIn, orphaned>>
    BY <1>3 DEF Start, graph
  <2>2. ~Unlinked
    BY <2>1 DEF Unlinked, Idle
  <2> QED BY <1>1, <2>1, <2>2
<1>4. CASE Skip \/ Plan \/ PlanForced \/ HashRest \/ DropUses \/ CreateUses \/ Stamp
  <2>1. UNCHANGED <<elements, definedIn, orphaned>>
    BY <1>4 DEF Skip, Plan, PlanForced, HashRest, DropUses, CreateUses, Stamp, graph
  <2>2. ~Unlinked
    BY <1>4 DEF Skip, Plan, PlanForced, HashRest, DropUses, CreateUses, Stamp, Unlinked
  <2> QED BY <1>1, <2>1, <2>2
<1>5. CASE DeleteChildren
  <2>1. /\ elements' \subseteq elements /\ UNCHANGED orphaned /\ run.at = "children"
        /\ \A d \in definedIn : d[1] \in elements' => d \in definedIn'
    BY <1>5, <1>0 DEF DeleteChildren, DetachDelete
  <2> QED BY <2>1 DEF Hangs, Unlinked
<1>6. CASE DeleteFiles
  <2>1. /\ elements' = elements /\ UNCHANGED orphaned /\ run.at = "files"
        /\ \A d \in definedIn : d[2] \notin run.stale => d \in definedIn'
    BY <1>6, <1>0 DEF DeleteFiles, DetachDelete
  <2>2. \A e \in elements : e[1] \notin orphaned => e[1] \notin run.stale
    BY <2>1 DEF Emptied
  <2> QED BY <2>1, <2>2 DEF Hangs, Unlinked
<1>7. CASE CreateNodes
  <2>1. /\ run'.at \in {"cross", "link"} /\ run'.known = Found /\ Parsed' = Parsed
    BY <1>0, <1>7, CreateNodesDoes, BuildStays
  <2>2. elements' = elements \cup Found /\ run.at = "nodes" /\ UNCHANGED <<definedIn, orphaned>>
    BY <1>7 DEF CreateNodes
  <2> QED BY <2>1, <2>2 DEF Hangs, Unlinked, Found
<1>8. CASE IngestCrossModule
  <2>1. /\ run'.at = "link" /\ run.known \subseteq run'.known /\ Parsed' = Parsed
    BY <1>0, <1>8, IngestCrossModuleDoes, BuildStays
  <2>2. /\ \A e \in elements' : e[1] \notin orphaned' => e \in elements
        /\ orphaned \subseteq orphaned' /\ UNCHANGED definedIn
    BY <1>8 DEF IngestCrossModule
  <2> QED BY <2>1, <2>2 DEF Hangs, Unlinked
<1>9. CASE CreateDefinedIn
  <2>1. /\ run.at = "link" /\ UNCHANGED <<elements, orphaned>> /\ definedIn \subseteq definedIn'
        /\ \A e \in run.known \cap elements :
             e[1] \in Parsed /\ stamp[e[1]] # NoNode => <<e, e[1]>> \in definedIn'
    BY <1>9 DEF CreateDefinedIn
  <2>2. \A f \in Parsed : stamp[f] # NoNode
    BY <2>1 DEF HasNodes, Unlinked
  <2> QED BY <2>1, <2>2 DEF Hangs
<1>10. CASE Crash
  <2>1. UNCHANGED <<elements, definedIn>> /\ orphaned \subseteq orphaned'
        /\ (Unlinked => Parsed \subseteq orphaned')
    BY <1>10 DEF Crash, graph
  <2> QED BY <2>1 DEF Hangs
<1>11. ASSUME NEW f \in Files, NEW c, Edit(f, c)
       PROVE  Hangs'
  <2>1. UNCHANGED <<elements, definedIn, orphaned>>
    BY <1>11 DEF Edit, graph
  <2>2. run'.at = run.at /\ run'.known = run.known /\ Parsed' = Parsed
    BY <1>0, <1>11, EditDoes, BuildStays
  <2> QED BY <1>2, <2>1, <2>2 DEF Unlinked
<1>12. ASSUME NEW m \in Modules, ClearModule(m)
       PROVE  Hangs'
  <2>1. /\ elements' = {e \in elements : ModuleOf[e[1]] # m} /\ run = Idle
        /\ \A d \in definedIn : d[1] \in elements' /\ ModuleOf[d[2]] # m => d \in definedIn'
        /\ \A f \in orphaned : ModuleOf[f] # m => f \in orphaned'
    BY <1>0, <1>12 DEF ClearModule, DetachDelete, InModule
  <2>2. ~Unlinked
    BY <2>1 DEF Unlinked, Idle
  <2> QED BY <1>f, <2>1, <2>2 DEF Hangs
<1>13. CASE UNCHANGED vars
  <2>1. UNCHANGED <<elements, definedIn, orphaned, run>>
    BY <1>13 DEF vars, graph
  <2> QED BY <1>2, <2>1 DEF Unlinked, Parsed
<1> QED BY <1>3, <1>4, <1>5, <1>6, <1>7, <1>8, <1>9, <1>10, <1>11, <1>12, <1>13
        DEF Next, RunStep

\* A run reaches its relationships only with a node for every file it has read.
LEMMA HasNodesStep ==
  ASSUME TypeInv, HasNodes, [Next]_vars
  PROVE  HasNodes'
<1>0. TypeOK /\ IsRun(run)
  BY DEF TypeInv, TypeOK
<1>1. ASSUME run'.at \notin {"cross", "link", "drop", "uses", "stamp"}
      PROVE  HasNodes'
  BY <1>1 DEF HasNodes, Unlinked, Linked
<1>2. ASSUME Parsed' = Parsed, run.at \in {"cross", "link", "drop", "uses", "stamp"},
             \A f \in Parsed : stamp[f] # NoNode => stamp'[f] # NoNode
      PROVE  HasNodes'
  BY <1>2 DEF HasNodes, Unlinked, Linked
<1>3. ASSUME NEW k \in Kinds, NEW m \in Modules, NEW p \in Projects, NEW force \in BOOLEAN,
             Start(k, m, p, force)
      PROVE  HasNodes'
  BY <1>0, <1>1, <1>3, StartDoes
<1>4. CASE Plan \/ PlanForced
  BY <1>0, <1>1, <1>4, PlanDoes, PlanForcedDoes
<1>5. CASE DeleteChildren \/ DeleteFiles
  BY <1>0, <1>1, <1>5, GoDoes DEF DeleteChildren, DeleteFiles
<1>6. ASSUME run' = Idle PROVE HasNodes'
  BY <1>1, <1>6 DEF Idle
<1>7. CASE HashRest
  BY <1>0, <1>1, <1>6, <1>7, HashRestDoes
<1>8. CASE CreateNodes
  <2>1. Parsed' = Parsed /\ Parsed \subseteq Files
    BY <1>0, <1>8, CreateNodesDoes, BuildStays DEF Parsed
  <2>2. \A f \in Parsed : stamp'[f] # NoNode
    BY <1>8, <2>1, NoAssumption DEF CreateNodes
  <2> QED BY <2>1, <2>2 DEF HasNodes
<1>9. CASE IngestCrossModule
  <2>1. Parsed' = Parsed /\ Parsed \subseteq Files /\ run.at = "cross"
    BY <1>0, <1>9, IngestCrossModuleDoes, BuildStays DEF Parsed, IngestCrossModule
  <2>2. \A f \in Parsed : stamp[f] # NoNode => stamp'[f] # NoNode
    BY <1>9, <2>1 DEF IngestCrossModule
  <2> QED BY <1>2, <2>1, <2>2
<1>10. CASE CreateDefinedIn \/ DropUses \/ CreateUses
  <2>1. UNCHANGED stamp /\ run.at \in {"link", "drop", "uses"} /\ \E step : Go(step)
    BY <1>10 DEF CreateDefinedIn, DropUses, CreateUses
  <2>2. Parsed' = Parsed
    BY <1>0, <2>1, GoDoes, BuildStays
  <2> QED BY <1>2, <2>1, <2>2
<1>11. CASE Skip \/ Stamp \/ Crash
  BY <1>6, <1>11 DEF Skip, Stamp, Crash, End
<1>12. ASSUME NEW f \in Files, NEW c, Edit(f, c)
       PROVE  HasNodes'
  <2>1. UNCHANGED stamp /\ run'.at = run.at /\ Parsed' = Parsed
    BY <1>0, <1>12, EditDoes, BuildStays DEF Edit, graph
  <2> QED BY <2>1 DEF HasNodes, Unlinked, Linked
<1>13. ASSUME NEW m \in Modules, ClearModule(m)
       PROVE  HasNodes'
  BY <1>6, <1>13 DEF ClearModule
<1>14. CASE UNCHANGED vars
  BY <1>14 DEF vars, graph, HasNodes, Unlinked, Linked, Parsed
<1> QED BY <1>3, <1>4, <1>5, <1>7, <1>8, <1>9, <1>10, <1>11, <1>12, <1>13, <1>14
        DEF Next, RunStep

\* A file that changes under a run is layered from then on, and the run not clean.
LEMMA ReadWholeStep ==
  ASSUME TypeInv, ReadWhole, [Next]_vars
  PROVE  ReadWhole'
<1>0. TypeOK /\ IsRun(run) /\ Parsed \subseteq Files
  BY DEF TypeInv, TypeOK, Parsed
<1>1. ASSUME SameBuild, run'.hashes = run.hashes, run'.clean => run.clean, UNCHANGED disk,
             layered \subseteq layered'
      PROVE  ReadWhole'
  BY <1>1, BuildStays DEF ReadWhole, SameBuild
<1>2. ASSUME run' = Idle PROVE ReadWhole'
  BY <1>2 DEF ReadWhole, Parsed, Idle, Nothing
<1>3. ASSUME NEW k \in Kinds, NEW m \in Modules, NEW p \in Projects, NEW force \in BOOLEAN,
             Start(k, m, p, force)
      PROVE  ReadWhole'
  <2>1. /\ run'.parsed = [f \in Files |-> IF f \in OnDisk(Scope(k, m, p)) THEN disk[f] ELSE NoFile]
        /\ run'.hashes = Nothing
    BY <1>0, <1>3, StartDoes
  <2>2. UNCHANGED disk
    BY <1>3 DEF Start
  <2> QED BY <2>1, <2>2 DEF ReadWhole, Parsed, Nothing
<1>4. CASE Plan
  <2>1. /\ SameBuild /\ run'.clean = run.clean
        /\ run'.hashes = [f \in Files |-> IF f \in Changed(Parsed) THEN disk[f] ELSE NoFile]
    BY <1>0, <1>4, PlanDoes
  <2>2. UNCHANGED disk /\ layered \subseteq layered'
    BY <1>4 DEF Plan
  <2> QED BY <1>0, <2>1, <2>2, BuildStays DEF ReadWhole, SameBuild
<1>5. CASE PlanForced
  <2>1. UNCHANGED disk /\ layered \subseteq layered'
    BY <1>5 DEF PlanForced
  <2> QED BY <1>0, <1>1, <1>5, <2>1, PlanForcedDoes
<1>6. CASE DeleteChildren \/ DeleteFiles \/ CreateDefinedIn \/ DropUses \/ CreateUses
  <2>1. UNCHANGED <<disk, layered>> /\ \E step : Go(step)
    BY <1>6 DEF DeleteChildren, DeleteFiles, CreateDefinedIn, DropUses, CreateUses
  <2> QED BY <1>0, <1>1, <2>1, GoDoes
<1>7. CASE HashRest
  <2>1. CASE run' # Idle
    <3>1. /\ SameBuild /\ run'.clean = run.clean
          /\ run'.hashes = [f \in Files |-> IF f \in Parsed /\ run.hashes[f] = NoFile
                                           THEN disk[f] ELSE run.hashes[f]]
      BY <1>0, <1>7, <2>1, HashRestDoes
    <3>2. UNCHANGED <<disk, layered>>
      BY <1>7 DEF HashRest
    <3> QED BY <1>0, <3>1, <3>2, BuildStays DEF ReadWhole, SameBuild
  <2> QED BY <1>2, <2>1
<1>8. CASE CreateNodes
  BY <1>0, <1>1, <1>8, CreateNodesDoes DEF CreateNodes
<1>9. CASE IngestCrossModule
  BY <1>0, <1>1, <1>9, IngestCrossModuleDoes DEF IngestCrossModule
<1>10. CASE Skip \/ Stamp \/ Crash
  BY <1>2, <1>10 DEF Skip, Stamp, Crash, End
<1>11. ASSUME NEW f \in Files, NEW c, Edit(f, c)
       PROVE  ReadWhole'
  <2>1. /\ SameBuild /\ run'.hashes = run.hashes /\ run'.clean = (run.clean /\ f \notin Parsed)
        /\ \A g \in Files : disk'[g] = IF g = f THEN c ELSE disk[g]
    BY <1>0, <1>11, EditDoes
  <2>2. layered \subseteq layered' /\ (f \in Parsed => f \in layered')
    BY <1>11 DEF Edit
  <2>3. Parsed' = Parsed /\ run'.parsed = run.parsed
    BY <2>1, BuildStays DEF SameBuild
  <2>4. ASSUME NEW g \in Parsed, g \notin layered' \/ run'.clean
        PROVE  g # f /\ (g \notin layered \/ run.clean)
    BY <2>1, <2>2, <2>4
  <2> QED BY <1>0, <2>1, <2>2, <2>3, <2>4 DEF ReadWhole
<1>12. ASSUME NEW m \in Modules, ClearModule(m)
       PROVE  ReadWhole'
  BY <1>2, <1>12 DEF ClearModule
<1>13. CASE UNCHANGED vars
  BY <1>13 DEF vars, ReadWhole, Parsed
<1> QED BY <1>3, <1>4, <1>5, <1>6, <1>7, <1>8, <1>9, <1>10, <1>11, <1>12, <1>13
        DEF Next, RunStep

\* What hung on the stale files is gone before they are, and only those read anew
\* get something again.
LEMMA EmptiedStep ==
  ASSUME TypeInv, Hangs, Emptied, [Next]_vars
  PROVE  Emptied'
<1>0. TypeOK /\ IsRun(run)
  BY DEF TypeInv, TypeOK
<1> DEFINE Early == {"files", "hash", "nodes"}
           Late == {"cross", "link", "drop", "uses", "stamp"}
<1>1. ASSUME run'.at \notin Early \cup Late \cup {"plan"}
      PROVE  Emptied'
  BY <1>1 DEF Emptied, Unlinked, Linked
<1>2. ASSUME Parsed' = Parsed, run'.stale = run.stale, orphaned \subseteq orphaned',
             \A e \in elements' : e[1] \notin orphaned' => e \in elements,
             \/ run.at \in Early /\ run'.at \in Early
             \/ run.at \in Late /\ run'.at \in Late
      PROVE  Emptied'
  BY <1>2 DEF Emptied, Unlinked, Linked
<1>3. ASSUME NEW k \in Kinds, NEW m \in Modules, NEW p \in Projects, NEW force \in BOOLEAN,
             Start(k, m, p, force)
      PROVE  Emptied'
  <2>1. run'.at = "plan" /\ run'.stale = {}
    BY <1>0, <1>3, StartDoes
  <2> QED BY <2>1 DEF Emptied, Unlinked, Linked
<1>4. ASSUME run' = Idle PROVE Emptied'
  BY <1>1, <1>4 DEF Idle
<1>5. CASE Plan
  <2>1. run.at = "plan" /\ UNCHANGED <<elements, orphaned>>
    BY <1>5 DEF Plan, graph
  <2>2. run'.at = "children" \/ (run'.at = "hash" /\ run'.stale = {})
    BY <1>0, <1>5, PlanDoes
  <2> QED BY <2>1, <2>2 DEF Emptied, Unlinked, Linked
<1>6. CASE PlanForced
  <2>1. run'.at = "hash" /\ run'.stale = run.stale /\ run.at = "plan"
    BY <1>0, <1>6, PlanForcedDoes DEF PlanForced
  <2> QED BY <2>1 DEF Emptied, Unlinked, Linked
<1>7. CASE DeleteChildren
  <2>1. run'.at = "files" /\ run'.stale = run.stale /\ run.at = "children"
    BY <1>0, <1>7, GoDoes DEF DeleteChildren
  <2>2. /\ UNCHANGED orphaned
        /\ \A e \in elements' : e \in elements /\ ~\E f \in run.stale : <<e, f>> \in definedIn
    BY <1>7 DEF DeleteChildren, DetachDelete
  <2>3. \A e \in elements : e[1] \notin orphaned => <<e, e[1]>> \in definedIn
    BY <2>1 DEF Hangs, Unlinked
  <2> QED BY <2>1, <2>2, <2>3 DEF Emptied, Unlinked, Linked
<1>8. CASE DeleteFiles
  <2>1. run'.at = "hash" /\ run'.stale = run.stale /\ run.at = "files" /\ Parsed' = Parsed
    BY <1>0, <1>8, GoDoes, BuildStays DEF DeleteFiles
  <2>2. elements' = elements /\ UNCHANGED orphaned
    BY <1>8 DEF DeleteFiles, DetachDelete
  <2> QED BY <1>2, <2>1, <2>2
<1>9. CASE HashRest
  <2>1. CASE run' # Idle
    <3>1. run'.at = "nodes" /\ run'.stale = run.stale /\ run.at = "hash" /\ Parsed' = Parsed
      BY <1>0, <1>9, <2>1, HashRestDoes, BuildStays DEF HashRest
    <3>2. UNCHANGED <<elements, orphaned>>
      BY <1>9 DEF HashRest, graph
    <3> QED BY <1>2, <3>1, <3>2
  <2> QED BY <1>4, <2>1
<1>10. CASE CreateNodes
  <2>1. /\ run'.at \in {"cross", "link"} /\ run'.stale = run.stale /\ run.at = "nodes"
        /\ Parsed' = Parsed
    BY <1>0, <1>10, CreateNodesDoes, BuildStays DEF CreateNodes
  <2>2. elements' = elements \cup Found /\ UNCHANGED orphaned /\ \A e \in Found : e[1] \in Parsed
    BY <1>10 DEF CreateNodes, Found
  <2> QED BY <2>1, <2>2 DEF Emptied, Unlinked, Linked
<1>11. CASE IngestCrossModule
  <2>1. run'.at = "link" /\ run'.stale = run.stale /\ run.at = "cross" /\ Parsed' = Parsed
    BY <1>0, <1>11, IngestCrossModuleDoes, BuildStays DEF IngestCrossModule
  <2>2. /\ \A e \in elements' : e[1] \notin orphaned' => e \in elements
        /\ orphaned \subseteq orphaned'
    BY <1>11 DEF IngestCrossModule
  <2> QED BY <1>2, <2>1, <2>2
<1>12. CASE CreateDefinedIn \/ DropUses \/ CreateUses
  <2>1. PICK step \in {"drop", "uses", "stamp"} : Go(step)
    BY <1>12 DEF CreateDefinedIn, DropUses, CreateUses
  <2>2. run.at \in {"link", "drop", "uses"} /\ UNCHANGED <<elements, orphaned>>
    BY <1>12 DEF CreateDefinedIn, DropUses, CreateUses
  <2>3. run'.at = step /\ run'.stale = run.stale /\ Parsed' = Parsed
    BY <1>0, <2>1, GoDoes, BuildStays
  <2> QED BY <1>2, <2>1, <2>2, <2>3
<1>13. CASE Skip \/ Stamp \/ Crash
  BY <1>4, <1>13 DEF Skip, Stamp, Crash, End
<1>14. ASSUME NEW f \in Files, NEW c, Edit(f, c)
       PROVE  Emptied'
  <2>1. run'.at = run.at /\ run'.stale = run.stale /\ Parsed' = Parsed
    BY <1>0, <1>14, EditDoes, BuildStays
  <2>2. UNCHANGED <<elements, orphaned>>
    BY <1>14 DEF Edit, graph
  <2> QED BY <2>1, <2>2 DEF Emptied, Unlinked, Linked
<1>15. ASSUME NEW m \in Modules, ClearModule(m)
       PROVE  Emptied'
  BY <1>4, <1>15 DEF ClearModule
<1>16. CASE UNCHANGED vars
  BY <1>16 DEF vars, graph, Emptied, Unlinked, Linked, Parsed
<1> HIDE DEF Early, Late
<1> QED BY <1>3, <1>5, <1>6, <1>7, <1>8, <1>9, <1>10, <1>11, <1>12, <1>13, <1>14, <1>15, <1>16
        DEF Next, RunStep

\* A run rebuilds a file on top of what it has read of it, or on nothing.
LEMMA AsReadStep ==
  ASSUME TypeInv, ReadWhole, Emptied, AsRead, AsStamped, [Next]_vars
  PROVE  AsRead'
<1>0. TypeOK /\ IsRun(run) /\ Parsed \subseteq Files
  BY DEF TypeInv, TypeOK, Parsed
<1> DEFINE Early == {"children", "files", "hash", "nodes"}
           Late == {"cross", "link", "drop", "uses", "stamp"}
<1>1. ASSUME run'.at \notin Early \cup Late
      PROVE  AsRead'
  BY <1>1 DEF AsRead, Unlinked, Linked
<1>2. ASSUME SameBuild, run'.stale = run.stale, orphaned \subseteq orphaned',
             layered \subseteq layered',
             \A e \in elements' : e[1] \notin orphaned' => e \in elements,
             \/ run.at \in Early /\ run'.at \in Early
             \/ run.at \in Late /\ run'.at \in Late
      PROVE  AsRead'
  BY <1>2, BuildStays DEF AsRead, Unlinked, Linked, SameBuild
<1>3. ASSUME NEW k \in Kinds, NEW m \in Modules, NEW p \in Projects, NEW force \in BOOLEAN,
             Start(k, m, p, force)
      PROVE  AsRead'
  BY <1>0, <1>1, <1>3, StartDoes
<1>4. ASSUME run' = Idle PROVE AsRead'
  BY <1>1, <1>4 DEF Idle
<1>p. ASSUME run.at = "plan"
      PROVE  \A e \in elements : e[1] \notin layered \cup orphaned =>
               stamp[e[1]] \notin {NoNode, NoHash} /\ e[2] \in stamp[e[1]]
  BY <1>p DEF AsStamped, Unlinked, Linked
<1>5. CASE Plan
  <2> DEFINE first == IsFirstRun(run.kind, run.mod, Parsed)
  <2>1. /\ SameBuild /\ run'.at = (IF first THEN "hash" ELSE "children")
        /\ run'.stale = (IF first THEN {} ELSE Changed(Parsed) \cup Deleted(run.kind, run.mod, Parsed))
    BY <1>0, <1>5, PlanDoes
  <2>2. /\ UNCHANGED <<elements, orphaned>> /\ run.at = "plan"
        /\ layered' = IF first THEN layered \cup Known(Parsed) ELSE layered
    BY <1>5 DEF Plan, graph
  <2>3. Parsed' = Parsed /\ run'.parsed = run.parsed
    BY <2>1, BuildStays DEF SameBuild
  <2>4. CASE first
    <3>1. \A f \in Parsed : f \notin layered' => stamp[f] = NoNode /\ f \notin layered
      BY <2>2, <2>4 DEF Known
    <3> QED BY <1>p, <2>1, <2>2, <2>3, <2>4, <3>1 DEF AsRead, Unlinked, Linked
  <2>5. CASE ~first
    <3>1. \A f \in Parsed : f \notin layered => disk[f] = run.parsed[f] /\ run.parsed[f] # NoFile
      BY DEF ReadWhole, Parsed
    <3>2. \A f \in Parsed : f \notin layered /\ f \notin run'.stale => stamp[f] = run.parsed[f]
      BY <1>0, <2>1, <2>5, <3>1 DEF Changed, OnDisk
    <3>3. run'.at = "children" /\ layered' = layered
      BY <2>1, <2>2, <2>5
    <3> HIDE DEF first
    <3> QED BY <1>p, <2>2, <2>3, <3>2, <3>3 DEF AsRead, Unlinked, Linked
  <2> QED BY <2>4, <2>5
<1>6. CASE PlanForced
  <2>1. SameBuild /\ run'.at = "hash" /\ run.at = "plan"
    BY <1>0, <1>6, PlanForcedDoes DEF PlanForced
  <2>2. UNCHANGED <<elements, orphaned>> /\ layered' = layered \cup Known(Parsed)
    BY <1>6 DEF PlanForced, graph
  <2>3. \A f \in Parsed : f \notin layered' => stamp[f] = NoNode /\ f \notin layered
    BY <2>2 DEF Known
  <2> QED BY <1>p, <2>1, <2>2, <2>3, BuildStays DEF AsRead, Unlinked, Linked
<1>7. CASE DeleteChildren \/ DeleteFiles
  <2>1. PICK step \in {"files", "hash"} : Go(step)
    BY <1>7 DEF DeleteChildren, DeleteFiles
  <2>2. /\ elements' \subseteq elements /\ UNCHANGED <<orphaned, layered>>
        /\ run.at \in {"children", "files"}
    BY <1>7 DEF DeleteChildren, DeleteFiles, DetachDelete
  <2>3. SameBuild /\ run'.at = step /\ run'.stale = run.stale
    BY <1>0, <2>1, GoDoes
  <2> QED BY <1>2, <2>1, <2>2, <2>3
<1>8. CASE HashRest
  <2>1. CASE run' # Idle
    <3>1. SameBuild /\ run'.at = "nodes" /\ run'.stale = run.stale /\ run.at = "hash"
      BY <1>0, <1>8, <2>1, HashRestDoes DEF HashRest
    <3>2. UNCHANGED <<elements, orphaned, layered>>
      BY <1>8 DEF HashRest, graph
    <3> QED BY <1>2, <3>1, <3>2
  <2> QED BY <1>4, <2>1
<1>9. CASE CreateNodes
  <2>1. SameBuild /\ run'.at \in Late /\ run'.stale = run.stale /\ run.at = "nodes"
    BY <1>0, <1>9, CreateNodesDoes DEF CreateNodes
  <2>2. Parsed' = Parsed /\ run'.parsed = run.parsed
    BY <2>1, BuildStays DEF SameBuild
  <2>3. elements' = elements \cup Found /\ UNCHANGED <<orphaned, layered>>
    BY <1>9 DEF CreateNodes
  <2>4. \A e \in Found : e[2] \in run.parsed[e[1]]
    BY DEF Found
  <2>5. ASSUME NEW e \in elements, e[1] \in Parsed \ orphaned,
               e[1] \notin layered \/ e[1] \in run.stale
        PROVE  e[2] \in run.parsed[e[1]]
    <3>1. e[1] \notin run.stale
      BY <2>1, <2>5 DEF Emptied
    <3> QED BY <2>1, <2>5, <3>1 DEF AsRead
  <2> QED BY <2>1, <2>2, <2>3, <2>4, <2>5 DEF AsRead
<1>10. CASE IngestCrossModule
  <2>1. SameBuild /\ run'.at = "link" /\ run'.stale = run.stale /\ run.at = "cross"
    BY <1>0, <1>10, IngestCrossModuleDoes DEF IngestCrossModule
  <2>2. /\ \A e \in elements' : e[1] \notin orphaned' => e \in elements
        /\ orphaned \subseteq orphaned' /\ UNCHANGED layered
    BY <1>10 DEF IngestCrossModule
  <2> QED BY <1>2, <2>1, <2>2
<1>11. CASE CreateDefinedIn \/ DropUses \/ CreateUses
  <2>1. PICK step \in {"drop", "uses", "stamp"} : Go(step)
    BY <1>11 DEF CreateDefinedIn, DropUses, CreateUses
  <2>2. run.at \in {"link", "drop", "uses"} /\ UNCHANGED <<elements, orphaned, layered>>
    BY <1>11 DEF CreateDefinedIn, DropUses, CreateUses
  <2>3. SameBuild /\ run'.at = step /\ run'.stale = run.stale
    BY <1>0, <2>1, GoDoes
  <2> QED BY <1>2, <2>1, <2>2, <2>3
<1>12. CASE Skip \/ Stamp \/ Crash
  BY <1>4, <1>12 DEF Skip, Stamp, Crash, End
<1>13. ASSUME NEW f \in Files, NEW c, Edit(f, c)
       PROVE  AsRead'
  <2>1. SameBuild /\ run'.at = run.at /\ run'.stale = run.stale
    BY <1>0, <1>13, EditDoes
  <2>2. UNCHANGED <<elements, orphaned>> /\ layered \subseteq layered'
    BY <1>13 DEF Edit, graph
  <2> QED BY <1>1, <1>2, <2>1, <2>2
<1>14. ASSUME NEW m \in Modules, ClearModule(m)
       PROVE  AsRead'
  BY <1>4, <1>14 DEF ClearModule
<1>15. CASE UNCHANGED vars
  BY <1>15 DEF vars, graph, AsRead, Unlinked, Linked, Parsed
<1> HIDE DEF Early, Late
<1> QED BY <1>3, <1>5, <1>6, <1>7, <1>8, <1>9, <1>10, <1>11, <1>12, <1>13, <1>14, <1>15
        DEF Next, RunStep

\* What a run stamps holds what hangs on it.
LEMMA StampedAsRead ==
  ASSUME TypeInv, HasNodes, ReadWhole, Emptied, AsRead, AsStamped, Stamp,
         NEW e \in elements, e[1] \notin layered' \cup orphaned
  PROVE  stamp'[e[1]] \notin {NoNode, NoHash} /\ e[2] \in stamp'[e[1]]
<1> DEFINE f == e[1]
<1>0. TypeOK /\ IsRun(run) /\ f \in Files /\ run.at = "stamp"
  BY DEF TypeInv, TypeOK, Elements, Stamp
<1>1. Linked /\ (f \notin layered \/ (run.clean /\ f \in run.stale))
  BY <1>0 DEF Stamp, Linked
<1>2. CASE f \in Parsed
  <2>1. e[2] \in run.parsed[f]
    BY <1>1, <1>2 DEF AsRead
  <2>2. run.hashes[f] = run.parsed[f]
    BY <1>0, <1>1, <1>2 DEF ReadWhole, TypeInv, HashesKnown
  <2>3. run.hashes[f] \notin {NoNode, NoHash}
    <3>1. run.hashes[f] # NoFile /\ IsContents(run.hashes, {NoFile})
      BY <1>0, <1>2 DEF TypeInv, HashesKnown, IsRun
    <3> QED BY <1>0, <3>1, ContentsAreNames DEF Unwritten
  <2>4. stamp'[f] = run.hashes[f]
    BY <1>0, <1>1, <1>2 DEF Stamp, HasNodes
  <2> QED BY <2>1, <2>2, <2>3, <2>4
<1>3. CASE f \notin Parsed
  <2>1. stamp'[f] = stamp[f]
    BY <1>0, <1>3 DEF Stamp
  <2>2. f \notin run.stale
    BY <1>1, <1>3 DEF Emptied
  <2> QED BY <1>1, <1>3, <2>1, <2>2 DEF AsStamped
<1> QED BY <1>2, <1>3

\* A step that takes nothing on and stamps nothing leaves the others as stamped.
LEMMA AsStampedStep ==
  ASSUME TypeInv, HasNodes, ReadWhole, Emptied, AsRead, AsStamped, [Next]_vars
  PROVE  AsStamped'
<1>0. TypeOK /\ IsRun(run) /\ Parsed \subseteq Files /\ \A e \in elements : e[1] \in Files
  BY DEF TypeInv, TypeOK, Parsed, Elements
<1> DEFINE Writing == Unlinked \/ Linked
<1>1. ASSUME orphaned \subseteq orphaned', layered \subseteq layered',
             \A e \in elements' : e[1] \notin orphaned' => e \in elements,
             \A e \in elements' : e[1] \notin layered' \cup orphaned' => stamp'[e[1]] = stamp[e[1]],
             \/ ~Writing
             \/ Writing' /\ Parsed' = Parsed
             \/ Parsed \subseteq layered' \cup orphaned'
      PROVE  AsStamped'
  BY <1>1 DEF AsStamped
<1>2. ASSUME run.at \notin {"cross", "link", "drop", "uses", "stamp"} PROVE ~Writing
  BY <1>2 DEF Unlinked, Linked
<1>3. ASSUME run'.at \in {"cross", "link", "drop", "uses", "stamp"} PROVE Writing'
  BY <1>3 DEF Unlinked, Linked
<1>i. run = Idle => ~Writing
  BY <1>2 DEF Idle
<1>4. ASSUME NEW k \in Kinds, NEW m \in Modules, NEW p \in Projects, NEW force \in BOOLEAN,
             Start(k, m, p, force)
      PROVE  AsStamped'
  <2>1. run = Idle /\ UNCHANGED <<elements, stamp, orphaned, layered>>
    BY <1>4 DEF Start, graph
  <2> QED BY <1>1, <1>i, <2>1
<1>5. CASE Skip \/ Plan \/ PlanForced \/ HashRest
  <2>1. /\ run.at \in {"plan", "hash"} /\ UNCHANGED <<elements, stamp, orphaned>>
        /\ layered \subseteq layered'
    BY <1>5 DEF Skip, Plan, PlanForced, HashRest, graph
  <2> QED BY <1>1, <1>2, <2>1
<1>6. CASE DeleteChildren
  <2>1. /\ run.at = "children" /\ elements' \subseteq elements /\ UNCHANGED <<orphaned, layered>>
        /\ \A f \in Files : stamp'[f] = stamp[f]
    BY <1>6 DEF DeleteChildren, DetachDelete
  <2> QED BY <1>0, <1>1, <1>2, <2>1
<1>7. CASE DeleteFiles
  <2>1. /\ run.at = "files" /\ elements' = elements /\ UNCHANGED <<orphaned, layered>>
        /\ \A f \in Files \ run.stale : stamp'[f] = stamp[f]
    BY <1>7 DEF DeleteFiles, DetachDelete
  <2>2. \A e \in elements : e[1] \notin orphaned => e[1] \notin run.stale
    BY <2>1 DEF Emptied
  <2> QED BY <1>0, <1>1, <1>2, <2>1, <2>2
<1>8. CASE CreateNodes
  <2>1. /\ run.at = "nodes" /\ elements' = elements \cup Found /\ UNCHANGED <<orphaned, layered>>
        /\ \A f \in Files \ Parsed : stamp'[f] = stamp[f]
        /\ \A e \in Found : e[1] \in Parsed
    BY <1>8 DEF CreateNodes, Found
  <2>2. Parsed' = Parsed /\ Writing'
    BY <1>0, <1>3, <1>8, CreateNodesDoes, BuildStays
  <2>3. ~Writing
    BY <1>2, <2>1
  <2> HIDE DEF Writing
  <2>4. \A e \in elements' : e[1] \notin Parsed => e \in elements /\ stamp'[e[1]] = stamp[e[1]]
    BY <1>0, <2>1
  <2> QED BY <2>1, <2>2, <2>3, <2>4 DEF AsStamped, Writing
<1>9. CASE IngestCrossModule
  <2>1. Parsed' = Parsed /\ Writing'
    BY <1>0, <1>3, <1>9, IngestCrossModuleDoes, BuildStays
  <2>2. /\ \A e \in elements' : e[1] \notin orphaned' => e \in elements
        /\ orphaned \subseteq orphaned' /\ UNCHANGED layered
        /\ \A f \in Files : f \notin orphaned' => stamp'[f] = stamp[f]
    BY <1>9 DEF IngestCrossModule
  <2>3. \A e \in elements' : e[1] \notin layered' \cup orphaned' => stamp'[e[1]] = stamp[e[1]]
    BY <1>0, <2>2
  <2> QED BY <1>1, <2>1, <2>2, <2>3
<1>10. CASE CreateDefinedIn \/ DropUses \/ CreateUses
  <2>1. PICK step \in {"drop", "uses", "stamp"} : Go(step)
    BY <1>10 DEF CreateDefinedIn, DropUses, CreateUses
  <2>2. UNCHANGED <<elements, stamp, orphaned, layered>>
    BY <1>10 DEF CreateDefinedIn, DropUses, CreateUses
  <2>3. Parsed' = Parsed /\ Writing'
    BY <1>0, <1>3, <2>1, GoDoes, BuildStays
  <2> QED BY <1>1, <2>2, <2>3
<1>11. CASE Stamp
  <2>1. UNCHANGED <<elements, orphaned>>
    BY <1>11 DEF Stamp
  <2> QED BY <1>11, <2>1, StampedAsRead DEF AsStamped
<1>12. CASE Crash
  <2>1. UNCHANGED <<elements, stamp>> /\ layered \subseteq layered' /\ orphaned \subseteq orphaned'
    BY <1>12 DEF Crash, graph
  <2>2. Writing => Parsed \subseteq layered' \cup orphaned'
    BY <1>12 DEF Crash
  <2> QED BY <1>1, <2>1, <2>2
<1>13. ASSUME NEW f \in Files, NEW c, Edit(f, c)
       PROVE  AsStamped'
  <2>1. UNCHANGED <<elements, stamp, orphaned>> /\ layered \subseteq layered'
    BY <1>13 DEF Edit, graph
  <2>2. run'.at = run.at /\ Parsed' = Parsed
    BY <1>0, <1>13, EditDoes, BuildStays
  <2>3. Writing' = Writing
    BY <2>2 DEF Unlinked, Linked
  <2> QED BY <1>1, <2>1, <2>2, <2>3
<1>14. ASSUME NEW m \in Modules, ClearModule(m)
       PROVE  AsStamped'
  <2>1. /\ elements' = {e \in elements : ModuleOf[e[1]] # m} /\ run = Idle /\ UNCHANGED run
        /\ \A f \in Files : ModuleOf[f] # m =>
             /\ stamp'[f] = stamp[f]
             /\ f \in layered => f \in layered'
             /\ f \in orphaned => f \in orphaned'
    BY <1>0, <1>14 DEF ClearModule, DetachDelete, InModule
  <2> QED BY <1>0, <1>i, <2>1 DEF AsStamped
<1>15. CASE UNCHANGED vars
  BY <1>15 DEF vars, graph, AsStamped, Unlinked, Linked, Parsed
<1> QED BY <1>4, <1>5, <1>6, <1>7, <1>8, <1>9, <1>10, <1>11, <1>12, <1>13, <1>14, <1>15
        DEF Next, RunStep

LEMMA InitLeft == Init => LeftInv
<1> SUFFICES ASSUME Init PROVE LeftInv
  OBVIOUS
<1>1. /\ elements = {} /\ run.at = "idle" /\ run.stale = {} /\ Parsed = {}
  BY DEF Init, Idle, Parsed, Nothing
<1> QED BY <1>1 DEF LeftInv, Hangs, HasNodes, ReadWhole, Emptied, AsRead, AsStamped, Unlinked, Linked

\* Between runs the graph has no function or register that its file, as stamped,
\* does not define, but of files that were layered or orphaned: whatever is
\* edited, rebuilt, cleared or cut short, for every number of modules, projects
\* and files.
THEOREM NothingIsLeftOver == Spec => []NoLeftovers
<1>1. TypeInv /\ LeftInv /\ [Next]_vars => LeftInv'
  BY HangsStep, HasNodesStep, ReadWholeStep, EmptiedStep, AsReadStep, AsStampedStep DEF LeftInv
<1>2. LeftInv => NoLeftovers
  <2>1. run = Idle => ~Unlinked /\ ~Linked
    BY DEF Idle, Unlinked, Linked
  <2> QED BY <2>1 DEF LeftInv, AsStamped, NoLeftovers
<1> QED BY InitLeft, <1>1, <1>2, TypeInvariant, PTL DEF Spec
=============================================================================
