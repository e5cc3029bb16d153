------------------------------ MODULE Incremental ------------------------------
(***************************************************************************)
(* IncrementalIngestionManager of incremental_ingestion.py, used as its       *)
(* docstring says: detect_changes, process every change, commit_state.  Files  *)
(* change and are committed to git at any time, also between the moments at   *)
(* which a run lists them, hashes them and processes them; the processing     *)
(* fails; the program dies, also while it writes its state file.             *)
(* Names begin with Inc where Ingestion has one of its own.                  *)
(***************************************************************************)
EXTENDS Integers, FiniteSets

CONSTANTS
  Paths,        \* the files below the directories
  Contents,     \* what may stand in a file
  NoFile,       \* not there
  NoHash,       \* "", the hash of a file that cannot be read
  NoCommit,     \* None, of a directory without git or when git fails
  Nothing,      \* no pending state
  MaxEdits,     \* bound: changes of files
  MaxCommits,   \* bound: git commits
  MaxTroubles   \* bound: failing runs, crashes and resets

ASSUME NoAssumption ==
  /\ Cardinality({NoFile, NoHash, NoCommit, Nothing}) = 4
  /\ DOMAIN Contents = Paths
  /\ \A f \in Paths : Contents[f] \cap {NoFile, NoHash, NoCommit, Nothing} = {}
ASSUME IncBoundsAssumption == MaxEdits \in Nat /\ MaxCommits \in Nat /\ MaxTroubles \in Nat

VARIABLES
  disk,       \* disk[f]: what stands in file f
  time,       \* time[f]: when it was last changed
  head,       \* the tree HEAD names
  state,      \* _state: the baseline
  pending,    \* _pending_state
  file,       \* the state file
  stored,     \* stored[f]: content of f that was processed last
  run,        \* the run that is on
  dirty,      \* changes were processed since the last commit_state (history)
  disturbed,  \* files that changed meanwhile, or were forgotten (history)
  edits, commits, troubles

manager == <<state, pending, file>>
bounds == <<edits, commits, troubles>>
incVars == <<disk, time, head, manager, stored, run, dirty, disturbed, bounds>>

AnyContent == UNION {Contents[f] : f \in Paths}
Tree == {d \in [Paths -> AnyContent \cup {NoFile}] : \A f \in Paths : d[f] \in Contents[f] \cup {NoFile}}
Empty == [f \in Paths |-> NoFile]
Fresh == [commit |-> NoCommit, snaps |-> Empty, times |-> [f \in Paths |-> 0]]
Idle == [at |-> "idle", commit |-> NoCommit, todo |-> {}, snaps |-> Empty,
         times |-> [f \in Paths |-> 0], report |-> {}, changes |-> {}, edited |-> {}]

IncInit ==
  /\ disk \in Tree
  /\ time = [f \in Paths |-> 0]
  /\ head \in {disk, Empty}
  /\ state = Fresh /\ pending = Nothing /\ file = Fresh
  /\ stored = Empty
  /\ run = Idle
  /\ dirty = FALSE /\ disturbed = {}
  /\ edits = 0 /\ commits = 0 /\ troubles = 0

Trouble == troubles < MaxTroubles /\ troubles' = troubles + 1 /\ UNCHANGED <<edits, commits>>
OnDisk == {f \in Paths : disk[f] # NoFile}

(***************************************************************************)
(* The working tree                                                        *)
(***************************************************************************)

\* A file is created, changed or removed.
Edit(f, content) ==
  /\ edits < MaxEdits
  /\ disk[f] # content
  /\ disk' = [disk EXCEPT ![f] = content]
  /\ edits' = edits + 1
  /\ time' = [time EXCEPT ![f] = edits']
  /\ run' = IF run = Idle THEN run ELSE [run EXCEPT !.edited = @ \cup {f}]
  /\ disturbed' = IF dirty THEN disturbed \cup {f} ELSE disturbed
  /\ UNCHANGED <<head, manager, stored, dirty, commits, troubles>>

GitCommit ==
  /\ commits < MaxCommits /\ head # disk
  /\ head' = disk
  /\ commits' = commits + 1
  /\ UNCHANGED <<disk, time, manager, stored, run, dirty, disturbed, edits, troubles>>

(***************************************************************************)
(* detect_changes                                                          *)
(***************************************************************************)

\* HEAD is read first, then the directories are walked.
Detect(commit) ==
  /\ run = Idle
  /\ run' = [Idle EXCEPT !.at = "walk", !.commit = commit]
  /\ UNCHANGED <<disk, time, head, manager, stored, dirty, disturbed, bounds>>

Walk ==
  /\ run.at = "walk"
  /\ run' = [run EXCEPT !.at = "hash", !.todo = OnDisk]
  /\ UNCHANGED <<disk, time, head, manager, stored, dirty, disturbed, bounds>>

\* In any order, by a pool of threads.
HashFile(f) ==
  /\ run.at = "hash" /\ f \in run.todo
  /\ run' = [run EXCEPT !.todo = @ \ {f}, !.times[f] = time[f],
                        !.snaps[f] = IF f \in OnDisk THEN disk[f] ELSE NoHash]
  /\ UNCHANGED <<disk, time, head, manager, stored, dirty, disturbed, bounds>>

\* git diff between the commit of the baseline and HEAD, [] when it fails.
GitDiff == {f \in Paths : /\ state.commit # NoCommit /\ run.commit # NoCommit
                          /\ state.commit[f] # run.commit[f]}

Added == {f \in Paths : state.snaps[f] = NoFile /\ run.snaps[f] # NoFile}
Deleted == {f \in Paths : state.snaps[f] # NoFile /\ run.snaps[f] = NoFile}
\* Variant: a file is only hashed to confirm what git says.
ModifiedByGit(git) ==
  {f \in Paths : /\ state.snaps[f] # NoFile /\ run.snaps[f] # NoFile
                 /\ state.snaps[f] # run.snaps[f] /\ f \in git}
Modified(git) ==
  {f \in Paths : /\ state.snaps[f] # NoFile /\ run.snaps[f] # NoFile
                 /\ state.snaps[f] # run.snaps[f] \/ f \in git}

\* Variant: only the paths found by the walk are looked at.
ChangesFound(git) == Added \cup Modified(git)
Changes(git) == Added \cup Modified(git) \cup Deleted

Report(git) ==
  /\ run.at = "hash" /\ run.todo = {}
  /\ run' = [run EXCEPT !.at = "process", !.report = Changes(git), !.changes = Changes(git)]
  /\ pending' = [commit |-> run.commit, snaps |-> run.snaps, times |-> run.times]
  /\ IF Changes(git) = {}
     THEN UNCHANGED <<dirty, disturbed>>
     ELSE dirty' = TRUE /\ disturbed' = disturbed \cup run.edited
  /\ UNCHANGED <<disk, time, head, state, file, stored, bounds>>

(***************************************************************************)
(* The caller                                                              *)
(***************************************************************************)

\* A change is processed: the file is read, or what came from it is deleted.
Process(f) ==
  /\ run.at = "process" /\ f \in run.changes
  /\ f \notin OnDisk => f \in Deleted
  /\ stored' = [stored EXCEPT ![f] = IF f \in Deleted THEN NoFile ELSE disk[f]]
  /\ run' = [run EXCEPT !.changes = @ \ {f}]
  /\ UNCHANGED <<disk, time, head, manager, dirty, disturbed, bounds>>

\* A file that is gone, or anything else, raises; nothing is committed.
Vanished == run.changes \ (OnDisk \cup Deleted)
ProcessFails ==
  /\ run.at = "process" /\ run.changes # {}
  /\ \/ Vanished # {} /\ UNCHANGED bounds
     \/ Trouble
  /\ run' = Idle
  /\ UNCHANGED <<disk, time, head, manager, stored, dirty, disturbed>>

NoChanges ==
  /\ run.at = "process" /\ run.report = {}
  /\ run' = Idle
  /\ UNCHANGED <<disk, time, head, manager, stored, dirty, disturbed, bounds>>

(***************************************************************************)
(* commit_state, reset_state and the state file                            *)
(***************************************************************************)

Settle == /\ dirty' = FALSE
          /\ disturbed' = (disturbed \ run.report) \cup run.edited

\* write_text truncates the file, and then fills it.
CommitState ==
  /\ run.at = "process" /\ run.report # {} /\ run.changes = {}
  /\ pending # Nothing
  /\ state' = pending /\ pending' = Nothing
  /\ file' = Nothing
  /\ run' = [run EXCEPT !.at = "save"]
  /\ Settle
  /\ UNCHANGED <<disk, time, head, stored, bounds>>

Save ==
  /\ run.at = "save"
  /\ file' = state
  /\ run' = Idle
  /\ UNCHANGED <<disk, time, head, state, pending, stored, dirty, disturbed, bounds>>

\* What came from files that are gone is never deleted by a fresh manager.
Forget == /\ dirty' = TRUE
          /\ disturbed' = disturbed \cup {f \in Paths \ OnDisk : stored[f] # NoFile}

\* The program dies.  The next one loads the file; a corrupt one counts as none.
Crash ==
  /\ Trouble
  /\ run' = Idle /\ pending' = Nothing
  /\ state' = IF file = Nothing THEN Fresh ELSE file
  /\ IF file = Nothing THEN Forget ELSE UNCHANGED <<dirty, disturbed>>
  /\ UNCHANGED <<disk, time, head, file, stored>>

Reset ==
  /\ run = Idle /\ Trouble
  /\ state' = Fresh /\ pending' = Nothing /\ file' = Fresh
  /\ Forget
  /\ UNCHANGED <<disk, time, head, stored, run>>

(***************************************************************************)
(* Specification                                                           *)
(***************************************************************************)

IncStep ==
  \/ \E commit \in {head, NoCommit} : Detect(commit)
  \/ Walk
  \/ \E f \in Paths : HashFile(f)
  \/ \E git \in {GitDiff, {}} : Report(git)
  \/ \E f \in Paths : Process(f)
  \/ NoChanges \/ CommitState \/ Save
  \/ Vanished # {} /\ ProcessFails
IncNext ==
  \/ IncStep
  \/ \E f \in Paths : \E content \in Contents[f] \cup {NoFile} : Edit(f, content)
  \/ GitCommit \/ ProcessFails \/ Crash \/ Reset

\* Somebody goes on running it.
IncSpec == IncInit /\ [][IncNext]_incVars /\ WF_incVars(IncStep)

(***************************************************************************)
(* Properties                                                              *)
(***************************************************************************)

IsSnaps(s) == s \in [Paths -> AnyContent \cup {NoFile, NoHash}]
IsState(s) ==
  /\ DOMAIN s = DOMAIN Fresh
  /\ s.commit = NoCommit \/ s.commit \in Tree
  /\ IsSnaps(s.snaps) /\ s.times \in [Paths -> 0 .. MaxEdits]
IsRun(r) ==
  /\ DOMAIN r = DOMAIN Idle
  /\ r.at \in {"idle", "walk", "hash", "process", "save"}
  /\ r.commit = NoCommit \/ r.commit \in Tree
  /\ IsSnaps(r.snaps) /\ r.times \in [Paths -> 0 .. MaxEdits]
  /\ r.todo \subseteq Paths /\ r.report \subseteq Paths /\ r.edited \subseteq Paths
  /\ r.changes \subseteq r.report

\* Every variable keeps its type, and a state is pending while changes are
\* processed.
IncTypeOK ==
  /\ disk \in Tree /\ head \in Tree /\ stored \in Tree
  /\ time \in [Paths -> 0 .. MaxEdits]
  /\ IsState(state)
  /\ pending = Nothing \/ IsState(pending)
  /\ file = Nothing \/ IsState(file)
  /\ IsRun(run) /\ (run.at = "process" => IsState(pending))
  /\ dirty \in BOOLEAN /\ disturbed \subseteq Paths
  /\ edits \in 0 .. MaxEdits /\ commits \in 0 .. MaxCommits /\ troubles \in 0 .. MaxTroubles

\* What a run that begins now, without git, would report.
WouldReport(f) == IF f \in OnDisk THEN state.snaps[f] # disk[f] ELSE state.snaps[f] # NoFile

\* Nothing is missed: a file whose content is not the one processed last is going
\* to be reported, whatever was committed to git, wherever a run failed or died.
\* Except for files that changed between hashing and commit_state.
DifferingIsReported ==
  \A f \in Paths \ disturbed : stored[f] # disk[f] => WouldReport(f)

\* And it is processed in the end, unless it changes again.
DifferingIsProcessed ==
  \A f \in Paths :
    f \notin disturbed /\ stored[f] # disk[f] ~> f \in disturbed \/ stored[f] = disk[f]
=============================================================================
