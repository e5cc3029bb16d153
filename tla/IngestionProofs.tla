---------------------------- MODULE IngestionProofs ----------------------------
(***************************************************************************)
(* Proofs about Ingestion, for every number of threads, workers, modules and *)
(* files, every content of files, every size of the buffers and every bound,  *)
(* and about Incremental, for every set of files and contents and every      *)
(* bound.  The two have no state in common.                                *)
(***************************************************************************)
EXTENDS Ingestion, Incremental, FiniteSetTheorems, WellFoundedInduction, TLAPS

InFile == {"parse", "write", "exit", "exitRels", "complete"}
WritingSteps == {"write", "exit", "exitRels", "complete"}
OnFile(r) == r.at \in InFile \/ (r.at = "announce" /\ r.file # None)

\* What a thread has in hand at each of its steps.
InHand(a, r) ==
  /\ r.at \in InFile \cup {"announce", "discover", "files", "pipeline"} => r.mod \in Modules
  /\ r.at \in InFile => r.file \in Files
  /\ r.at \in {"discover", "files"} => r.whole
  /\ r.at \in {"discover", "files", "pipeline"} => r.file = None
  /\ OnFile(r) /\ r.whole => r.part < Len(FilesOf[r.mod])
  /\ r.at \in InFile =>
       r.next <= Len(Found[r.file]) + 1 /\ r.pending \subseteq 1 .. (r.next - 1)
  /\ r.at = "parse" => r.next = 1
  /\ r.at = "batch" => a \in Batchers \X {0}

\* The modules of a batch are waiting, with a worker or collected.
Busy(b) == {a \in Pool(b) : thread[a].at # "free"}
Accounted(b) ==
  IF thread[b].at = "batch"
  THEN thread[b].part + Cardinality(thread[b].rest) + Cardinality(Busy(b)) = thread[b].total
  ELSE Busy(b) = {}

\* The job of the file a thread works on is about that file.
FollowsFile(a) ==
  OnFile(thread[a]) =>
    jobs[<<a, "file">>].mod = thread[a].mod /\ jobs[<<a, "file">>].file = thread[a].file

TypeInv ==
  /\ TypeOK
  /\ \A a \in Actors : InHand(a, thread[a])
  /\ \A b \in Batchers \X {0} : Accounted(b)


(***************************************************************************)
(* Types                                                                   *)
(***************************************************************************)

\* A part of a whole in percent.
LEMMA Percentage ==
  ASSUME NEW n \in Nat \ {0}, NEW k \in 0 .. n
  PROVE  (80 * k) \div n \in 0 .. 80 /\ (100 * k) \div n \in 0 .. 100
<1>1. ASSUME NEW c \in {80, 100} PROVE (c * k) \div n \in 0 .. c
  <2> DEFINE q == (c * k) \div n
  <2>1. q \in Int /\ n * q <= c * k /\ c * k < n * (q + 1)
    BY <1>1
  <2> HIDE DEF q
  <2>2. c * k <= c * n /\ 0 <= c * k
    BY <1>1
  <2>3. q >= 0
    <3> SUFFICES ASSUME q + 1 <= 0 PROVE FALSE
      BY <2>1
    <3>1. n * (q + 1) <= 0
      BY <2>1
    <3> QED BY <2>1, <2>2, <3>1
  <2>4. q <= c
    <3> SUFFICES ASSUME q >= c + 1 PROVE FALSE
      BY <1>1, <2>1
    <3>1. n * q >= n * (c + 1)
      BY <1>1, <2>1
    <3> QED BY <1>1, <2>1, <2>2, <3>1
  <2> QED BY <1>1, <2>1, <2>3, <2>4
<1> QED BY <1>1

LEMMA IdleIsTyped ==
  /\ Free \in Thread /\ Free.at = "free"
  /\ \A a \in Actors : /\ Returned(a) \in Thread /\ InHand(a, Returned(a))
                       /\ Returned(a).at = IF a \in Servers THEN "free" ELSE "returned"
                       /\ Returned(a).mod = None /\ ~Returned(a).whole
  /\ NoJob \in Job
<1>1. /\ Free \in Thread /\ Free.at = "free" /\ Free.mod = None /\ ~Free.whole
      /\ NoJob \in Job
  BY DEF Free, Thread, Steps, NoJob, Job, Statuses
<1> DEFINE r == [Free EXCEPT !.at = "returned"]
<1>2. r \in Thread /\ r.at = "returned" /\ r.mod = None /\ ~r.whole
  BY <1>1 DEF Thread, Steps
<1> HIDE DEF r
<1>3. ASSUME NEW a \in Actors, NEW q \in Thread, q.at \in {"free", "returned"}
      PROVE  InHand(a, q)
  BY <1>3 DEF InHand, InFile, WritingSteps, OnFile
<1>4. \A a \in Actors : Returned(a) = IF a \in Servers THEN Free ELSE r
  BY DEF Returned, r
<1> QED BY <1>1, <1>2, <1>3, <1>4

\* Servers and workers are not the same, and a worker is of one batch.
LEMMA PoolsApart ==
  ASSUME NEW b \in Batchers \X {0}
  PROVE  /\ b \in Actors /\ b \in Servers
         /\ Pool(b) \subseteq Actors /\ Pool(b) \cap Servers = {}
         /\ \A c \in Batchers \X {0} : c # b => Pool(b) \cap Pool(c) = {}
<1>1. b = <<b[1], 0>> /\ b[1] \in Batchers /\ b[1] \in Threads
  BY BoundsAssumption
<1>2. 0 \notin 1 .. MaxWorkers
  OBVIOUS
<1>3. \A a \in Pool(b) : a[1] = b[1] /\ a[2] \in 1 .. MaxWorkers /\ a = <<a[1], a[2]>>
  BY DEF Pool
<1>4. \A c \in Batchers \X {0} : c = <<c[1], 0>>
  OBVIOUS
<1>5. \A c \in Batchers \X {0} : \A a \in Pool(c) : a[1] = c[1]
  BY DEF Pool
<1>6. Pool(b) \subseteq Actors
  BY <1>1, <1>3 DEF Actors
<1>7. Pool(b) \cap Servers = {}
  BY <1>2, <1>3 DEF Servers
<1>8. ASSUME NEW c \in Batchers \X {0}, c # b PROVE Pool(b) \cap Pool(c) = {}
  <2>1. c[1] # b[1]
    BY <1>1, <1>4, <1>8
  <2> QED BY <1>3, <1>5, <2>1
<1> QED BY <1>1, <1>6, <1>7, <1>8 DEF Actors, Servers

LEMMA BusyIsFinite ==
  ASSUME NEW b \in Batchers \X {0}
  PROVE  IsFiniteSet(Busy(b)) /\ Cardinality(Busy(b)) \in Nat
<1> DEFINE f == [i \in 1 .. MaxWorkers |-> <<b[1], i>>]
<1>1. f \in Surjection(1 .. MaxWorkers, Pool(b))
  BY DEF Pool, Surjection
<1>2. IsFiniteSet(1 .. MaxWorkers)
  BY BoundsAssumption, FS_Interval
<1>3. IsFiniteSet(Pool(b))
  BY <1>1, <1>2, FS_Surjection
<1> QED BY <1>3, FS_Subset, FS_CardinalityType DEF Busy

\* A step of a thread that has no batch keeps what all threads have in hand, and
\* what is known of the batches if no worker becomes or has been free.
LEMMA MoveKeeps ==
  ASSUME TypeInv, NEW a \in Actors, NEW r \in Thread, Become(a, r), InHand(a, r),
         thread[a].at # "batch", r.at # "batch",
         a \notin Servers => thread[a].at # "free" /\ r.at # "free"
  PROVE  /\ thread' \in [Actors -> Thread]
         /\ \A c \in Actors : InHand(c, thread[c])'
         /\ \A b \in Batchers \X {0} : Accounted(b)'
<1>1. /\ thread' \in [Actors -> Thread]
      /\ thread'[a] = r /\ \A c \in Actors : c # a => thread'[c] = thread[c]
  BY DEF TypeInv, TypeOK, Become
<1>2. \A c \in Actors : InHand(c, thread[c])'
  BY <1>1 DEF TypeInv, InHand, OnFile
<1>3. ASSUME NEW b \in Batchers \X {0} PROVE Accounted(b)'
  <2>1. Pool(b)' = Pool(b)
    BY DEF Pool
  <2>2. ASSUME NEW c \in Pool(b) PROVE thread'[c].at # "free" <=> thread[c].at # "free"
    BY <1>1, <2>2, PoolsApart
  <2>3. Busy(b)' = Busy(b)
    BY <2>1, <2>2 DEF Busy
  <2>4. b \in Actors
    BY PoolsApart
  <2>5. CASE a = b
    BY <1>1, <2>3, <2>5 DEF TypeInv, Accounted
  <2>6. CASE a # b
    BY <1>1, <2>3, <2>4, <2>6 DEF TypeInv, Accounted
  <2> QED BY <2>5, <2>6
<1> QED BY <1>1, <1>2, <1>3

\* Every set of naturals that is not empty has a least element.
LEMMA LeastOf ==
  ASSUME NEW T, T \subseteq Nat, T # {}
  PROVE  \E x \in T : \A y \in T : x <= y
<1>1. PICK x \in T : \A y \in T : ~(<<y, x>> \in OpToRel(<, Nat))
  BY NatLessThanWellFounded, WFMin
<1>2. ASSUME NEW y \in T PROVE x <= y
  <2>1. <<y, x>> \in Nat \X Nat
    BY <1>1
  <2>2. ~(y < x)
    BY <1>1, <2>1 DEF OpToRel
  <2> QED BY <2>1, <2>2
<1> QED BY <1>1, <1>2

\* What a file is.
LEMMA FileItems ==
  ASSUME NEW f \in Files
  PROVE  /\ Found[f] \in Seq(Functions \X (Functions \cup {None}))
         /\ DOMAIN Found[f] = 1 .. Len(Found[f]) /\ Len(Found[f]) \in Nat
         /\ \A i \in DOMAIN Found[f] : /\ Found[f][i][1] \in Functions
                                       /\ Found[f][i][2] \in Functions \cup {None}
BY FilesAssumption

\* A file has finitely many items.
LEMMA ItemsAreFinite ==
  ASSUME NEW f \in Files
  PROVE  IsFiniteSet(DOMAIN Found[f])
<1>1. DOMAIN Found[f] = 1 .. Len(Found[f]) /\ Len(Found[f]) \in Int
  BY FileItems
<1>2. IsFiniteSet(1 .. Len(Found[f]))
  BY <1>1, FS_Interval
<1> QED BY <1>1, <1>2

\* The item that fills a buffer.
FillsAt(a) == CHOOSE k \in Fill(a) : \A j \in Fill(a) : k <= j
Read(a) == thread[a].pending \cup (thread[a].next .. FillsAt(a))

LEMMA ReadSoFar ==
  ASSUME TypeInv, NEW a \in Actors, thread[a].at = "write"
  PROVE  /\ Found[thread[a].file] \in Seq(Functions \X (Functions \cup {None}))
         /\ thread[a].next \in Nat \ {0} /\ thread[a].next <= Len(Found[thread[a].file]) + 1
         /\ thread[a].pending \subseteq 1 .. (thread[a].next - 1)
         /\ Fill(a) # {} =>
              /\ FillsAt(a) \in Fill(a)
              /\ FillsAt(a) \in thread[a].next .. Len(Found[thread[a].file])
              /\ Read(a) \subseteq 1 .. FillsAt(a)
              /\ Buffered(a, FillsAt(a)) \subseteq Read(a)
<1>1. /\ thread[a] \in Thread /\ InHand(a, thread[a])
  BY DEF TypeInv, TypeOK
<1>2. /\ thread[a].file \in Files /\ thread[a].next \in Nat \ {0}
      /\ thread[a].next <= Len(Found[thread[a].file]) + 1
      /\ thread[a].pending \subseteq 1 .. (thread[a].next - 1)
  BY <1>1 DEF InHand, InFile, WritingSteps, Thread
<1>3. Found[thread[a].file] \in Seq(Functions \X (Functions \cup {None}))
  BY <1>2, FileItems
<1>4. ASSUME Fill(a) # {}
      PROVE  FillsAt(a) \in Fill(a) /\ FillsAt(a) \in thread[a].next .. Len(Found[thread[a].file])
  <2>1. Fill(a) \subseteq Nat /\ Fill(a) \subseteq thread[a].next .. Len(Found[thread[a].file])
    BY <1>2, <1>3 DEF Fill, Unread
  <2>2. FillsAt(a) \in Fill(a)
    BY <1>4, <2>1, LeastOf DEF FillsAt
  <2> QED BY <2>1, <2>2
<1>5. ASSUME Fill(a) # {}
      PROVE  Read(a) \subseteq 1 .. FillsAt(a) /\ Buffered(a, FillsAt(a)) \subseteq Read(a)
  <2>1. Read(a) \subseteq 1 .. FillsAt(a)
    BY <1>2, <1>3, <1>4, <1>5 DEF Read
  <2> QED BY <2>1 DEF Buffered, Read, NodesIn, RelsIn
<1> QED BY <1>2, <1>3, <1>4, <1>5

GraphTyped ==
  /\ nodes \subseteq Modules \X Functions /\ edges \subseteq Modules \X Functions \X Functions
  /\ unannounced \subseteq Modules /\ aborted \subseteq Modules

\* A query writes nodes and links of the module.
LEMMA StoreKeeps ==
  ASSUME TypeInv, NEW a \in Actors, thread[a].at \in WritingSteps,
         NEW items \in SUBSET DOMAIN Found[thread[a].file],
         StoreNodes(a, items) \/ StoreRels(a, items)
  PROVE  GraphTyped' /\ nodes \subseteq nodes' /\ edges \subseteq edges'
<1>1. thread[a].mod \in Modules /\ thread[a].file \in Files
  BY DEF TypeInv, InHand, InFile, WritingSteps
<1>2. \A i \in items : Item(a, i)[1] \in Functions /\ Item(a, i)[2] \in Functions \cup {None}
  BY <1>1, FileItems DEF Item
<1>3. GraphTyped
  BY DEF TypeInv, TypeOK, GraphTyped
<1>4. CASE StoreNodes(a, items)
  <2>1. \A i \in NodesIn(a, items) : <<thread[a].mod, Item(a, i)[1]>> \in Modules \X Functions
    BY <1>1, <1>2 DEF NodesIn
  <2> QED BY <1>1, <1>3, <1>4, <2>1 DEF StoreNodes, GraphTyped
<1>5. CASE StoreRels(a, items)
  <2>1. \A i \in RelsIn(a, items) : Item(a, i)[1] \in Functions /\ Item(a, i)[2] \in Functions
    BY <1>2 DEF NodesIn, RelsIn
  <2>2. \A i \in RelsIn(a, items) :
          <<thread[a].mod, Item(a, i)[1], Item(a, i)[2]>> \in Modules \X Functions \X Functions
    BY <1>1, <2>1
  <2>3. edges' \subseteq Modules \X Functions \X Functions
    BY <1>3, <1>5, <2>2 DEF StoreRels, GraphTyped
  <2>4. unannounced' \subseteq Modules
    BY <1>1, <1>3, <1>5 DEF StoreRels, GraphTyped
  <2> QED BY <1>3, <1>5, <2>3, <2>4 DEF StoreRels, GraphTyped
<1> QED BY <1>4, <1>5

JobsTyped == jobs \in [Actors \X Levels -> Job]

LEMMA SetJobTyped ==
  ASSUME TypeInv, NEW a \in Actors, NEW level \in Levels, NEW status \in Statuses,
         NEW progress \in 0 .. 100, SetJob(a, level, status, progress)
  PROVE  JobsTyped'
BY DEF TypeInv, TypeOK, SetJob, JobsTyped, Job

\* What a thread goes on with after a file, and what its jobs say then.
LEMMA AfterFileKeeps ==
  ASSUME TypeInv, NEW a \in Actors, OnFile(thread[a])
  PROVE  /\ AfterFile(a) \in Thread /\ InHand(a, AfterFile(a))
         /\ AfterFile(a).at = IF thread[a].whole THEN "files" ELSE Returned(a).at
         /\ thread[a].whole => AfterFile(a).mod = thread[a].mod /\ AfterFile(a).whole
         /\ \A status \in Statuses : EndFileJob(a, status) => JobsTyped'
<1>1. thread[a] \in Thread /\ InHand(a, thread[a])
  BY DEF TypeInv, TypeOK
<1>2. thread[a].mod \in Modules /\ thread[a].part \in Nat
  BY <1>1 DEF InHand, OnFile, Thread
<1>3. FilesOf[thread[a].mod] \in Seq(Files)
  BY <1>2, FilesAssumption
<1>4. CASE ~thread[a].whole
  <2>1. AfterFile(a) = Returned(a)
    BY <1>4 DEF AfterFile
  <2>2. ASSUME NEW status \in Statuses, EndFileJob(a, status) PROVE JobsTyped'
    <3>1. ASSUME NEW j \in Actors \X Levels PROVE jobs'[j] \in Job
      BY <1>4, <2>2 DEF EndFileJob, TypeInv, TypeOK, Job
    <3>2. jobs' = [j \in Actors \X Levels |-> jobs'[j]]
      BY <2>2 DEF EndFileJob
    <3> QED BY <3>1, <3>2 DEF JobsTyped
  <2> QED BY <1>4, <2>1, <2>2, IdleIsTyped
<1>5. CASE thread[a].whole
  <2> DEFINE r == [thread[a] EXCEPT !.at = "files", !.file = None, !.part = @ + 1]
             n == Len(FilesOf[thread[a].mod])
  <2>1. AfterFile(a) = r
    BY <1>5 DEF AfterFile
  <2>2. r \in Thread /\ r.at = "files" /\ r.mod = thread[a].mod /\ r.whole /\ r.file = None
    <3>1. r \in Thread
      <4> DEFINE k == thread[a].part + 1
      <4>1. k \in Nat
        BY <1>2
      <4> HIDE DEF k
      <4>2. [thread[a] EXCEPT !.at = "files", !.file = None, !.part = k] \in Thread
        BY <1>1, <4>1 DEF Thread, Steps
      <4> QED BY <4>2 DEF k
    <3>3. r.at = "files" /\ r.mod = thread[a].mod /\ r.file = None
      BY <1>1 DEF Thread
    <3>2. r.whole = thread[a].whole
      BY <1>1 DEF Thread
    <3> QED BY <1>5, <3>1, <3>2, <3>3
  <2>3. n \in Nat \ {0} /\ thread[a].part + 1 \in 0 .. n
    BY <1>1, <1>2, <1>3, <1>5 DEF InHand
  <2>4. InHand(a, r)
    <3> HIDE DEF r
    <3> QED BY <1>2, <2>2 DEF InHand, InFile, WritingSteps, OnFile
  <2>5. ASSUME NEW status \in Statuses, EndFileJob(a, status) PROVE JobsTyped'
    <3> DEFINE progress == 10 + (80 * (thread[a].part + 1)) \div n
    <3>1. progress \in 0 .. 100
      <4> DEFINE k == thread[a].part + 1
                 q == (80 * k) \div n
      <4>1. n \in Nat \ {0} /\ k \in 0 .. n
        BY <2>3
      <4> HIDE DEF k, n
      <4>2. q \in 0 .. 80
        BY <4>1, Percentage
      <4> HIDE DEF q
      <4>3. 10 + q \in 0 .. 100
        BY <4>2
      <4> QED BY <4>3 DEF q, k
    <3>2. jobs' = [j \in Actors \X Levels |->
                     IF j = <<a, "file">> THEN [jobs[j] EXCEPT !.status = status]
                     ELSE IF j = <<a, "module">> /\ thread[a].whole
                     THEN [jobs[j] EXCEPT !.progress = progress]
                     ELSE jobs[j]]
      BY <2>5 DEF EndFileJob, FilesIn
    <3> HIDE DEF progress
    <3>3. ASSUME NEW j \in Actors \X Levels PROVE jobs'[j] \in Job
      BY <2>5, <3>1, <3>2 DEF TypeInv, TypeOK, Job
    <3> QED BY <3>2, <3>3 DEF JobsTyped
  <2> QED BY <1>5, <2>1, <2>2, <2>4, <2>5
<1> QED BY <1>4, <1>5

CountersTyped == calls \in 0 .. MaxCalls /\ failures \in 0 .. MaxFailures

LEMMA CountersKeep ==
  ASSUME TypeInv
  PROVE  /\ Fails => failures' \in 0 .. MaxFailures
         /\ UNCHANGED failures => failures' \in 0 .. MaxFailures
         /\ calls < MaxCalls /\ calls' = calls + 1 => calls' \in 0 .. MaxCalls
         /\ UNCHANGED calls => calls' \in 0 .. MaxCalls
<1>1. calls \in 0 .. MaxCalls /\ failures \in 0 .. MaxFailures
  BY DEF TypeInv, TypeOK
<1> QED BY <1>1, BoundsAssumption DEF Fails

LEMMA GraphStays ==
  ASSUME TypeInv, UNCHANGED graph
  PROVE  GraphTyped' /\ nodes \subseteq nodes' /\ edges \subseteq edges'
BY DEF TypeInv, TypeOK, graph, GraphTyped

\* A step of a thread that has no batch keeps the types if it keeps those of the
\* thread, the jobs and the graph.
LEMMA MoveTyped ==
  ASSUME TypeInv, NEW a \in Actors, NEW r \in Thread, Become(a, r), InHand(a, r),
         thread[a].at # "batch", r.at # "batch",
         a \notin Servers => thread[a].at # "free" /\ r.at # "free",
         JobsTyped', GraphTyped', CountersTyped'
  PROVE  TypeInv'
<1>1. /\ thread' \in [Actors -> Thread]
      /\ \A c \in Actors : InHand(c, thread[c])'
      /\ \A b \in Batchers \X {0} : Accounted(b)'
  BY MoveKeeps
<1> QED BY <1>1 DEF TypeInv, TypeOK, JobsTyped, GraphTyped, CountersTyped

LEMMA JobsStay == ASSUME TypeInv, UNCHANGED jobs PROVE JobsTyped'
BY DEF TypeInv, TypeOK, JobsTyped

\* A new job of the file.
LEMMA BeginFileTyped ==
  ASSUME TypeInv, NEW a \in Actors, NEW f \in Files, NEW r \in Thread, r.mod \in Modules,
         r.whole => r.part < Len(FilesOf[r.mod]), BeginFile(a, f, r)
  PROVE  /\ JobsTyped'
         /\ \E q \in Thread : /\ Become(a, q) /\ InHand(a, q)
                              /\ q.at = "parse" /\ q.file = f /\ q.mod = r.mod
                              /\ q.whole = r.whole /\ q.pending = {} /\ q.next = 1
<1> DEFINE q == [r EXCEPT !.at = "parse", !.file = f, !.next = 1, !.pending = {},
                         !.broken = FALSE]
           j == [NoJob EXCEPT !.status = "processing", !.progress = 10, !.mod = r.mod,
                              !.file = f]
<1>1. q \in Thread
  <2> DEFINE n == 1
             none == {}
  <2>1. n \in Nat \ {0} /\ none \in SUBSET Nat
    OBVIOUS
  <2> HIDE DEF n, none
  <2>2. [r EXCEPT !.at = "parse", !.file = f, !.next = n, !.pending = none, !.broken = FALSE]
          \in Thread
    BY <2>1 DEF Thread, Steps
  <2> QED BY <2>2 DEF n, none
<1>2. /\ q.at = "parse" /\ q.file = f /\ q.mod = r.mod /\ q.part = r.part /\ q.pending = {}
      /\ q.next = 1
      /\ q.whole = r.whole
  BY DEF Thread
<1>3. Become(a, q) /\ jobs' = [jobs EXCEPT ![<<a, "file">>] = j]
  BY DEF BeginFile
<1>4. j \in Job
  <2> DEFINE m == r.mod
             ten == 10
  <2>1. m \in Modules \cup {None} /\ ten \in 0 .. 100
    OBVIOUS
  <2> HIDE DEF m, ten
  <2>2. [NoJob EXCEPT !.status = "processing", !.progress = ten, !.mod = m, !.file = f] \in Job
    BY <2>1, IdleIsTyped DEF Job, Statuses
  <2> QED BY <2>2 DEF m, ten
<1> HIDE DEF q, j
<1>5. InHand(a, q)
  BY <1>2, FileItems DEF InHand, InFile, WritingSteps, OnFile
<1>6. JobsTyped'
  BY <1>3, <1>4 DEF TypeInv, TypeOK, JobsTyped
<1> QED BY <1>1, <1>2, <1>3, <1>5, <1>6

\* What is in the buffers has been read, whatever the query does.
LEMMA WriteTyped ==
  ASSUME TypeInv, NEW a \in Actors, Write(a)
  PROVE  TypeInv'
<1> DEFINE i == FillsAt(a)
           full == Buffered(a, i)
           r == [thread[a] EXCEPT !.next = i + 1]
           good == [r EXCEPT !.pending = Read(a) \ full]
           bad == [r EXCEPT !.pending = Read(a), !.at = "exit", !.broken = TRUE]
           ours == thread[a].file
<1>1. thread[a].at = "write" /\ Fill(a) # {} /\ UNCHANGED <<jobs, calls>>
  BY DEF Write
<1>2. \/ /\ Become(a, good) /\ (StoreNodes(a, full) \/ StoreRels(a, full)) /\ UNCHANGED failures
      \/ Fails /\ Become(a, bad) /\ UNCHANGED graph
  BY DEF Write, FillsAt, Read
<1>3. thread[a] \in Thread /\ InHand(a, thread[a])
  BY DEF TypeInv, TypeOK
<1>4. /\ i \in Nat \ {0} /\ i + 1 \in Nat \ {0} /\ i <= Len(Found[ours])
      /\ Read(a) \subseteq 1 .. i /\ full \subseteq Read(a)
      /\ Len(Found[ours]) \in Nat /\ DOMAIN Found[ours] = 1 .. Len(Found[ours])
  BY <1>1, ReadSoFar
<1>5. JobsTyped' /\ CountersTyped'
  BY <1>1, <1>2, CountersKeep, JobsStay DEF CountersTyped
<1>6. GraphTyped'
  <2>1. full \in SUBSET DOMAIN Found[ours]
    BY <1>4
  <2> QED BY <1>1, <1>2, <2>1, StoreKeeps, GraphStays DEF WritingSteps
<1>7. r \in Thread
  <2> DEFINE n == i + 1
  <2>1. n \in Nat \ {0}
    BY <1>4
  <2> HIDE DEF n
  <2>2. [thread[a] EXCEPT !.next = n] \in Thread
    BY <1>3, <2>1 DEF Thread
  <2> QED BY <2>2 DEF n
<1>8. r.next = i + 1 /\ r.at = "write" /\ r.file = ours /\ r.mod = thread[a].mod
      /\ r.part = thread[a].part /\ r.whole = thread[a].whole
  BY <1>1, <1>3 DEF Thread
<1> HIDE DEF r, full, i
<1>9. CASE Become(a, good)
  <2>1. Read(a) \ full \in SUBSET Nat
    BY <1>4
  <2>2. good \in Thread
    BY <1>7, <2>1 DEF Thread
  <2>3. /\ good.next = i + 1 /\ good.at = "write" /\ good.file = ours
        /\ good.mod = thread[a].mod /\ good.part = thread[a].part
        /\ good.whole = thread[a].whole /\ good.pending = Read(a) \ full
    BY <1>7, <1>8 DEF Thread
  <2> HIDE DEF good
  <2>4. InHand(a, good)
    BY <1>1, <1>3, <1>4, <2>3 DEF InHand, InFile, WritingSteps, OnFile
  <2> QED BY <1>1, <1>5, <1>6, <1>9, <2>2, <2>3, <2>4, MoveTyped
<1>10. CASE Become(a, bad)
  <2>1. Read(a) \in SUBSET Nat
    BY <1>4
  <2>2. bad \in Thread
    BY <1>7, <2>1 DEF Thread, Steps
  <2>3. /\ bad.next = i + 1 /\ bad.at = "exit" /\ bad.file = ours
        /\ bad.mod = thread[a].mod /\ bad.part = thread[a].part
        /\ bad.whole = thread[a].whole /\ bad.pending = Read(a)
    BY <1>7, <1>8 DEF Thread
  <2> HIDE DEF bad
  <2>4. InHand(a, bad)
    BY <1>1, <1>3, <1>4, <2>3 DEF InHand, InFile, WritingSteps, OnFile
  <2> QED BY <1>1, <1>5, <1>6, <1>10, <2>2, <2>3, <2>4, MoveTyped
<1> QED BY <1>2, <1>9, <1>10

\* A thread that goes to another step with what it has in hand.
Keeps(r, q) ==
  /\ r.mod = q.mod /\ r.file = q.file /\ r.whole = q.whole /\ r.part = q.part
  /\ r.next = q.next /\ r.pending = q.pending /\ r.broken = q.broken

LEMMA GoKeeps ==
  ASSUME TypeInv, NEW a \in Actors, NEW step \in Steps, Go(a, step)
  PROVE  \E r \in Thread : Become(a, r) /\ r.at = step /\ Keeps(r, thread[a])
<1> DEFINE r == [thread[a] EXCEPT !.at = step]
<1>1. thread[a] \in Thread
  BY DEF TypeInv, TypeOK
<1>2. r \in Thread
  BY <1>1 DEF Thread
<1>3. r.at = step /\ Keeps(r, thread[a])
  BY <1>1 DEF Thread, Keeps
<1>4. Become(a, r)
  BY DEF Go, Become
<1> QED BY <1>2, <1>3, <1>4

\* Nothing is left of what has been read and not written when the file is over.
LEMMA PendingItems ==
  ASSUME TypeInv, NEW a \in Actors, Exiting(a)
  PROVE  Pending(a) \subseteq DOMAIN Found[thread[a].file]
<1>1. thread[a].at \in {"write", "exit"}
  BY DEF Exiting
<1>2. thread[a] \in Thread /\ InHand(a, thread[a]) /\ thread[a].file \in Files
  BY <1>1 DEF TypeInv, TypeOK, InHand, InFile
<1>3. /\ Len(Found[thread[a].file]) \in Nat
      /\ DOMAIN Found[thread[a].file] = 1 .. Len(Found[thread[a].file])
  BY <1>2, FileItems
<1>4. /\ thread[a].next \in Nat \ {0} /\ thread[a].next <= Len(Found[thread[a].file]) + 1
      /\ thread[a].pending \subseteq 1 .. (thread[a].next - 1)
  BY <1>1, <1>2 DEF InHand, InFile, Thread
<1> QED BY <1>3, <1>4 DEF Pending, Unread

LEMMA ExitTyped ==
  ASSUME TypeInv, NEW a \in Actors, Exit(a)
  PROVE  TypeInv'
<1> DEFINE r == thread[a]
           n == Len(Found[r.file]) + 1
           inStore == [r EXCEPT !.at = "exitRels", !.next = n,
                               !.pending = RelsIn(a, Pending(a))]
           broken == [r EXCEPT !.at = "complete", !.broken = TRUE]
<1>1. r.at \in {"write", "exit", "exitRels"} /\ UNCHANGED <<jobs, calls>>
  BY DEF Exit, Exiting
<1>2. r \in Thread /\ InHand(a, r) /\ r.file \in Files
  BY <1>1 DEF TypeInv, TypeOK, InHand, InFile
<1>3. n \in Nat \ {0} /\ DOMAIN Found[r.file] = 1 .. (n - 1)
  BY <1>2, FileItems
<1>4. /\ r.next \in Nat \ {0} /\ r.next <= n
      /\ r.pending \subseteq 1 .. (r.next - 1) /\ r.pending \subseteq DOMAIN Found[r.file]
  BY <1>1, <1>2, <1>3 DEF InHand, InFile, Thread
<1>5. JobsTyped'
  BY <1>1, JobsStay
<1>6. r.whole => r.part < Len(FilesOf[r.mod])
  BY <1>1, <1>2 DEF InHand, OnFile, InFile
<1>7. CASE Exiting(a) /\ StoreNodes(a, Pending(a)) /\ Become(a, inStore) /\ UNCHANGED failures
  <2>1. Pending(a) \subseteq DOMAIN Found[r.file]
    BY <1>7, PendingItems
  <2>2. GraphTyped'
    BY <1>1, <1>7, <2>1, StoreKeeps DEF WritingSteps
  <2>3. RelsIn(a, Pending(a)) \in SUBSET Nat /\ RelsIn(a, Pending(a)) \subseteq 1 .. (n - 1)
    BY <1>3, <2>1 DEF RelsIn
  <2> HIDE DEF n
  <2>4. inStore \in Thread
    BY <1>2, <1>3, <2>3 DEF Thread, Steps
  <2>5. /\ inStore.at = "exitRels" /\ inStore.next = n /\ inStore.pending = RelsIn(a, Pending(a))
        /\ inStore.file = r.file /\ inStore.mod = r.mod /\ inStore.whole = r.whole
        /\ inStore.part = r.part
    BY <1>2 DEF Thread
  <2> HIDE DEF inStore
  <2>6. InHand(a, inStore)
    BY <1>1, <1>2, <1>6, <2>3, <2>5 DEF InHand, InFile, WritingSteps, OnFile, n
  <2> QED BY <1>1, <1>5, <1>7, <2>2, <2>4, <2>5, <2>6, CountersKeep, MoveTyped DEF CountersTyped
<1>8. CASE r.at = "exitRels" /\ StoreRels(a, r.pending) /\ Go(a, "complete") /\ UNCHANGED failures
  <2>1. GraphTyped'
    BY <1>4, <1>8, StoreKeeps DEF WritingSteps
  <2>2. PICK q \in Thread : Become(a, q) /\ q.at = "complete" /\ Keeps(q, r)
    BY <1>8, GoKeeps DEF Steps
  <2>3. InHand(a, q)
    BY <1>1, <1>2, <1>4, <1>6, <2>2 DEF InHand, InFile, WritingSteps, OnFile, Keeps
  <2> QED BY <1>1, <1>5, <1>8, <2>1, <2>2, <2>3, CountersKeep, MoveTyped DEF CountersTyped
<1>9. CASE Broken(a)
  <2>1. Become(a, broken) /\ Fails /\ UNCHANGED graph
    BY <1>9 DEF Broken
  <2>2. broken \in Thread
    BY <1>2 DEF Thread, Steps
  <2>3. /\ broken.at = "complete" /\ broken.next = r.next /\ broken.pending = r.pending
        /\ broken.file = r.file /\ broken.mod = r.mod /\ broken.whole = r.whole
        /\ broken.part = r.part
    BY <1>2 DEF Thread
  <2> HIDE DEF broken
  <2>4. InHand(a, broken)
    BY <1>1, <1>2, <1>4, <1>6, <2>3 DEF InHand, InFile, WritingSteps, OnFile
  <2> QED BY <1>1, <1>5, <2>1, <2>2, <2>3, <2>4, CountersKeep, GraphStays, MoveTyped
       DEF CountersTyped
<1> QED BY <1>7, <1>8, <1>9 DEF Exit

LEMMA ParseTyped ==
  ASSUME TypeInv, NEW a \in Actors, Parse(a)
  PROVE  TypeInv'
<1> DEFINE r == thread[a]
           j == <<a, "file">>
<1>1. r.at = "parse" /\ UNCHANGED <<graph, calls>>
  BY DEF Parse
<1>2. r \in Thread /\ InHand(a, r) /\ r.file \in Files /\ OnFile(r)
  BY <1>1 DEF TypeInv, TypeOK, InHand, InFile, OnFile
<1>3. GraphTyped' /\ CountersTyped'
  BY <1>1, GraphStays, CountersKeep DEF CountersTyped, Parse
<1>4. CASE Go(a, "write") /\ jobs' = [jobs EXCEPT ![j].progress = 50]
  <2>1. PICK q \in Thread : Become(a, q) /\ q.at = "write" /\ Keeps(q, r)
    BY <1>4, GoKeeps DEF Steps
  <2>2. JobsTyped'
    BY <1>4 DEF TypeInv, TypeOK, JobsTyped, Job, Levels
  <2>3. InHand(a, q)
    BY <1>1, <1>2, <2>1 DEF InHand, InFile, WritingSteps, OnFile, Keeps
  <2> QED BY <1>1, <1>3, <2>1, <2>2, <2>3, MoveTyped
<1>5. CASE Become(a, AfterFile(a)) /\ EndFileJob(a, "failed")
  BY <1>1, <1>2, <1>3, <1>5, AfterFileKeeps, IdleIsTyped, MoveTyped DEF Statuses
<1> QED BY <1>4, <1>5 DEF Parse

LEMMA CompleteTyped ==
  ASSUME TypeInv, NEW a \in Actors, Complete(a)
  PROVE  TypeInv'
<1> DEFINE r == thread[a]
           j == <<a, "file">>
<1>1. r.at = "complete" /\ Go(a, "announce") /\ UNCHANGED <<graph, calls, failures>>
  BY DEF Complete
<1>2. r \in Thread /\ InHand(a, r)
  BY DEF TypeInv, TypeOK
<1>3. GraphTyped' /\ CountersTyped'
  BY <1>1, GraphStays, CountersKeep DEF CountersTyped
<1>4. JobsTyped'
  <2>1. j \in Actors \X Levels /\ jobs[j] \in Job
    BY DEF TypeInv, TypeOK, Levels
  <2> DEFINE full == 100
             counted == ~r.broken
             k == [jobs[j] EXCEPT !.status = "completed", !.progress = full,
                                  !.counted = counted]
  <2>2. k \in Job
    <3>1. full \in 0 .. 100 /\ counted \in BOOLEAN
      OBVIOUS
    <3> HIDE DEF full, counted
    <3> QED BY <2>1, <3>1 DEF Job, Statuses
  <2>3. jobs' = [jobs EXCEPT ![j] = k]
    BY DEF Complete
  <2> HIDE DEF k
  <2> QED BY <2>1, <2>2, <2>3 DEF TypeInv, TypeOK, JobsTyped
<1>5. PICK q \in Thread : Become(a, q) /\ q.at = "announce" /\ Keeps(q, r)
  BY <1>1, GoKeeps DEF Steps
<1>6. InHand(a, q)
  BY <1>1, <1>2, <1>5 DEF InHand, InFile, OnFile, Keeps
<1> QED BY <1>1, <1>3, <1>4, <1>5, <1>6, MoveTyped

LEMMA AnnounceTyped ==
  ASSUME TypeInv, NEW a \in Actors, Announce(a)
  PROVE  TypeInv'
<1> DEFINE r == thread[a]
<1>1. r.at = "announce" /\ UNCHANGED <<nodes, edges, aborted, calls, failures>>
      /\ unannounced' = unannounced \ {r.mod}
  BY DEF Announce
<1>2. GraphTyped' /\ CountersTyped'
  BY <1>1, CountersKeep DEF CountersTyped, GraphTyped, TypeInv, TypeOK
<1>3. CASE r.file # None
  <2>1. OnFile(r)
    BY <1>1, <1>3 DEF OnFile
  <2>2. Become(a, AfterFile(a)) /\ EndFileJob(a, "completed")
    BY <1>3 DEF Announce
  <2> QED BY <1>1, <1>2, <2>1, <2>2, AfterFileKeeps, IdleIsTyped, MoveTyped DEF Statuses
<1>4. CASE r.file = None
  <2>1. Become(a, Returned(a)) /\ UNCHANGED jobs
    BY <1>4 DEF Announce
  <2> QED BY <1>1, <1>2, <2>1, JobsStay, IdleIsTyped, MoveTyped
<1> QED BY <1>3, <1>4

LEMMA DiscoverTyped ==
  ASSUME TypeInv, NEW a \in Actors, Discover(a)
  PROVE  TypeInv'
<1> DEFINE r == thread[a]
           zero == 0
           q == [r EXCEPT !.at = "files", !.part = zero]
<1>1. r.at = "discover" /\ Become(a, q) /\ SetJob(a, "module", "processing", 10)
      /\ UNCHANGED <<graph, calls, failures>>
  BY DEF Discover
<1>2. r \in Thread /\ InHand(a, r)
  BY DEF TypeInv, TypeOK
<1>3. GraphTyped' /\ CountersTyped' /\ JobsTyped'
  BY <1>1, GraphStays, CountersKeep, SetJobTyped DEF CountersTyped, Levels, Statuses
<1>4. q \in Thread
  <2>1. zero \in Nat
    OBVIOUS
  <2> HIDE DEF zero
  <2> QED BY <1>2, <2>1 DEF Thread, Steps
<1>5. q.at = "files" /\ q.mod = r.mod /\ q.whole = r.whole /\ q.file = r.file
  BY <1>2 DEF Thread
<1> HIDE DEF q
<1>6. InHand(a, q)
  BY <1>1, <1>2, <1>5 DEF InHand, InFile, OnFile
<1> QED BY <1>1, <1>3, <1>4, <1>5, <1>6, MoveTyped

LEMMA NextFileTyped ==
  ASSUME TypeInv, NEW a \in Actors, NextFile(a)
  PROVE  TypeInv'
<1> DEFINE r == thread[a]
           f == FilesIn(a)[r.part + 1]
<1>1. r.at = "files" /\ r.part < Len(FilesIn(a)) /\ BeginFile(a, f, r)
      /\ UNCHANGED <<graph, calls, failures>>
  BY DEF NextFile
<1>2. r \in Thread /\ InHand(a, r) /\ r.mod \in Modules /\ r.part \in Nat
  BY <1>1 DEF TypeInv, TypeOK, InHand, Thread
<1>3. f \in Files
  <2>1. FilesIn(a) \in Seq(Files)
    BY <1>2, FilesAssumption DEF FilesIn
  <2> QED BY <1>1, <1>2, <2>1
<1>4. JobsTyped' /\ \E q \in Thread : Become(a, q) /\ InHand(a, q) /\ q.at = "parse"
  BY <1>1, <1>2, <1>3, BeginFileTyped DEF FilesIn
<1>5. GraphTyped' /\ CountersTyped'
  BY <1>1, GraphStays, CountersKeep DEF CountersTyped
<1> QED BY <1>1, <1>4, <1>5, MoveTyped

LEMMA CompleteModuleTyped ==
  ASSUME TypeInv, NEW a \in Actors, CompleteModule(a)
  PROVE  TypeInv'
<1> DEFINE r == thread[a]
<1>1. r.at = "files" /\ Go(a, "announce") /\ SetJob(a, "module", "completed", 100)
      /\ UNCHANGED <<graph, calls, failures>> /\ r.part = Len(FilesIn(a))
  BY DEF CompleteModule
<1>2. r \in Thread /\ InHand(a, r)
  BY DEF TypeInv, TypeOK
<1>3. GraphTyped' /\ CountersTyped' /\ JobsTyped'
  BY <1>1, GraphStays, CountersKeep, SetJobTyped DEF CountersTyped, Levels, Statuses
<1>4. PICK q \in Thread : Become(a, q) /\ q.at = "announce" /\ Keeps(q, r)
  BY <1>1, GoKeeps DEF Steps
<1>5. InHand(a, q)
  BY <1>1, <1>2, <1>4 DEF InHand, InFile, OnFile, Keeps
<1> QED BY <1>1, <1>3, <1>4, <1>5, MoveTyped

LEMMA PipelineTyped ==
  ASSUME TypeInv, NEW a \in Actors, PipelineEnds(a)
  PROVE  TypeInv'
<1> DEFINE r == thread[a]
<1>1. r.at = "pipeline" /\ UNCHANGED <<nodes, edges, calls>>
      /\ unannounced' = unannounced \cup {r.mod}
  BY DEF PipelineEnds
<1>2. r \in Thread /\ InHand(a, r) /\ r.mod \in Modules
  BY <1>1 DEF TypeInv, TypeOK, InHand
<1>3. CASE Go(a, "announce") /\ SetJob(a, "module", "completed", 100)
           /\ UNCHANGED <<aborted, failures>>
  <2>1. PICK q \in Thread : Become(a, q) /\ q.at = "announce" /\ Keeps(q, r)
    BY <1>3, GoKeeps DEF Steps
  <2>2. InHand(a, q)
    BY <1>1, <1>2, <2>1 DEF InHand, InFile, OnFile, Keeps
  <2>3. GraphTyped' /\ CountersTyped' /\ JobsTyped'
    BY <1>1, <1>2, <1>3, CountersKeep, SetJobTyped
       DEF CountersTyped, Levels, Statuses, GraphTyped, TypeInv, TypeOK
  <2> QED BY <1>1, <2>1, <2>2, <2>3, MoveTyped
<1>4. CASE Fails /\ Become(a, Returned(a)) /\ aborted' = aborted \cup {r.mod} /\ UNCHANGED jobs
  <2>1. GraphTyped' /\ CountersTyped' /\ JobsTyped'
    BY <1>1, <1>2, <1>4, CountersKeep, JobsStay DEF CountersTyped, GraphTyped, TypeInv, TypeOK
  <2> QED BY <1>1, <1>4, <2>1, IdleIsTyped, MoveTyped
<1> QED BY <1>3, <1>4 DEF PipelineEnds

\* What a call of ingest_module begins with.
Begun(a, m, illd, root) ==
  IF illd THEN [Free EXCEPT !.at = "pipeline", !.mod = m]
  ELSE IF root = "missing" THEN Returned(a)
  ELSE [Free EXCEPT !.at = "discover", !.mod = m, !.whole = TRUE]

LEMMA BegunTyped ==
  ASSUME NEW a \in Actors, NEW m \in Modules, NEW illd \in BOOLEAN, NEW root \in Roots
  PROVE  LET r == Begun(a, m, illd, root) IN
         /\ r \in Thread /\ InHand(a, r)
         /\ r.at \in {"pipeline", "discover", Returned(a).at}
<1> DEFINE p == [Free EXCEPT !.at = "pipeline", !.mod = m]
           d == [Free EXCEPT !.at = "discover", !.mod = m, !.whole = TRUE]
<1>1. Free \in Thread /\ Free.file = None
  BY IdleIsTyped DEF Free
<1>2. p \in Thread /\ p.at = "pipeline" /\ p.mod = m /\ p.file = None
  BY <1>1 DEF Thread, Steps
<1>3. d \in Thread /\ d.at = "discover" /\ d.mod = m /\ d.file = None
  BY <1>1 DEF Thread, Steps
<1>4. d.whole
  BY <1>1 DEF Thread
<1> HIDE DEF p, d
<1>5. InHand(a, p) /\ InHand(a, d)
  BY <1>2, <1>3, <1>4 DEF InHand, InFile, OnFile
<1>6. Begun(a, m, illd, root) = IF illd THEN p ELSE IF root = "missing" THEN Returned(a) ELSE d
  BY DEF Begun, p, d
<1> QED BY <1>2, <1>3, <1>5, <1>6, IdleIsTyped

LEMMA BeginModuleTyped ==
  ASSUME TypeInv, NEW a \in Actors, NEW m \in Modules, NEW illd \in BOOLEAN, NEW root \in Roots,
         NEW other, BeginModule(a, m, illd, root, other)
  PROVE  /\ JobsTyped' /\ failures' \in 0 .. MaxFailures
         /\ thread' = [other EXCEPT ![a] = Begun(a, m, illd, root)]
<1> DEFINE status == IF illd THEN "illd_pipeline_running"
                     ELSE IF root = "missing" THEN "queued" ELSE "discovering"
           progress == IF illd THEN 10 ELSE 0
           mod == m
           j == [NoJob EXCEPT !.mod = m, !.status = status, !.progress = progress]
<1>1. jobs' = [jobs EXCEPT ![<<a, "module">>] = j]
  BY DEF BeginModule
<1>2. j \in Job
  <2>1. status \in Statuses /\ progress \in 0 .. 100
    BY DEF Statuses
  <2> HIDE DEF status, progress
  <2> QED BY <2>1, IdleIsTyped DEF Job
<1> HIDE DEF j
<1>3. JobsTyped'
  BY <1>1, <1>2 DEF TypeInv, TypeOK, JobsTyped
<1>4. failures' \in 0 .. MaxFailures
  BY CountersKeep DEF BeginModule
<1> QED BY <1>3, <1>4 DEF BeginModule, Begun

LEMMA IngestFileTyped ==
  ASSUME TypeInv, NEW a \in Actors, NEW f \in Files, NEW m \in Modules, IngestFile(a, f, m)
  PROVE  TypeInv'
<1> DEFINE r == [Free EXCEPT !.mod = m]
<1>1. a \in Servers /\ thread[a].at = "free" /\ calls < MaxCalls /\ calls' = calls + 1
      /\ BeginFile(a, f, r) /\ UNCHANGED <<graph, failures>>
  BY DEF IngestFile, NewCall
<1>2. r \in Thread /\ r.mod = m
  BY IdleIsTyped DEF Thread
<1>3. ~r.whole
  <2>1. r.whole = Free.whole
    BY IdleIsTyped DEF Thread
  <2> QED BY <2>1 DEF Free
<1> HIDE DEF r
<1>4. JobsTyped' /\ \E q \in Thread : Become(a, q) /\ InHand(a, q) /\ q.at = "parse"
  BY <1>1, <1>2, <1>3, BeginFileTyped
<1>5. GraphTyped' /\ CountersTyped'
  BY <1>1, GraphStays, CountersKeep DEF CountersTyped
<1> QED BY <1>1, <1>4, <1>5, MoveTyped

LEMMA IngestModuleTyped ==
  ASSUME TypeInv, NEW a \in Actors, NEW m \in Modules, NEW illd \in BOOLEAN, NEW root \in Roots,
         IngestModule(a, m, illd, root)
  PROVE  TypeInv'
<1> DEFINE r == Begun(a, m, illd, root)
<1>1. a \in Servers /\ thread[a].at = "free" /\ calls < MaxCalls /\ calls' = calls + 1
      /\ BeginModule(a, m, illd, root, thread) /\ UNCHANGED graph
  BY DEF IngestModule, NewCall
<1>2. JobsTyped' /\ failures' \in 0 .. MaxFailures /\ Become(a, r)
  BY <1>1, BeginModuleTyped DEF Become
<1>3. r \in Thread /\ InHand(a, r) /\ r.at # "batch"
  BY BegunTyped, IdleIsTyped
<1>4. GraphTyped' /\ CountersTyped'
  BY <1>1, <1>2, GraphStays, CountersKeep DEF CountersTyped
<1> QED BY <1>1, <1>2, <1>3, <1>4, MoveTyped

(***************************************************************************)
(* Batches                                                                 *)
(***************************************************************************)

\* A step of a batch is nothing to another.
LEMMA OthersAccounted ==
  ASSUME TypeInv, NEW b \in Batchers \X {0},
         \A c \in Actors \ ({b} \cup Pool(b)) : thread'[c] = thread[c]
  PROVE  \A c \in Batchers \X {0} : c # b => Accounted(c)'
<1> SUFFICES ASSUME NEW c \in Batchers \X {0}, c # b PROVE Accounted(c)'
  OBVIOUS
<1>1. c \in Actors /\ c \notin Pool(b) /\ Pool(c) \subseteq Actors \ ({b} \cup Pool(b))
  BY PoolsApart
<1>2. thread'[c] = thread[c] /\ \A a \in Pool(c) : thread'[a] = thread[a]
  BY <1>1
<1>3. Busy(c)' = Busy(c)
  BY <1>2 DEF Busy, Pool
<1> QED BY <1>2, <1>3 DEF TypeInv, Accounted

LEMMA BatchIngestTyped ==
  ASSUME TypeInv, NEW b \in Actors, NEW ms \in SUBSET Modules, NEW illd \in BOOLEAN,
         BatchIngest(b, ms, illd)
  PROVE  TypeInv'
<1> DEFINE n == Cardinality(ms)
           r == [Free EXCEPT !.at = "batch", !.illd = illd, !.rest = ms, !.total = n]
           j == [NoJob EXCEPT !.status = "queued"]
<1>1. /\ b \in Servers /\ b[1] \in Batchers /\ thread[b].at = "free" /\ Become(b, r)
      /\ calls < MaxCalls /\ calls' = calls + 1 /\ UNCHANGED <<graph, failures>>
      /\ jobs' = [jobs EXCEPT ![<<b, "batch">>] = j]
  BY DEF BatchIngest, NewCall
<1>2. b \in Batchers \X {0}
  BY <1>1 DEF Servers
<1>3. n \in Nat
  BY FilesAssumption, FS_Subset, FS_CardinalityType
<1> HIDE DEF n
<1>4. r \in Thread /\ r.at = "batch" /\ r.rest = ms /\ r.total = n /\ r.part = Free.part
  BY <1>3, IdleIsTyped DEF Thread, Steps
<1>5. Free.part = 0
  BY DEF Free
<1>6. j \in Job
  BY IdleIsTyped DEF Job, Statuses
<1> HIDE DEF r, j
<1>7. GraphTyped' /\ CountersTyped' /\ JobsTyped'
  BY <1>1, <1>6, GraphStays, CountersKeep DEF CountersTyped, JobsTyped, TypeInv, TypeOK
<1>8. /\ thread' \in [Actors -> Thread] /\ thread'[b] = r
      /\ \A c \in Actors : c # b => thread'[c] = thread[c]
  BY <1>1, <1>4 DEF TypeInv, TypeOK, Become
<1>9. \A c \in Actors : InHand(c, thread[c])'
  BY <1>2, <1>4, <1>8 DEF TypeInv, InHand, InFile, OnFile
<1>10. Accounted(b)'
  <2>1. Busy(b) = {}
    BY <1>1, <1>2 DEF TypeInv, Accounted
  <2>2. \A a \in Pool(b) : thread'[a] = thread[a]
    BY <1>2, <1>8, PoolsApart
  <2>3. Busy(b)' = {}
    BY <2>1, <2>2 DEF Busy, Pool
  <2> QED BY <1>3, <1>4, <1>5, <1>8, <2>3, FS_EmptySet DEF Accounted, n
<1>11. \A c \in Batchers \X {0} : Accounted(c)'
  BY <1>2, <1>8, <1>10, OthersAccounted
<1> QED BY <1>7, <1>8, <1>9, <1>11 DEF TypeInv, TypeOK, JobsTyped, GraphTyped, CountersTyped

\* What one worker does to the batch's count.
LEMMA OneMoreBusy ==
  ASSUME TypeInv, NEW b \in Batchers \X {0}, NEW a \in Pool(b),
         \A c \in Pool(b) : c # a => thread'[c] = thread[c]
  PROVE  /\ thread[a].at = "free" /\ thread'[a].at # "free" =>
              Cardinality(Busy(b)') = Cardinality(Busy(b)) + 1
         /\ thread[a].at # "free" /\ thread'[a].at = "free" =>
              Cardinality(Busy(b)) = Cardinality(Busy(b)') + 1
<1>1. IsFiniteSet(Busy(b))
  BY BusyIsFinite
<1>2. ASSUME thread[a].at = "free", thread'[a].at # "free"
      PROVE  Cardinality(Busy(b)') = Cardinality(Busy(b)) + 1
  <2>1. Busy(b)' = Busy(b) \cup {a} /\ a \notin Busy(b)
    BY <1>2 DEF Busy, Pool
  <2> QED BY <1>1, <2>1, FS_AddElement
<1>3. ASSUME thread[a].at # "free", thread'[a].at = "free"
      PROVE  Cardinality(Busy(b)) = Cardinality(Busy(b)') + 1
  <2>1. Busy(b)' = Busy(b) \ {a} /\ a \in Busy(b)
    BY <1>3 DEF Busy, Pool
  <2>2. Cardinality(Busy(b)) \in Nat
    BY BusyIsFinite
  <2> QED BY <1>1, <2>1, <2>2, FS_RemoveElement
<1> QED BY <1>2, <1>3

LEMMA TakeModuleTyped ==
  ASSUME TypeInv, NEW b \in Actors, NEW a \in Actors, NEW m \in Modules, NEW root \in Roots,
         TakeModule(b, a, m, root)
  PROVE  TypeInv'
<1> DEFINE left == thread[b].rest \ {m}
           q == [thread[b] EXCEPT !.rest = left]
           r == Begun(a, m, thread[b].illd, root)
<1>1. /\ thread[b].at = "batch" /\ a \in Pool(b) /\ thread[a].at = "free"
      /\ m \in thread[b].rest /\ UNCHANGED <<graph, calls>>
      /\ BeginModule(a, m, thread[b].illd, root, [thread EXCEPT ![b] = q])
  BY DEF TakeModule
<1>2. /\ thread[b] \in Thread /\ InHand(b, thread[b]) /\ b \in Batchers \X {0}
  BY <1>1 DEF TypeInv, TypeOK, InHand
<1>3. thread[b].illd \in BOOLEAN /\ thread[b].rest \subseteq Modules /\ thread[b].part \in Nat
      /\ thread[b].total \in Nat
  BY <1>2 DEF Thread
<1>4. JobsTyped' /\ failures' \in 0 .. MaxFailures
      /\ thread' = [[thread EXCEPT ![b] = q] EXCEPT ![a] = r]
  BY <1>1, <1>3, BeginModuleTyped
<1>5. r \in Thread /\ InHand(a, r) /\ r.at \in {"pipeline", "discover", Returned(a).at}
  BY <1>3, BegunTyped
<1>6. a \notin Servers /\ a # b /\ Pool(b) \subseteq Actors /\ b \notin Pool(b)
  BY <1>1, <1>2, PoolsApart
<1>7. r.at \notin {"free", "batch"}
  BY <1>5, <1>6, IdleIsTyped
<1>8. /\ q \in Thread /\ q.rest = left /\ q.at = "batch" /\ q.part = thread[b].part
      /\ q.total = thread[b].total
  BY <1>1, <1>2, <1>3 DEF Thread
<1> HIDE DEF q, r
<1>9. /\ thread' \in [Actors -> Thread] /\ thread'[b] = q /\ thread'[a] = r
      /\ \A c \in Actors : c \notin {a, b} => thread'[c] = thread[c]
  BY <1>4, <1>5, <1>6, <1>8 DEF TypeInv, TypeOK
<1>10. \A c \in Actors : InHand(c, thread[c])'
  <2>1. InHand(b, q)
    BY <1>2, <1>8 DEF InHand, InFile, OnFile
  <2> QED BY <1>5, <1>9, <2>1 DEF TypeInv, InHand, OnFile
<1>11. Accounted(b)'
  <2>1. Cardinality(Busy(b)') = Cardinality(Busy(b)) + 1
    BY <1>1, <1>2, <1>6, <1>7, <1>9, OneMoreBusy
  <2>2. IsFiniteSet(thread[b].rest)
    BY <1>3, FilesAssumption, FS_Subset
  <2>3. Cardinality(left) = Cardinality(thread[b].rest) - 1
    BY <1>1, <2>2, FS_RemoveElement
  <2>4. Cardinality(thread[b].rest) \in Nat /\ Cardinality(Busy(b)) \in Nat
    BY <1>2, <2>2, FS_CardinalityType, BusyIsFinite
  <2>5. thread[b].part + Cardinality(thread[b].rest) + Cardinality(Busy(b)) = thread[b].total
    BY <1>1, <1>2 DEF TypeInv, Accounted
  <2>6. q.part + Cardinality(q.rest) + Cardinality(Busy(b)') = q.total
    BY <1>3, <1>8, <2>1, <2>3, <2>4, <2>5
  <2> QED BY <1>8, <1>9, <2>6 DEF Accounted
<1>12. \A c \in Batchers \X {0} : Accounted(c)'
  BY <1>1, <1>2, <1>9, <1>11, OthersAccounted
<1>13. GraphTyped' /\ CountersTyped'
  BY <1>1, <1>4, GraphStays, CountersKeep DEF CountersTyped
<1> QED BY <1>4, <1>9, <1>10, <1>12, <1>13
     DEF TypeInv, TypeOK, JobsTyped, GraphTyped, CountersTyped

LEMMA CollectTyped ==
  ASSUME TypeInv, NEW b \in Actors, NEW a \in Actors, Collect(b, a)
  PROVE  TypeInv'
<1> DEFINE done == thread[b].part + 1
           total == thread[b].total
           q == [thread[b] EXCEPT !.part = done]
           progress == (100 * done) \div total
<1>1. /\ thread[b].at = "batch" /\ a \in Pool(b) /\ thread[a].at = "returned"
      /\ thread' = [[thread EXCEPT ![b] = q] EXCEPT ![a] = Free]
      /\ SetJob(b, "batch", "processing", progress)
      /\ UNCHANGED <<graph, calls, failures>>
  BY DEF Collect
<1>2. /\ thread[b] \in Thread /\ InHand(b, thread[b]) /\ b \in Batchers \X {0}
  BY <1>1 DEF TypeInv, TypeOK, InHand
<1>3. thread[b].rest \subseteq Modules /\ thread[b].part \in Nat /\ total \in Nat /\ done \in Nat
  BY <1>2 DEF Thread
<1>4. /\ a \notin Servers /\ a # b /\ Pool(b) \subseteq Actors /\ b \notin Pool(b)
      /\ a \in Busy(b)
  BY <1>1, <1>2, PoolsApart DEF Busy
<1> HIDE DEF done
<1>5. /\ q \in Thread /\ q.rest = thread[b].rest /\ q.at = "batch" /\ q.part = done
      /\ q.total = thread[b].total
  BY <1>1, <1>2, <1>3 DEF Thread
<1> HIDE DEF q
<1>6. /\ thread' \in [Actors -> Thread] /\ thread'[b] = q /\ thread'[a] = Free
      /\ \A c \in Actors : c \notin {a, b} => thread'[c] = thread[c]
  BY <1>1, <1>4, <1>5, IdleIsTyped DEF TypeInv, TypeOK
<1>7. \A c \in Actors : InHand(c, thread[c])'
  <2>1. InHand(b, q) /\ InHand(a, Free)
    BY <1>2, <1>5, IdleIsTyped DEF InHand, InFile, OnFile
  <2> QED BY <1>6, <2>1 DEF TypeInv, InHand, OnFile
<1>8. /\ Cardinality(Busy(b)) = Cardinality(Busy(b)') + 1
      /\ Cardinality(Busy(b)) \in Nat /\ Cardinality(Busy(b)') \in Nat
      /\ Cardinality(thread[b].rest) \in Nat
  <2>1. Cardinality(Busy(b)) = Cardinality(Busy(b)') + 1
    BY <1>1, <1>2, <1>4, <1>6, OneMoreBusy, IdleIsTyped
  <2>2. Busy(b)' \subseteq Busy(b)
    BY <1>4, <1>6, IdleIsTyped DEF Busy, Pool
  <2>3. IsFiniteSet(Busy(b)) /\ Cardinality(Busy(b)) \in Nat
    BY <1>2, BusyIsFinite
  <2>4. Cardinality(Busy(b)') \in Nat
    BY <2>2, <2>3, FS_Subset, FS_CardinalityType
  <2> QED BY <1>3, <2>1, <2>3, <2>4, FilesAssumption, FS_Subset, FS_CardinalityType
<1>9. thread[b].part + Cardinality(thread[b].rest) + Cardinality(Busy(b)) = total
  BY <1>1, <1>2 DEF TypeInv, Accounted
<1>10. done + Cardinality(thread[b].rest) + Cardinality(Busy(b)') = total
  BY <1>3, <1>8, <1>9 DEF done
<1>11. Accounted(b)'
  BY <1>5, <1>6, <1>10 DEF Accounted
<1>12. \A c \in Batchers \X {0} : Accounted(c)'
  BY <1>1, <1>2, <1>6, <1>11, OthersAccounted
<1>13. progress \in 0 .. 100
  <2>1. total \in Nat \ {0} /\ done \in 0 .. total
    <3>1. done = thread[b].part + 1
      BY DEF done
    <3> QED BY <1>3, <1>8, <1>10, <3>1
  <2> HIDE DEF total
  <2> QED BY <2>1, Percentage
<1>14. JobsTyped'
  <2> HIDE DEF progress
  <2> QED BY <1>1, <1>13, SetJobTyped DEF Levels, Statuses
<1>15. GraphTyped' /\ CountersTyped'
  BY <1>1, GraphStays, CountersKeep DEF CountersTyped
<1> QED BY <1>6, <1>7, <1>12, <1>14, <1>15
     DEF TypeInv, TypeOK, JobsTyped, GraphTyped, CountersTyped

\* All modules of the batch have been collected: none is waiting or with a worker.
LEMMA CompleteBatchTyped ==
  ASSUME TypeInv, NEW b \in Actors, CompleteBatch(b)
  PROVE  TypeInv'
<1>1. /\ thread[b].at = "batch" /\ thread[b].part = thread[b].total
      /\ SetJob(b, "batch", "completed", 100) /\ Become(b, Free)
      /\ UNCHANGED <<graph, calls, failures>>
  BY DEF CompleteBatch
<1>2. /\ thread[b] \in Thread /\ InHand(b, thread[b]) /\ b \in Batchers \X {0}
  BY <1>1 DEF TypeInv, TypeOK, InHand
<1>3. thread[b].rest \subseteq Modules /\ thread[b].part \in Nat
  BY <1>2 DEF Thread
<1>4. /\ thread' \in [Actors -> Thread] /\ thread'[b] = Free
      /\ \A c \in Actors : c # b => thread'[c] = thread[c]
  BY <1>1, IdleIsTyped DEF TypeInv, TypeOK, Become
<1>5. \A c \in Actors : InHand(c, thread[c])'
  <2>1. InHand(b, Free)
    BY IdleIsTyped DEF InHand, InFile, OnFile
  <2> QED BY <1>4, <2>1 DEF TypeInv, InHand, OnFile
<1>6. Accounted(b)'
  <2>1. Cardinality(thread[b].rest) \in Nat /\ Cardinality(Busy(b)) \in Nat /\ IsFiniteSet(Busy(b))
    BY <1>2, <1>3, FilesAssumption, FS_Subset, FS_CardinalityType, BusyIsFinite
  <2>2. thread[b].part + Cardinality(thread[b].rest) + Cardinality(Busy(b)) = thread[b].part
    BY <1>1, <1>2 DEF TypeInv, Accounted
  <2>3. Cardinality(Busy(b)) = 0
    BY <1>3, <2>1, <2>2
  <2>4. Busy(b) = {}
    BY <2>1, <2>3, FS_EmptySet
  <2>5. \A c \in Pool(b) : thread'[c] = thread[c]
    BY <1>2, <1>4, PoolsApart
  <2>6. Busy(b)' = {}
    BY <2>4, <2>5 DEF Busy, Pool
  <2> QED BY <1>4, <2>6, IdleIsTyped DEF Accounted
<1>7. \A c \in Batchers \X {0} : Accounted(c)'
  BY <1>2, <1>4, <1>6, OthersAccounted
<1>8. GraphTyped' /\ CountersTyped' /\ JobsTyped'
  BY <1>1, GraphStays, CountersKeep, SetJobTyped DEF CountersTyped, Levels, Statuses
<1> QED BY <1>4, <1>5, <1>7, <1>8
     DEF TypeInv, TypeOK, JobsTyped, GraphTyped, CountersTyped

LEMMA TypeInit == Init => TypeInv
<1> SUFFICES ASSUME Init PROVE TypeInv
  OBVIOUS
<1>1. \A a \in Actors : thread[a] = Free
  BY DEF Init
<1>2. TypeOK
  BY IdleIsTyped, BoundsAssumption DEF Init, TypeOK
<1>3. \A a \in Actors : InHand(a, thread[a])
  BY <1>1, IdleIsTyped DEF InHand, InFile, OnFile
<1>4. \A b \in Batchers \X {0} : Accounted(b)
  <2> SUFFICES ASSUME NEW b \in Batchers \X {0} PROVE Accounted(b)
    OBVIOUS
  <2>1. b \in Actors /\ Pool(b) \subseteq Actors
    BY PoolsApart
  <2> QED BY <1>1, <2>1, IdleIsTyped DEF Accounted, Busy
<1> QED BY <1>2, <1>3, <1>4 DEF TypeInv

LEMMA TypeStays == ASSUME TypeInv, UNCHANGED vars PROVE TypeInv'
<1>1. \A b \in Batchers \X {0} : Accounted(b)'
  BY DEF TypeInv, Accounted, Busy, Pool, vars
<1>2. \A a \in Actors : InHand(a, thread[a])'
  BY DEF TypeInv, InHand, OnFile, vars
<1>3. TypeOK'
  BY DEF TypeInv, TypeOK, vars, graph
<1> QED BY <1>1, <1>2, <1>3 DEF TypeInv

LEMMA TypeNext == ASSUME TypeInv, Next PROVE TypeInv'
<1>1. PICK a \in Actors : Step(a) \/ BatchStep(a) \/ Call(a)
  BY DEF Next
<1>2. CASE Step(a)
  BY <1>2, ParseTyped, WriteTyped, ExitTyped, CompleteTyped, AnnounceTyped, DiscoverTyped,
     NextFileTyped, CompleteModuleTyped, PipelineTyped DEF Step
<1>3. CASE BatchStep(a)
  BY <1>3, TakeModuleTyped, CollectTyped, CompleteBatchTyped DEF BatchStep
<1>4. CASE Call(a)
  BY <1>4, IngestFileTyped, IngestModuleTyped, BatchIngestTyped DEF Call
<1> QED BY <1>1, <1>2, <1>3, <1>4

LEMMA TypeAlways == Spec => []TypeInv
<1>1. TypeInv /\ [Next]_vars => TypeInv'
  BY TypeNext, TypeStays
<1> QED BY TypeInit, <1>1, PTL DEF Spec

\* Whatever the calls, their files and their failures, every thread is at one of
\* its steps and every progress is a percentage.
THEOREM TypeCorrect == Spec => []TypeOK
<1>1. TypeInv => TypeOK
  BY DEF TypeInv
<1> QED BY <1>1, TypeAlways, PTL

\* batch_ingest leaves its pool only when all its workers are idle.
THEOREM BatchIsOver == Spec => []CompletedBatchIsOver
<1>1. TypeInv => CompletedBatchIsOver
  BY DEF TypeInv, Accounted, Busy, CompletedBatchIsOver
<1> QED BY <1>1, TypeAlways, PTL

(***************************************************************************)
(* What is written is announced and what is counted is stored              *)
(***************************************************************************)

\* Whoever has written to a module is going to announce it.
Owing == WritingSteps \cup {"announce"}
Owes(a, m) == thread[a].mod = m /\ thread[a].at \in Owing
Owed == \A m \in unannounced : m \in aborted \/ \E a \in Actors : Owes(a, m)

\* What of its file a thread has stored so far, when no query has failed.
FewCalls(f) == NumberOfCalls(f) < Threshold
NodeItems(f) == {i \in DOMAIN Found[f] : Found[f][i][2] = None}
RelItems(f) == DOMAIN Found[f] \ NodeItems(f)
Stored(r) ==
  /\ r.at = "write" =>
       /\ \A i \in NodeItems(r.file) :
            i < r.next /\ i \notin r.pending => <<r.mod, Found[r.file][i][1]>> \in nodes
       /\ FewCalls(r.file) => \A i \in RelItems(r.file) : i < r.next => i \in r.pending
  /\ r.at = "exit" => r.broken
  /\ r.at = "exitRels" /\ ~r.broken =>
       /\ FunctionsAreStored(r)
       /\ FewCalls(r.file) => RelItems(r.file) \subseteq r.pending
  /\ r.at = "complete" /\ ~r.broken => FunctionsAreStored(r) /\ CallsAreStored(r)

\* The job of a file that is counted stays stored: nothing is ever taken away.
JobStored(j) == j.counted => FunctionsAreStored(j) /\ CallsAreStored(j)
Working(a) == FollowsFile(a) /\ Stored(thread[a]) /\ JobStored(jobs[<<a, "file">>])
WorkInv == Owed /\ \A a \in Actors : Working(a)

\* What a step of a does not touch.
Apart(a) ==
  \A c \in Actors \ {a} :
    /\ jobs'[<<c, "file">>] = jobs[<<c, "file">>]
    /\ thread'[c] = thread[c] \/ (thread[c].at = "batch" /\ thread'[c].at = "batch")
SameJob(j, k) == j.mod = k.mod /\ j.file = k.file /\ j.counted = k.counted

LEMMA WorkKept ==
  ASSUME WorkInv, NEW a \in Actors, Apart(a),
         nodes \subseteq nodes', edges \subseteq edges', aborted \subseteq aborted',
         \A m \in unannounced' : m \in unannounced \/ m \in aborted' \/ Owes(a, m)',
         \A m \in unannounced' : Owes(a, m) => m \in aborted' \/ Owes(a, m)',
         Working(a)'
  PROVE  WorkInv'
<1>1. ASSUME NEW c \in Actors PROVE Working(c)'
  <2>1. CASE c = a
    BY <2>1
  <2>2. CASE c # a
    <3>1. /\ jobs'[<<c, "file">>] = jobs[<<c, "file">>]
          /\ thread'[c] = thread[c] \/ (thread[c].at = "batch" /\ thread'[c].at = "batch")
      BY <2>2 DEF Apart
    <3>2. FollowsFile(c)'
      BY <3>1 DEF WorkInv, Working, FollowsFile, OnFile, InFile
    <3>3. JobStored(jobs[<<c, "file">>])'
      BY <3>1 DEF WorkInv, Working, JobStored, FunctionsAreStored, CallsAreStored
    <3>4. CASE thread'[c] = thread[c]
      <4>1. Stored(thread[c])'
        BY <3>4 DEF WorkInv, Working, Stored, FunctionsAreStored, CallsAreStored
      <4> QED BY <3>2, <3>3, <4>1 DEF Working
    <3>5. CASE thread'[c].at = "batch"
      BY <3>2, <3>3, <3>5 DEF Working, Stored
    <3> QED BY <3>1, <3>4, <3>5
  <2> QED BY <2>1, <2>2
<1>2. ASSUME NEW m \in unannounced', m \notin aborted' PROVE \E c \in Actors : Owes(c, m)'
  <2>1. CASE Owes(a, m)'
    BY <2>1
  <2>2. CASE ~Owes(a, m)'
    <3>1. PICK c \in Actors : Owes(c, m)
      BY <1>2, <2>2 DEF WorkInv, Owed
    <3>2. c # a
      BY <1>2, <2>2, <3>1
    <3>3. thread'[c] = thread[c]
      BY <3>1, <3>2 DEF Apart, Owes, Owing, WritingSteps
    <3> QED BY <3>1, <3>3 DEF Owes
  <2> QED BY <2>1, <2>2
<1> QED BY <1>1, <1>2 DEF WorkInv, Owed

\* A step outside of files.
LEMMA AwayKept ==
  ASSUME WorkInv, NEW a \in Actors, Apart(a), ~OnFile(thread'[a]), thread[a].at \notin Owing,
         SameJob(jobs'[<<a, "file">>], jobs[<<a, "file">>]),
         UNCHANGED <<nodes, edges>>, aborted \subseteq aborted',
         \A m \in unannounced' : m \in unannounced \/ m \in aborted' \/ Owes(a, m)'
  PROVE  WorkInv'
<1>1. \A m : ~Owes(a, m)
  BY DEF Owes
<1>2. Working(a)'
  <2>1. FollowsFile(a)'
    BY DEF FollowsFile, OnFile
  <2>2. Stored(thread[a])'
    BY DEF Stored, OnFile, InFile
  <2>3. JobStored(jobs[<<a, "file">>])'
    BY DEF WorkInv, Working, JobStored, FunctionsAreStored, CallsAreStored, SameJob
  <2> QED BY <2>1, <2>2, <2>3 DEF Working
<1> QED BY <1>1, <1>2, WorkKept

LEMMA BecomeIsApart ==
  ASSUME TypeInv, NEW a \in Actors, NEW r, Become(a, r),
         \A c \in Actors \ {a} : jobs'[<<c, "file">>] = jobs[<<c, "file">>]
  PROVE  Apart(a) /\ thread'[a] = r
BY DEF TypeInv, TypeOK, Become, Apart

\* Only the work on a file changes the file's job.
LEMMA FileJobsKept ==
  ASSUME TypeInv, NEW a \in Actors
  PROVE  /\ UNCHANGED jobs =>
              \A c \in Actors : jobs'[<<c, "file">>] = jobs[<<c, "file">>]
         /\ \A level \in Levels \ {"file"} : \A j :
              jobs' = [jobs EXCEPT ![<<a, level>>] = j] =>
                \A c \in Actors : jobs'[<<c, "file">>] = jobs[<<c, "file">>]
         /\ \A level \in Levels \ {"file"} : \A status, progress :
              SetJob(a, level, status, progress) =>
                \A c \in Actors : jobs'[<<c, "file">>] = jobs[<<c, "file">>]
         /\ \A j : jobs' = [jobs EXCEPT ![<<a, "file">>] = j] =>
              /\ \A c \in Actors \ {a} : jobs'[<<c, "file">>] = jobs[<<c, "file">>]
              /\ jobs'[<<a, "file">>] = j
         /\ \A status : EndFileJob(a, status) =>
              /\ \A c \in Actors \ {a} : jobs'[<<c, "file">>] = jobs[<<c, "file">>]
              /\ SameJob(jobs'[<<a, "file">>], jobs[<<a, "file">>])
<1>1. jobs \in [Actors \X Levels -> Job] /\ <<a, "file">> \in Actors \X Levels
  BY DEF TypeInv, TypeOK, Levels
<1>2. \A c \in Actors : <<c, "file">> \in Actors \X Levels /\ jobs[<<c, "file">>] \in Job
  BY <1>1 DEF Levels
<1>3. ASSUME NEW level \in Levels \ {"file"}, NEW j, jobs' = [jobs EXCEPT ![<<a, level>>] = j],
             NEW c \in Actors
      PROVE  jobs'[<<c, "file">>] = jobs[<<c, "file">>]
  <2>1. <<a, level>> # <<c, "file">>
    BY <1>3
  <2> QED BY <1>1, <1>2, <1>3, <2>1
<1>4. ASSUME NEW level \in Levels \ {"file"}, NEW status, NEW progress,
             SetJob(a, level, status, progress), NEW c \in Actors
      PROVE  jobs'[<<c, "file">>] = jobs[<<c, "file">>]
  <2>1. <<a, level>> # <<c, "file">>
    BY <1>4
  <2> QED BY <1>1, <1>2, <1>4, <2>1 DEF SetJob
<1>5. ASSUME NEW status, EndFileJob(a, status)
      PROVE  /\ \A c \in Actors \ {a} : jobs'[<<c, "file">>] = jobs[<<c, "file">>]
             /\ SameJob(jobs'[<<a, "file">>], jobs[<<a, "file">>])
  <2>1. ASSUME NEW c \in Actors \ {a} PROVE jobs'[<<c, "file">>] = jobs[<<c, "file">>]
    <3>1. <<c, "file">> # <<a, "file">> /\ <<c, "file">> # <<a, "module">>
      BY <2>1
    <3> QED BY <1>2, <1>5, <3>1 DEF EndFileJob
  <2>2. jobs'[<<a, "file">>] = [jobs[<<a, "file">>] EXCEPT !.status = status]
    BY <1>1, <1>5 DEF EndFileJob
  <2>3. jobs[<<a, "file">>] \in Job
    BY <1>2
  <2> HIDE DEF EndFileJob
  <2>4. SameJob(jobs'[<<a, "file">>], jobs[<<a, "file">>])
    BY <2>2, <2>3 DEF Job, SameJob
  <2> QED BY <2>1, <2>4
<1>6. ASSUME NEW j, jobs' = [jobs EXCEPT ![<<a, "file">>] = j]
      PROVE  /\ \A c \in Actors \ {a} : jobs'[<<c, "file">>] = jobs[<<c, "file">>]
             /\ jobs'[<<a, "file">>] = j
  BY <1>1, <1>2, <1>6
<1> QED BY <1>3, <1>4, <1>5, <1>6

\* A file is begun: nothing of it is stored or counted yet.
LEMMA BeginFileKept ==
  ASSUME TypeInv, WorkInv, NEW a \in Actors, NEW f \in Files, NEW r \in Thread,
         r.mod \in Modules, r.whole => r.part < Len(FilesOf[r.mod]), BeginFile(a, f, r),
         thread[a].at \notin Owing, UNCHANGED graph
  PROVE  WorkInv'
<1> DEFINE j == [NoJob EXCEPT !.status = "processing", !.progress = 10, !.mod = r.mod,
                              !.file = f]
<1>1. PICK q \in Thread : /\ Become(a, q) /\ q.at = "parse" /\ q.file = f /\ q.mod = r.mod
  BY BeginFileTyped
<1>2. jobs' = [jobs EXCEPT ![<<a, "file">>] = j]
  BY DEF BeginFile
<1>3. j.mod = r.mod /\ j.file = f /\ ~j.counted
  BY DEF NoJob
<1> HIDE DEF j
<1>4. jobs'[<<a, "file">>] = j /\ Apart(a) /\ thread'[a] = q
  BY <1>1, <1>2, FileJobsKept, BecomeIsApart
<1>5. Working(a)'
  BY <1>1, <1>3, <1>4 DEF Working, FollowsFile, Stored, JobStored
<1>6. \A m : ~Owes(a, m)
  BY DEF Owes
<1> QED BY <1>4, <1>5, <1>6, WorkKept DEF graph

\* Jobs and threads outside of files.
LEMMA RestKept ==
  ASSUME TypeInv, WorkInv, NEW a \in Actors,
         \/ Discover(a) \/ NextFile(a) \/ CompleteModule(a) \/ PipelineEnds(a)
         \/ CompleteBatch(a)
  PROVE  WorkInv'
<1>1. thread[a] \in Thread /\ InHand(a, thread[a])
  BY DEF TypeInv, TypeOK
<1>2. CASE Discover(a)
  <2> DEFINE r == [thread[a] EXCEPT !.at = "files", !.part = 0]
  <2>1. thread[a].at = "discover" /\ Become(a, r) /\ SetJob(a, "module", "processing", 10)
        /\ UNCHANGED graph
    BY <1>2 DEF Discover
  <2>2. r.at = "files"
    BY <1>1 DEF Thread
  <2> HIDE DEF r
  <2>3. \A c \in Actors : jobs'[<<c, "file">>] = jobs[<<c, "file">>]
    BY <2>1, FileJobsKept DEF Levels
  <2>4. Apart(a) /\ thread'[a] = r
    BY <2>1, <2>3, BecomeIsApart
  <2> QED BY <2>1, <2>2, <2>3, <2>4, AwayKept
       DEF OnFile, InFile, Owing, WritingSteps, SameJob, graph
<1>3. CASE NextFile(a)
  <2>1. thread[a].at = "files" /\ thread[a].part < Len(FilesIn(a))
        /\ BeginFile(a, FilesIn(a)[thread[a].part + 1], thread[a]) /\ UNCHANGED graph
    BY <1>3 DEF NextFile
  <2>2. thread[a].mod \in Modules /\ thread[a].part \in Nat
    BY <1>1, <2>1 DEF InHand, Thread
  <2>3. FilesIn(a) \in Seq(Files)
    BY <2>2, FilesAssumption DEF FilesIn
  <2>4. FilesIn(a)[thread[a].part + 1] \in Files
    BY <2>1, <2>2, <2>3
  <2> QED BY <1>1, <2>1, <2>2, <2>4, BeginFileKept DEF FilesIn, Owing, WritingSteps
<1>4. CASE CompleteModule(a)
  <2>1. thread[a].at = "files" /\ Go(a, "announce") /\ SetJob(a, "module", "completed", 100)
        /\ UNCHANGED graph
    BY <1>4 DEF CompleteModule
  <2>2. PICK q \in Thread : Become(a, q) /\ q.at = "announce" /\ Keeps(q, thread[a])
    BY <2>1, GoKeeps DEF Steps
  <2>3. \A c \in Actors : jobs'[<<c, "file">>] = jobs[<<c, "file">>]
    BY <2>1, FileJobsKept DEF Levels
  <2>4. Apart(a) /\ thread'[a] = q
    BY <2>2, <2>3, BecomeIsApart
  <2>5. q.file = None
    BY <1>1, <2>1, <2>2 DEF InHand, Keeps
  <2> QED BY <2>1, <2>2, <2>3, <2>4, <2>5, AwayKept
       DEF OnFile, InFile, Owing, WritingSteps, SameJob, graph
<1>5. CASE PipelineEnds(a)
  <2>1. thread[a].at = "pipeline" /\ unannounced' = unannounced \cup {thread[a].mod}
        /\ UNCHANGED <<nodes, edges>>
    BY <1>5 DEF PipelineEnds
  <2>2. CASE Go(a, "announce") /\ SetJob(a, "module", "completed", 100) /\ UNCHANGED aborted
    <3>1. PICK q \in Thread : Become(a, q) /\ q.at = "announce" /\ Keeps(q, thread[a])
      BY <2>2, GoKeeps DEF Steps
    <3>2. \A c \in Actors : jobs'[<<c, "file">>] = jobs[<<c, "file">>]
      BY <2>2, FileJobsKept DEF Levels
    <3>3. Apart(a) /\ thread'[a] = q
      BY <3>1, <3>2, BecomeIsApart
    <3>4. q.file = None /\ q.mod = thread[a].mod
      BY <1>1, <2>1, <3>1 DEF InHand, Keeps
    <3>5. Owes(a, thread[a].mod)'
      BY <3>1, <3>3, <3>4 DEF Owes, Owing
    <3>6. \A m \in unannounced' : m \in unannounced \/ Owes(a, m)'
      BY <2>1, <3>1, <3>3, <3>4 DEF Owes, Owing
    <3> QED BY <2>1, <2>2, <3>1, <3>2, <3>3, <3>4, <3>6, AwayKept
         DEF OnFile, InFile, Owing, WritingSteps, SameJob
  <2>3. CASE Become(a, Returned(a)) /\ aborted' = aborted \cup {thread[a].mod} /\ UNCHANGED jobs
    <3>1. Apart(a) /\ thread'[a] = Returned(a)
      BY <2>3, FileJobsKept, BecomeIsApart
    <3> QED BY <2>1, <2>3, <3>1, IdleIsTyped, AwayKept
         DEF OnFile, InFile, Owing, WritingSteps, SameJob
  <2> QED BY <1>5, <2>2, <2>3 DEF PipelineEnds
<1>6. CASE CompleteBatch(a)
  <2>1. thread[a].at = "batch" /\ Become(a, Free) /\ SetJob(a, "batch", "completed", 100)
        /\ UNCHANGED graph
    BY <1>6 DEF CompleteBatch
  <2>2. \A c \in Actors : jobs'[<<c, "file">>] = jobs[<<c, "file">>]
    BY <2>1, FileJobsKept DEF Levels
  <2>3. Apart(a) /\ thread'[a] = Free
    BY <2>1, <2>2, BecomeIsApart
  <2> QED BY <2>1, <2>2, <2>3, IdleIsTyped, AwayKept
       DEF OnFile, InFile, Owing, WritingSteps, SameJob, graph
<1> QED BY <1>2, <1>3, <1>4, <1>5, <1>6

LEMMA CallKept ==
  ASSUME TypeInv, WorkInv, NEW a \in Actors, Call(a)
  PROVE  WorkInv'
<1>1. CASE \E f \in Files, m \in Modules : IngestFile(a, f, m)
  <2>1. PICK f \in Files, m \in Modules : IngestFile(a, f, m)
    BY <1>1
  <2> DEFINE r == [Free EXCEPT !.mod = m]
  <2>2. thread[a].at = "free" /\ BeginFile(a, f, r) /\ UNCHANGED graph
    BY <2>1 DEF IngestFile, NewCall
  <2>3. r \in Thread /\ r.mod = m
    BY IdleIsTyped DEF Thread
  <2>4. ~r.whole
    <3>1. r.whole = Free.whole
      BY IdleIsTyped DEF Thread
    <3> QED BY <3>1 DEF Free
  <2> HIDE DEF r
  <2> QED BY <2>2, <2>3, <2>4, BeginFileKept DEF Owing, WritingSteps
<1>2. CASE \E m \in Modules, illd \in BOOLEAN, root \in Roots : IngestModule(a, m, illd, root)
  <2>1. PICK m \in Modules, illd \in BOOLEAN, root \in Roots : IngestModule(a, m, illd, root)
    BY <1>2
  <2>2. thread[a].at = "free" /\ BeginModule(a, m, illd, root, thread) /\ UNCHANGED graph
    BY <2>1 DEF IngestModule, NewCall
  <2>3. Become(a, Begun(a, m, illd, root))
    BY <2>2, BeginModuleTyped DEF Become
  <2>4. \A c \in Actors : jobs'[<<c, "file">>] = jobs[<<c, "file">>]
    BY <2>2, FileJobsKept DEF BeginModule, Levels
  <2>5. Apart(a) /\ thread'[a] = Begun(a, m, illd, root)
    BY <2>3, <2>4, BecomeIsApart
  <2>6. ~OnFile(thread'[a])
    BY <2>5, BegunTyped, IdleIsTyped DEF OnFile, InFile
  <2> QED BY <2>2, <2>4, <2>5, <2>6, AwayKept DEF Owing, WritingSteps, SameJob, graph
<1>3. CASE \E ms \in SUBSET Modules, illd \in BOOLEAN : BatchIngest(a, ms, illd)
  <2>1. PICK ms \in SUBSET Modules, illd \in BOOLEAN : BatchIngest(a, ms, illd)
    BY <1>3
  <2> DEFINE r == [Free EXCEPT !.at = "batch", !.illd = illd, !.rest = ms,
                               !.total = Cardinality(ms)]
             j == [NoJob EXCEPT !.status = "queued"]
  <2>2. thread[a].at = "free" /\ Become(a, r) /\ UNCHANGED graph
        /\ jobs' = [jobs EXCEPT ![<<a, "batch">>] = j]
    BY <2>1 DEF BatchIngest, NewCall
  <2>3. r.at = "batch"
    BY DEF Free
  <2> HIDE DEF r, j
  <2>4. \A c \in Actors : jobs'[<<c, "file">>] = jobs[<<c, "file">>]
    BY <2>2, FileJobsKept DEF Levels
  <2>5. Apart(a) /\ thread'[a] = r
    BY <2>2, <2>4, BecomeIsApart
  <2> QED BY <2>2, <2>3, <2>4, <2>5, AwayKept
       DEF OnFile, InFile, Owing, WritingSteps, SameJob, graph
<1> QED BY <1>1, <1>2, <1>3 DEF Call

LEMMA BatchKept ==
  ASSUME TypeInv, WorkInv, NEW b \in Actors, NEW a \in Actors,
         \/ \E m \in Modules, root \in Roots : TakeModule(b, a, m, root)
         \/ Collect(b, a)
  PROVE  WorkInv'
<1>1. thread[b].at = "batch" /\ a \in Pool(b) /\ UNCHANGED graph
  BY DEF TakeModule, Collect
<1>2. /\ thread[b] \in Thread /\ b \in Batchers \X {0} /\ a # b
      /\ thread \in [Actors -> Thread] /\ a \notin Servers
  BY <1>1, PoolsApart DEF TypeInv, TypeOK, InHand
<1>3. CASE \E m \in Modules, root \in Roots : TakeModule(b, a, m, root)
  <2>1. PICK m \in Modules, root \in Roots : TakeModule(b, a, m, root)
    BY <1>3
  <2> DEFINE r == Begun(a, m, thread[b].illd, root)
             q == [thread[b] EXCEPT !.rest = @ \ {m}]
  <2>2. thread[b].illd \in BOOLEAN /\ q.at = "batch" /\ thread[a].at = "free"
    BY <1>1, <1>2, <2>1 DEF Thread, TakeModule
  <2>3. BeginModule(a, m, thread[b].illd, root, [thread EXCEPT ![b] = q])
    BY <2>1 DEF TakeModule
  <2>4. thread' = [[thread EXCEPT ![b] = q] EXCEPT ![a] = r]
    BY <2>2, <2>3, BeginModuleTyped
  <2>5. \A c \in Actors : jobs'[<<c, "file">>] = jobs[<<c, "file">>]
    BY <2>3, FileJobsKept DEF BeginModule, Levels
  <2> HIDE DEF q
  <2>6. Apart(a) /\ thread'[a] = r
    BY <1>1, <1>2, <2>2, <2>4, <2>5 DEF Apart
  <2>7. ~OnFile(r)
    BY <2>2, BegunTyped, IdleIsTyped DEF OnFile, InFile
  <2> QED BY <1>1, <2>2, <2>5, <2>6, <2>7, AwayKept DEF Owing, WritingSteps, SameJob, graph
<1>4. CASE Collect(b, a)
  <2> DEFINE q == [thread[b] EXCEPT !.part = @ + 1]
             progress == (100 * (thread[b].part + 1)) \div thread[b].total
  <2>1. /\ thread' = [[thread EXCEPT ![b] = q] EXCEPT ![a] = Free]
        /\ thread[a].at = "returned" /\ SetJob(b, "batch", "processing", progress)
    BY <1>4 DEF Collect
  <2>2. q.at = "batch"
    BY <1>1, <1>2 DEF Thread
  <2> HIDE DEF q, progress
  <2>3. \A c \in Actors : jobs'[<<c, "file">>] = jobs[<<c, "file">>]
    BY <2>1, FileJobsKept DEF Levels
  <2>4. Apart(a) /\ thread'[a] = Free
    BY <1>1, <1>2, <2>1, <2>2, <2>3 DEF Apart
  <2> QED BY <1>1, <2>1, <2>3, <2>4, IdleIsTyped, AwayKept
       DEF OnFile, InFile, Owing, WritingSteps, SameJob, graph
<1> QED BY <1>3, <1>4

\* The file's job is over, or the next file of the module is due.
LEMMA FileOverKept ==
  ASSUME TypeInv, WorkInv, NEW a \in Actors, OnFile(thread[a]), NEW status \in Statuses,
         Become(a, AfterFile(a)), EndFileJob(a, status),
         thread[a].at \in Owing => unannounced' = unannounced \ {thread[a].mod},
         unannounced' \subseteq unannounced, UNCHANGED <<nodes, edges, aborted>>
  PROVE  WorkInv'
<1>1. /\ \A c \in Actors \ {a} : jobs'[<<c, "file">>] = jobs[<<c, "file">>]
      /\ SameJob(jobs'[<<a, "file">>], jobs[<<a, "file">>])
  BY FileJobsKept
<1>2. Apart(a) /\ thread'[a] = AfterFile(a)
  BY <1>1, BecomeIsApart
<1>3. thread'[a].at \in {"files", "free", "returned"}
  BY <1>2, AfterFileKeeps, IdleIsTyped
<1>4. Working(a)'
  <2>1. FollowsFile(a)'
    BY <1>3 DEF FollowsFile, OnFile, InFile
  <2>2. Stored(thread[a])'
    BY <1>3 DEF Stored
  <2>3. JobStored(jobs[<<a, "file">>])'
    BY <1>1 DEF WorkInv, Working, JobStored, FunctionsAreStored, CallsAreStored, SameJob
  <2> QED BY <2>1, <2>2, <2>3 DEF Working
<1>5. \A m \in unannounced' : ~Owes(a, m)
  BY DEF Owes
<1> QED BY <1>2, <1>4, <1>5, WorkKept

LEMMA ParseKept ==
  ASSUME TypeInv, WorkInv, NEW a \in Actors, Parse(a)
  PROVE  WorkInv'
<1> DEFINE j == [jobs[<<a, "file">>] EXCEPT !.progress = 50]
<1>1. thread[a].at = "parse" /\ UNCHANGED graph
  BY DEF Parse
<1>2. /\ thread[a] \in Thread /\ InHand(a, thread[a]) /\ OnFile(thread[a])
      /\ thread[a].file \in Files
  BY <1>1 DEF TypeInv, TypeOK, OnFile, InHand, InFile
<1>3. CASE Go(a, "write") /\ jobs' = [jobs EXCEPT ![<<a, "file">>].progress = 50]
  <2>1. PICK q \in Thread : Become(a, q) /\ q.at = "write" /\ Keeps(q, thread[a])
    BY <1>3, GoKeeps DEF Steps
  <2>2. jobs' = [jobs EXCEPT ![<<a, "file">>] = j]
    BY <1>3 DEF TypeInv, TypeOK, Levels
  <2>3. SameJob(j, jobs[<<a, "file">>])
    BY DEF SameJob, TypeInv, TypeOK, Job, Levels
  <2> HIDE DEF j
  <2>4. jobs'[<<a, "file">>] = j /\ Apart(a) /\ thread'[a] = q
    BY <2>1, <2>2, FileJobsKept, BecomeIsApart
  <2>5. FollowsFile(a)'
    BY <1>2, <2>1, <2>3, <2>4 DEF WorkInv, Working, FollowsFile, Keeps, SameJob
  <2>6. JobStored(jobs[<<a, "file">>])'
    BY <1>1, <2>3, <2>4
       DEF WorkInv, Working, JobStored, FunctionsAreStored, CallsAreStored, SameJob, graph
  <2>7. Stored(thread[a])'
    <3>1. q.next = 1
      BY <1>1, <1>2, <2>1 DEF InHand, Keeps
    <3>2. q.file \in Files
      BY <1>2, <2>1 DEF Keeps
    <3>3. \A i \in DOMAIN Found[q.file] : ~(i < 1)
      BY <3>2, FileItems
    <3> QED BY <2>1, <2>4, <3>1, <3>3 DEF Stored, NodeItems, RelItems
  <2>8. \A m : ~Owes(a, m)
    BY <1>1 DEF Owes, Owing, WritingSteps
  <2> QED BY <1>1, <2>4, <2>5, <2>6, <2>7, <2>8, WorkKept DEF Working, graph
<1>4. CASE Become(a, AfterFile(a)) /\ EndFileJob(a, "failed")
  BY <1>1, <1>2, <1>4, FileOverKept DEF Owing, WritingSteps, Statuses, graph
<1> QED BY <1>3, <1>4 DEF Parse

LEMMA AnnounceKept ==
  ASSUME TypeInv, WorkInv, NEW a \in Actors, Announce(a)
  PROVE  WorkInv'
<1>1. thread[a].at = "announce" /\ UNCHANGED <<nodes, edges, aborted>>
      /\ unannounced' = unannounced \ {thread[a].mod}
  BY DEF Announce
<1>2. CASE thread[a].file # None
  BY <1>1, <1>2, FileOverKept DEF Announce, OnFile, Statuses
<1>3. CASE thread[a].file = None
  <2>1. Become(a, Returned(a)) /\ UNCHANGED jobs
    BY <1>3 DEF Announce
  <2>2. Apart(a) /\ thread'[a] = Returned(a)
    BY <2>1, FileJobsKept, BecomeIsApart
  <2>3. thread'[a].at \in {"free", "returned"}
    BY <2>2, IdleIsTyped
  <2>4. Working(a)'
    BY <1>1, <2>1, <2>3
       DEF WorkInv, Working, FollowsFile, OnFile, InFile, Stored, JobStored, FunctionsAreStored,
           CallsAreStored
  <2>5. \A m \in unannounced' : ~Owes(a, m)
    BY <1>1 DEF Owes
  <2> QED BY <1>1, <2>2, <2>4, <2>5, WorkKept
<1> QED BY <1>2, <1>3

\* A job that is counted is one whose file has been stored.
LEMMA CompleteKept ==
  ASSUME TypeInv, WorkInv, NEW a \in Actors, Complete(a)
  PROVE  WorkInv'
<1> DEFINE r == thread[a]
           old == jobs[<<a, "file">>]
           j == [old EXCEPT !.status = "completed", !.progress = 100, !.counted = ~r.broken]
<1>1. r.at = "complete" /\ Go(a, "announce") /\ UNCHANGED graph
      /\ jobs' = [jobs EXCEPT ![<<a, "file">>] = j]
  BY DEF Complete
<1>2. r \in Thread /\ old \in Job
  BY DEF TypeInv, TypeOK, Levels
<1>3. PICK q \in Thread : Become(a, q) /\ q.at = "announce" /\ Keeps(q, r)
  BY <1>1, GoKeeps DEF Steps
<1>4. j.mod = old.mod /\ j.file = old.file
  BY <1>2 DEF Job
<1>5. j.counted = ~r.broken
  BY <1>2 DEF Job
<1>6. old.mod = r.mod /\ old.file = r.file
  BY <1>1 DEF WorkInv, Working, FollowsFile, OnFile, InFile
<1> HIDE DEF j
<1>7. jobs'[<<a, "file">>] = j /\ Apart(a) /\ thread'[a] = q
  BY <1>1, <1>3, FileJobsKept, BecomeIsApart
<1>8. FollowsFile(a)'
  BY <1>3, <1>4, <1>6, <1>7 DEF FollowsFile, Keeps
<1>9. Stored(thread[a])'
  BY <1>3, <1>7 DEF Stored
<1>10. JobStored(jobs[<<a, "file">>])'
  <2>1. ~r.broken => FunctionsAreStored(r) /\ CallsAreStored(r)
    BY <1>1 DEF WorkInv, Working, Stored
  <2>2. j.counted => ~r.broken
    BY <1>5
  <2>3. ASSUME j.counted PROVE FunctionsAreStored(jobs[<<a, "file">>])'
    BY <1>1, <1>4, <1>6, <1>7, <2>1, <2>2, <2>3 DEF FunctionsAreStored, graph
  <2>4. ASSUME j.counted PROVE CallsAreStored(jobs[<<a, "file">>])'
    BY <1>1, <1>4, <1>6, <1>7, <2>1, <2>2, <2>4 DEF CallsAreStored, graph
  <2> QED BY <1>7, <2>3, <2>4 DEF JobStored
<1>11. \A m : Owes(a, m) => Owes(a, m)'
  BY <1>3, <1>7 DEF Owes, Owing, Keeps
<1> QED BY <1>1, <1>7, <1>8, <1>9, <1>10, <1>11, WorkKept DEF Working, graph

\* The relationships of a file with few calls do not fill the buffer.
LEMMA FewFit ==
  ASSUME NEW f \in Files, FewCalls(f), NEW items \in SUBSET RelItems(f)
  PROVE  Cardinality(items) < Threshold
<1>1. IsFiniteSet(DOMAIN Found[f])
  BY ItemsAreFinite
<1>2. {j \in DOMAIN Found[f] : Found[f][j][2] # None} = RelItems(f)
  BY DEF RelItems, NodeItems
<1>3. IsFiniteSet(RelItems(f)) /\ Cardinality(RelItems(f)) < Threshold
  BY <1>1, <1>2, FS_Subset DEF FewCalls, NumberOfCalls, RelItems
<1>4. Cardinality(items) <= Cardinality(RelItems(f)) /\ IsFiniteSet(items)
  BY <1>3, FS_Subset
<1>5. Cardinality(items) \in Nat /\ Cardinality(RelItems(f)) \in Nat
  BY <1>3, <1>4, FS_CardinalityType
<1> QED BY <1>3, <1>4, <1>5, BoundsAssumption

\* The items of a file are its nodes and its relationships.
LEMMA KindsOfItems ==
  ASSUME NEW a \in Actors, thread[a].file \in Files,
         NEW items \in SUBSET DOMAIN Found[thread[a].file]
  PROVE  /\ NodesIn(a, items) = items \cap NodeItems(thread[a].file)
         /\ RelsIn(a, items) = items \cap RelItems(thread[a].file)
BY DEF NodesIn, RelsIn, NodeItems, RelItems, Item

\* A step of the writer that leaves the job as it is.
LEMMA WriterKept ==
  ASSUME TypeInv, WorkInv, NEW a \in Actors, thread[a].at \in WritingSteps,
         NEW r \in Thread, Become(a, r), r.at \in WritingSteps,
         r.mod = thread[a].mod, r.file = thread[a].file, Stored(thread[a])', UNCHANGED jobs,
         NEW items \in SUBSET DOMAIN Found[thread[a].file],
         StoreNodes(a, items) \/ StoreRels(a, items) \/ UNCHANGED graph
  PROVE  WorkInv'
<1>1. Apart(a) /\ thread'[a] = r
  BY FileJobsKept, BecomeIsApart
<1>2. nodes \subseteq nodes' /\ edges \subseteq edges'
  BY StoreKeeps, GraphStays
<1>3. aborted' = aborted /\ unannounced' \subseteq unannounced \cup {thread[a].mod}
  BY DEF StoreNodes, StoreRels, graph
<1>4. FollowsFile(a)'
  BY <1>1 DEF WorkInv, Working, FollowsFile, OnFile, InFile, WritingSteps
<1>5. JobStored(jobs[<<a, "file">>])'
  BY <1>2 DEF WorkInv, Working, JobStored, FunctionsAreStored, CallsAreStored
<1>6. \A m : Owes(a, m) <=> m = thread[a].mod
  BY DEF Owes, Owing
<1>7. \A m : Owes(a, m)' <=> m = thread[a].mod
  BY <1>1 DEF Owes, Owing
<1> QED BY <1>1, <1>2, <1>3, <1>4, <1>5, <1>6, <1>7, WorkKept DEF Working

LEMMA WriteKept ==
  ASSUME TypeInv, WorkInv, NEW a \in Actors, Write(a)
  PROVE  WorkInv'
<1> DEFINE i == FillsAt(a)
           full == Buffered(a, i)
           r == [thread[a] EXCEPT !.next = i + 1]
           good == [r EXCEPT !.pending = Read(a) \ full]
           bad == [r EXCEPT !.pending = Read(a), !.at = "exit", !.broken = TRUE]
           ours == thread[a].file
           m == thread[a].mod
<1>1. thread[a].at = "write" /\ Fill(a) # {} /\ UNCHANGED jobs
  BY DEF Write
<1>2. \/ /\ Become(a, good)
         /\ IF Item(a, i)[2] = None THEN StoreNodes(a, full) ELSE StoreRels(a, full)
      \/ Become(a, bad) /\ UNCHANGED graph
  BY DEF Write, FillsAt, Read
<1>3. thread[a] \in Thread /\ InHand(a, thread[a]) /\ ours \in Files
  BY <1>1 DEF TypeInv, TypeOK, InHand, InFile
<1>4. /\ i \in Nat \ {0} /\ i \in thread[a].next .. Len(Found[ours])
      /\ i \in Fill(a) /\ thread[a].next \in Nat \ {0}
      /\ Read(a) \subseteq 1 .. i /\ full \subseteq Read(a)
      /\ Len(Found[ours]) \in Nat /\ DOMAIN Found[ours] = 1 .. Len(Found[ours])
  BY <1>1, ReadSoFar
<1>5. /\ Read(a) \in SUBSET DOMAIN Found[ours] /\ full \in SUBSET DOMAIN Found[ours]
      /\ \A k \in 1 .. i : k \notin Read(a) => k < thread[a].next /\ k \notin thread[a].pending
      /\ \A k \in thread[a].pending : k \in Read(a)
  BY <1>4 DEF Read
<1>6. /\ \A k \in NodeItems(ours) :
           k < thread[a].next /\ k \notin thread[a].pending => <<m, Found[ours][k][1]>> \in nodes
      /\ FewCalls(ours) =>
           \A k \in RelItems(ours) : k < thread[a].next => k \in thread[a].pending
  BY <1>1 DEF WorkInv, Working, Stored
<1>7. full = IF Item(a, i)[2] = None THEN Read(a) \cap NodeItems(ours)
             ELSE Read(a) \cap RelItems(ours)
  BY <1>3, <1>5, KindsOfItems DEF Buffered, Read
<1>8. r \in Thread
  <2> DEFINE n == i + 1
  <2>1. n \in Nat \ {0}
    BY <1>4
  <2> HIDE DEF n
  <2>2. [thread[a] EXCEPT !.next = n] \in Thread
    BY <1>3, <2>1 DEF Thread
  <2> QED BY <2>2 DEF n
<1>9. r.next = i + 1 /\ r.at = "write" /\ r.file = ours /\ r.mod = m
  BY <1>1, <1>3 DEF Thread
<1>10. \A k \in DOMAIN Found[ours] : k < i + 1 => k \in 1 .. i
  BY <1>4
<1>11. Item(a, i)[2] # None => ~FewCalls(ours)
  <2> SUFFICES ASSUME Item(a, i)[2] # None, FewCalls(ours) PROVE FALSE
    OBVIOUS
  <2>1. Cardinality(full) < Threshold
    BY <1>3, <1>7, FewFit
  <2>2. Cardinality(full) >= Threshold
    BY <1>4 DEF Fill
  <2>3. IsFiniteSet(DOMAIN Found[ours])
    BY <1>3, ItemsAreFinite
  <2>4. Cardinality(full) \in Nat
    BY <1>5, <2>3, FS_Subset, FS_CardinalityType
  <2> QED BY <2>1, <2>2, <2>4, BoundsAssumption
<1> HIDE DEF r, full, i
<1>12. CASE /\ Become(a, good)
            /\ IF Item(a, i)[2] = None THEN StoreNodes(a, full) ELSE StoreRels(a, full)
  <2>1. Read(a) \ full \in SUBSET Nat
    BY <1>4
  <2>2. good \in Thread
    BY <1>8, <2>1 DEF Thread
  <2>3. /\ good.next = i + 1 /\ good.at = "write" /\ good.file = ours /\ good.mod = m
        /\ good.pending = Read(a) \ full
    BY <1>8, <1>9 DEF Thread
  <2> HIDE DEF good
  <2>4. thread'[a] = good
    BY <1>12 DEF Become, TypeInv, TypeOK
  <2>5. ASSUME NEW k \in NodeItems(ours), k < i + 1, k \notin Read(a) \ full
        PROVE  <<m, Found[ours][k][1]>> \in nodes'
    <3>1. k \in 1 .. i
      BY <1>10, <2>5 DEF NodeItems
    <3>2. CASE k \in full
      <4>1. Item(a, i)[2] = None
        BY <1>7, <2>5, <3>2 DEF RelItems
      <4>2. k \in NodesIn(a, full)
        BY <1>3, <1>5, <2>5, <3>2, KindsOfItems
      <4> QED BY <1>12, <4>1, <4>2 DEF StoreNodes, Item
    <3>3. CASE k \notin full
      <4>1. <<m, Found[ours][k][1]>> \in nodes
        BY <1>5, <1>6, <2>5, <3>1, <3>3
      <4>2. nodes \subseteq nodes'
        BY <1>12 DEF StoreNodes, StoreRels
      <4> QED BY <4>1, <4>2
    <3> QED BY <3>2, <3>3
  <2>6. ASSUME FewCalls(ours), NEW k \in RelItems(ours), k < i + 1
        PROVE  k \in Read(a) \ full
    <3>1. k \in 1 .. i /\ k \notin NodeItems(ours)
      BY <1>10, <2>6 DEF RelItems
    <3>2. k \notin full
      BY <1>7, <1>11, <2>6, <3>1
    <3> QED BY <1>5, <1>6, <2>6, <3>1, <3>2
  <2>7. Stored(thread[a])'
    BY <2>3, <2>4, <2>5, <2>6 DEF Stored, FewCalls
  <2>8. StoreNodes(a, full) \/ StoreRels(a, full)
    BY <1>12
  <2> QED BY <1>1, <1>5, <1>12, <2>2, <2>3, <2>7, <2>8, WriterKept DEF WritingSteps
<1>13. CASE Become(a, bad) /\ UNCHANGED graph
  <2>1. Read(a) \in SUBSET Nat
    BY <1>4
  <2>2. bad \in Thread
    BY <1>8, <2>1 DEF Thread, Steps
  <2>3. bad.at = "exit" /\ bad.file = ours /\ bad.mod = m
    BY <1>8, <1>9 DEF Thread
  <2>4. bad.broken = TRUE
    BY <1>8 DEF Thread
  <2> HIDE DEF bad
  <2>5. thread'[a] = bad
    BY <1>13 DEF Become, TypeInv, TypeOK
  <2>6. Stored(thread[a])'
    BY <2>3, <2>4, <2>5 DEF Stored
  <2> QED BY <1>1, <1>5, <1>13, <2>2, <2>3, <2>6, WriterKept DEF WritingSteps
<1> QED BY <1>2, <1>12, <1>13

LEMMA ExitKept ==
  ASSUME TypeInv, WorkInv, NEW a \in Actors, Exit(a)
  PROVE  WorkInv'
<1> DEFINE r == thread[a]
           all == DOMAIN Found[r.file]
           n == Len(Found[r.file]) + 1
           inStore == [r EXCEPT !.at = "exitRels", !.next = n,
                               !.pending = RelsIn(a, Pending(a))]
           broken == [r EXCEPT !.at = "complete", !.broken = TRUE]
<1>1. r.at \in {"write", "exit", "exitRels"} /\ UNCHANGED jobs
  BY DEF Exit, Exiting
<1>2. r \in Thread /\ InHand(a, r) /\ r.file \in Files
  BY <1>1 DEF TypeInv, TypeOK, InHand, InFile
<1>3. n \in Nat \ {0} /\ all = 1 .. (n - 1) /\ r.next \in Nat \ {0}
      /\ r.pending \subseteq 1 .. (r.next - 1) /\ r.next <= n
  BY <1>1, <1>2, FileItems DEF InHand, InFile, Thread
<1>4. CASE Exiting(a) /\ StoreNodes(a, Pending(a)) /\ Become(a, inStore)
  <2>1. Pending(a) \in SUBSET all
    BY <1>4, PendingItems
  <2>2. /\ NodesIn(a, Pending(a)) = Pending(a) \cap NodeItems(r.file)
        /\ RelsIn(a, Pending(a)) = Pending(a) \cap RelItems(r.file)
    BY <1>2, <2>1, KindsOfItems
  <2>3. RelsIn(a, Pending(a)) \in SUBSET Nat
    BY <1>3, <2>1, <2>2
  <2> HIDE DEF n
  <2>4. inStore \in Thread
    BY <1>2, <1>3, <2>3 DEF Thread, Steps
  <2>5. /\ inStore.at = "exitRels" /\ inStore.file = r.file /\ inStore.mod = r.mod
        /\ inStore.pending = RelsIn(a, Pending(a))
    BY <1>2 DEF Thread
  <2>6. inStore.broken = r.broken
    BY <1>2 DEF Thread
  <2> HIDE DEF inStore
  <2>7. thread'[a] = inStore
    BY <1>4 DEF Become, TypeInv, TypeOK
  <2>8. ASSUME ~r.broken
        PROVE  /\ \A k \in NodeItems(r.file) : <<r.mod, Found[r.file][k][1]>> \in nodes'
               /\ FewCalls(r.file) => RelItems(r.file) \subseteq inStore.pending
    <3>1. r.at = "write"
      BY <1>1, <1>4, <2>8 DEF Exiting, WorkInv, Working, Stored
    <3>2. ASSUME NEW k \in all, k \notin Pending(a)
          PROVE  k < r.next /\ k \notin r.pending
      <4>1. k \notin r.pending /\ k \notin r.next .. Len(Found[r.file])
        BY <3>1, <3>2 DEF Pending, Unread
      <4> QED BY <1>2, <1>3, <3>2, <4>1, FileItems DEF n
    <3>3. ASSUME NEW k \in NodeItems(r.file) PROVE <<r.mod, Found[r.file][k][1]>> \in nodes'
      <4>1. CASE k \in Pending(a)
        BY <1>4, <2>2, <3>3, <4>1 DEF StoreNodes, Item
      <4>2. CASE k \notin Pending(a)
        <5>1. k < r.next /\ k \notin r.pending
          BY <3>2, <3>3, <4>2 DEF NodeItems
        <5>2. <<r.mod, Found[r.file][k][1]>> \in nodes
          BY <3>1, <3>3, <5>1 DEF WorkInv, Working, Stored
        <5> QED BY <1>4, <5>2 DEF StoreNodes
      <4> QED BY <4>1, <4>2
    <3>4. ASSUME FewCalls(r.file), NEW k \in RelItems(r.file) PROVE k \in inStore.pending
      <4>1. k \in Pending(a)
        <5> SUFFICES ASSUME k \notin Pending(a) PROVE FALSE
          OBVIOUS
        <5>1. k < r.next /\ k \notin r.pending
          BY <3>2, <3>4 DEF RelItems
        <5> QED BY <3>1, <3>4, <5>1 DEF WorkInv, Working, Stored
      <4> QED BY <2>2, <2>5, <3>4, <4>1
    <3> QED BY <3>3, <3>4
  <2>9. ~inStore.broken => FunctionsAreStored(thread[a])'
    BY <2>5, <2>6, <2>7, <2>8 DEF FunctionsAreStored, FunctionsIn, NodeItems
  <2>10. Stored(thread[a])'
    BY <2>5, <2>6, <2>7, <2>8, <2>9 DEF Stored, FewCalls
  <2> QED BY <1>1, <1>4, <2>1, <2>4, <2>5, <2>10, WriterKept DEF WritingSteps
<1>5. CASE r.at = "exitRels" /\ StoreRels(a, r.pending) /\ Go(a, "complete")
  <2>1. PICK q \in Thread : Become(a, q) /\ q.at = "complete" /\ Keeps(q, r)
    BY <1>5, GoKeeps DEF Steps
  <2>2. thread'[a] = q
    BY <2>1 DEF Become, TypeInv, TypeOK
  <2>3. r.pending \in SUBSET all
    BY <1>3
  <2>4. ASSUME ~r.broken PROVE FunctionsAreStored(thread[a])' /\ CallsAreStored(thread[a])'
    <3>1. FunctionsAreStored(r) /\ (FewCalls(r.file) => RelItems(r.file) \subseteq r.pending)
      BY <1>5, <2>4 DEF WorkInv, Working, Stored
    <3>2. nodes' = nodes
      BY <1>5 DEF StoreRels
    <3>3. FunctionsAreStored(thread[a])'
      BY <2>1, <2>2, <3>1, <3>2 DEF FunctionsAreStored, Keeps
    <3>4. ASSUME FewCalls(r.file), NEW c \in CallsIn(r.file),
                 c[1] \in FunctionsIn(r.file), c[2] \in FunctionsIn(r.file)
          PROVE  <<r.mod, c[1], c[2]>> \in edges'
      <4>1. PICK i \in RelItems(r.file) : c = Found[r.file][i]
        BY <3>4 DEF CallsIn, RelItems, NodeItems
      <4>2. i \in RelsIn(a, r.pending)
        BY <1>2, <2>3, <3>1, <3>4, <4>1, KindsOfItems
      <4>3. Item(a, i) = c
        BY <4>1 DEF Item
      <4>4. <<r.mod, c[1]>> \in nodes /\ <<r.mod, c[2]>> \in nodes
        BY <3>1, <3>4 DEF FunctionsAreStored
      <4>5. \A k \in {1, 2} : <<r.mod, Item(a, i)[k]>> \in nodes
        BY <4>3, <4>4
      <4> QED BY <1>5, <4>2, <4>3, <4>5 DEF StoreRels
    <3>5. CallsAreStored(thread[a])'
      BY <2>1, <2>2, <3>4 DEF CallsAreStored, FewCalls, Keeps
    <3> QED BY <3>3, <3>5
  <2>5. Stored(thread[a])'
    BY <2>1, <2>2, <2>4 DEF Stored, Keeps
  <2>6. q.mod = r.mod /\ q.file = r.file
    BY <2>1 DEF Keeps
  <2> QED BY <1>1, <1>5, <2>1, <2>3, <2>5, <2>6, WriterKept DEF WritingSteps
<1>6. CASE Broken(a)
  <2>1. Become(a, broken) /\ UNCHANGED graph
    BY <1>6 DEF Broken
  <2>2. broken \in Thread
    BY <1>2 DEF Thread, Steps
  <2>3. broken.at = "complete" /\ broken.file = r.file /\ broken.mod = r.mod
    BY <1>2 DEF Thread
  <2>4. broken.broken = TRUE
    BY <1>2 DEF Thread
  <2> HIDE DEF broken
  <2>5. thread'[a] = broken
    BY <2>1 DEF Become, TypeInv, TypeOK
  <2>6. Stored(thread[a])'
    BY <2>3, <2>4, <2>5 DEF Stored
  <2>7. {} \in SUBSET all
    OBVIOUS
  <2> QED BY <1>1, <2>1, <2>2, <2>3, <2>6, <2>7, WriterKept DEF WritingSteps
<1> QED BY <1>4, <1>5, <1>6 DEF Exit

LEMMA WorkInit == Init => WorkInv
<1> SUFFICES ASSUME Init PROVE WorkInv
  OBVIOUS
<1>1. ASSUME NEW a \in Actors PROVE Working(a)
  <2>1. thread[a] = Free /\ jobs[<<a, "file">>] = NoJob /\ ~NoJob.counted
    BY DEF Init, Levels, NoJob
  <2> QED BY <2>1, IdleIsTyped DEF Working, FollowsFile, OnFile, InFile, Stored, JobStored
<1> QED BY <1>1 DEF WorkInv, Owed, Init

LEMMA WorkStays == ASSUME WorkInv, UNCHANGED vars PROVE WorkInv'
<1>1. UNCHANGED <<thread, jobs, nodes, edges, unannounced, aborted>>
  BY DEF vars, graph
<1>2. Owed'
  BY <1>1 DEF WorkInv, Owed, Owes
<1>3. \A a \in Actors : Working(a)'
  BY <1>1 DEF WorkInv, Working, FollowsFile, OnFile, Stored, JobStored, FunctionsAreStored,
              CallsAreStored
<1> QED BY <1>2, <1>3 DEF WorkInv

LEMMA WorkNext == ASSUME TypeInv, WorkInv, Next PROVE WorkInv'
<1>1. PICK a \in Actors : Step(a) \/ BatchStep(a) \/ Call(a)
  BY DEF Next
<1>2. CASE Step(a)
  BY <1>2, ParseKept, WriteKept, ExitKept, CompleteKept, AnnounceKept, RestKept DEF Step
<1>3. CASE BatchStep(a)
  BY <1>3, BatchKept, RestKept DEF BatchStep
<1> QED BY <1>1, <1>2, <1>3, CallKept

LEMMA WorkAlways == Spec => []WorkInv
<1>1. TypeInv /\ WorkInv /\ [Next]_vars => WorkInv'
  BY WorkNext, WorkStays
<1> QED BY WorkInit, <1>1, TypeAlways, PTL DEF Spec

\* Whoever writes to a module announces it, also after queries that failed, or its
\* pipeline has raised: no answer in the search cache stays stale unnoticed.
THEOREM WritesAreAnnounced == Spec => []WrittenIsAnnounced
<1>1. WorkInv => WrittenIsAnnounced
  BY DEF WorkInv, Owed, Owes, WrittenIsAnnounced
<1> QED BY <1>1, WorkAlways, PTL

\* A file's job that counts what it has written has stored all its functions, and
\* its calls if they fit into one buffer, whatever else is written meanwhile.
THEOREM CountedStaysStored == Spec => []CountedIsStored
<1>1. WorkInv => CountedIsStored
  BY DEF WorkInv, Working, JobStored, Counted, CountedIsStored
<1> QED BY <1>1, WorkAlways, PTL

(***************************************************************************)
(* Incremental: its types                                                  *)
(***************************************************************************)

Fields == {"at", "commit", "todo", "snaps", "times", "report", "changes", "edited"}
StateFields == {"commit", "snaps", "times"}

\* An empty tree is a tree, and no snapshot at all one of snapshots.
LEMMA EmptyIsTree == Empty \in Tree /\ IsSnaps(Empty)
BY DEF Empty, Tree, IsSnaps

\* A file that changes leaves a tree.
LEMMA EditedTree ==
  ASSUME NEW d \in Tree, NEW f \in Paths, NEW c \in Contents[f] \cup {NoFile}
  PROVE  [d EXCEPT ![f] = c] \in Tree
<1>1. c \in AnyContent \cup {NoFile}
  BY DEF AnyContent
<1>2. [d EXCEPT ![f] = c] \in [Paths -> AnyContent \cup {NoFile}]
  BY <1>1 DEF Tree
<1>3. ASSUME NEW g \in Paths PROVE [d EXCEPT ![f] = c][g] \in Contents[g] \cup {NoFile}
  BY DEF Tree
<1> QED BY <1>2, <1>3 DEF Tree

\* The baseline of a new manager is one.
LEMMA FreshIsState == IsState(Fresh) /\ DOMAIN Fresh = StateFields
<1>1. /\ DOMAIN Fresh = StateFields
      /\ Fresh.commit = NoCommit /\ Fresh.snaps = Empty /\ Fresh.times = [f \in Paths |-> 0]
  BY DEF Fresh, StateFields
<1>2. [f \in Paths |-> 0] \in [Paths -> 0 .. MaxEdits]
  BY IncBoundsAssumption
<1> HIDE DEF Fresh
<1> QED BY <1>1, <1>2, EmptyIsTree DEF IsState

\* So is a run that has not begun.
LEMMA IdleIsRun ==
  /\ IsRun(Idle) /\ DOMAIN Idle = Fields
  /\ Idle.at = "idle" /\ Idle.snaps = Empty /\ Idle.edited = {} /\ Idle.todo = {}
<1>1. /\ DOMAIN Idle = Fields
      /\ Idle.at = "idle" /\ Idle.commit = NoCommit /\ Idle.snaps = Empty
      /\ Idle.times = [f \in Paths |-> 0] /\ Idle.todo = {} /\ Idle.report = {}
      /\ Idle.changes = {} /\ Idle.edited = {}
  BY DEF Idle, Fields
<1>2. [f \in Paths |-> 0] \in [Paths -> 0 .. MaxEdits]
  BY IncBoundsAssumption
<1> HIDE DEF Idle
<1> QED BY <1>1, <1>2, EmptyIsTree DEF IsRun

\* Every change of a record of a run keeps the fields that are not named.
LEMMA EditIsRun ==
  ASSUME IncTypeOK, NEW f \in Paths
  PROVE  /\ IsRun([run EXCEPT !.edited = @ \cup {f}])
         /\ [run EXCEPT !.edited = @ \cup {f}].at = run.at
<1> DEFINE r == [run EXCEPT !.edited = @ \cup {f}]
<1>1. DOMAIN run = Fields /\ IsRun(run)
  BY IdleIsRun DEF IncTypeOK, IsRun
<1>2. /\ DOMAIN r = Fields
      /\ r.edited = run.edited \cup {f} /\ r.at = run.at /\ r.commit = run.commit
      /\ r.snaps = run.snaps /\ r.times = run.times /\ r.todo = run.todo
      /\ r.report = run.report /\ r.changes = run.changes
  BY <1>1 DEF Fields
<1> HIDE DEF r
<1> QED BY <1>1, <1>2, IdleIsRun DEF IsRun

\* A run begins with the commit git names.
LEMMA DetectIsRun ==
  ASSUME IncTypeOK, NEW c, c \in {head, NoCommit}, Detect(c)
  PROVE  IsRun(run') /\ run'.at = "walk"
<1>1. c = NoCommit \/ c \in Tree
  BY DEF IncTypeOK
<1>2. run' = [Idle EXCEPT !.at = "walk", !.commit = c]
  BY DEF Detect
<1>3. /\ DOMAIN run' = Fields
      /\ run'.at = "walk" /\ run'.commit = c /\ run'.snaps = Idle.snaps
      /\ run'.times = Idle.times /\ run'.todo = Idle.todo /\ run'.report = Idle.report
      /\ run'.changes = Idle.changes /\ run'.edited = Idle.edited
  BY <1>2, IdleIsRun DEF Fields
<1> QED BY <1>1, <1>3, IdleIsRun DEF IsRun

\* The walk finds the files that are there.
LEMMA WalkIsRun ==
  ASSUME IncTypeOK, Walk
  PROVE  /\ IsRun(run') /\ run'.at = "hash" /\ run'.todo = OnDisk
         /\ run'.snaps = run.snaps /\ run'.edited = run.edited
<1>1. DOMAIN run = Fields /\ IsRun(run)
  BY IdleIsRun DEF IncTypeOK, IsRun
<1>2. run' = [run EXCEPT !.at = "hash", !.todo = OnDisk]
  BY DEF Walk
<1>3. /\ DOMAIN run' = Fields
      /\ run'.at = "hash" /\ run'.commit = run.commit /\ run'.snaps = run.snaps
      /\ run'.times = run.times /\ run'.todo = OnDisk /\ run'.report = run.report
      /\ run'.changes = run.changes /\ run'.edited = run.edited
  BY <1>1, <1>2 DEF Fields
<1>4. OnDisk \subseteq Paths
  BY DEF OnDisk
<1> QED BY <1>1, <1>3, <1>4, IdleIsRun DEF IsRun

\* A file is hashed once; the others keep their hashes.
LEMMA HashFileIsRun ==
  ASSUME IncTypeOK, NEW f \in Paths, HashFile(f)
  PROVE  /\ IsRun(run') /\ run'.at = "hash" /\ run'.todo = run.todo \ {f}
         /\ run'.snaps = [run.snaps EXCEPT ![f] = IF f \in OnDisk THEN disk[f] ELSE NoHash]
         /\ run'.edited = run.edited
<1> DEFINE h == IF f \in OnDisk THEN disk[f] ELSE NoHash
<1>1. DOMAIN run = Fields /\ IsRun(run)
  BY IdleIsRun DEF IncTypeOK, IsRun
<1>2. run' = [run EXCEPT !.todo = @ \ {f}, !.times[f] = time[f], !.snaps[f] = h]
  BY DEF HashFile
<1>3. h \in AnyContent \cup {NoFile, NoHash} /\ time[f] \in 0 .. MaxEdits
  BY DEF IncTypeOK, Tree
<1> HIDE DEF h
<1>4. /\ DOMAIN run' = Fields
      /\ run'.at = run.at /\ run'.commit = run.commit
      /\ run'.snaps = [run.snaps EXCEPT ![f] = h]
      /\ run'.times = [run.times EXCEPT ![f] = time[f]] /\ run'.todo = run.todo \ {f}
      /\ run'.report = run.report /\ run'.changes = run.changes /\ run'.edited = run.edited
  BY <1>1, <1>2 DEF Fields
<1>5. run.at = "hash"
  BY DEF HashFile
<1>6. /\ IsSnaps(run'.snaps)
      /\ run'.times \in [Paths -> 0 .. MaxEdits]
  BY <1>1, <1>3, <1>4 DEF IsRun, IsSnaps
<1>7. run'.snaps = [run.snaps EXCEPT ![f] = IF f \in OnDisk THEN disk[f] ELSE NoHash]
  BY <1>4 DEF h
<1> QED BY <1>1, <1>4, <1>5, <1>6, <1>7, IdleIsRun DEF IsRun

\* What is reported is still to be processed.
LEMMA ReportIsRun ==
  ASSUME IncTypeOK, NEW git, Report(git)
  PROVE  /\ IsRun(run') /\ run'.at = "process"
         /\ run'.report = Changes(git) /\ run'.changes = Changes(git)
         /\ run'.snaps = run.snaps /\ run'.edited = run.edited
<1>1. DOMAIN run = Fields /\ IsRun(run)
  BY IdleIsRun DEF IncTypeOK, IsRun
<1>2. run' = [run EXCEPT !.at = "process", !.report = Changes(git), !.changes = Changes(git)]
  BY DEF Report
<1>3. Changes(git) \subseteq Paths
  BY DEF Changes, Added, Modified, Deleted
<1> HIDE DEF Changes
<1>4. /\ DOMAIN run' = Fields
      /\ run'.at = "process" /\ run'.commit = run.commit /\ run'.snaps = run.snaps
      /\ run'.times = run.times /\ run'.todo = run.todo /\ run'.report = Changes(git)
      /\ run'.changes = Changes(git) /\ run'.edited = run.edited
  BY <1>1, <1>2 DEF Fields
<1> QED BY <1>1, <1>3, <1>4, IdleIsRun DEF IsRun

\* And one change less is, after each of them.
LEMMA ProcessIsRun ==
  ASSUME IncTypeOK, NEW f \in Paths, Process(f)
  PROVE  /\ IsRun(run') /\ run'.at = "process"
         /\ run'.report = run.report /\ run'.changes = run.changes \ {f}
         /\ run'.snaps = run.snaps /\ run'.edited = run.edited
<1>1. DOMAIN run = Fields /\ IsRun(run)
  BY IdleIsRun DEF IncTypeOK, IsRun
<1>2. run' = [run EXCEPT !.changes = @ \ {f}] /\ run.at = "process"
  BY DEF Process
<1>3. /\ DOMAIN run' = Fields
      /\ run'.at = "process" /\ run'.commit = run.commit /\ run'.snaps = run.snaps
      /\ run'.times = run.times /\ run'.todo = run.todo /\ run'.report = run.report
      /\ run'.changes = run.changes \ {f} /\ run'.edited = run.edited
  BY <1>1, <1>2 DEF Fields
<1> QED BY <1>1, <1>3, IdleIsRun DEF IsRun

\* The pending state is the run's.
LEMMA CommitIsRun ==
  ASSUME IncTypeOK, CommitState
  PROVE  /\ IsRun(run') /\ run'.at = "save"
         /\ run'.snaps = run.snaps /\ run'.edited = run.edited
<1>1. DOMAIN run = Fields /\ IsRun(run)
  BY IdleIsRun DEF IncTypeOK, IsRun
<1>2. run' = [run EXCEPT !.at = "save"]
  BY DEF CommitState
<1>3. /\ DOMAIN run' = Fields
      /\ run'.at = "save" /\ run'.commit = run.commit /\ run'.snaps = run.snaps
      /\ run'.times = run.times /\ run'.todo = run.todo /\ run'.report = run.report
      /\ run'.changes = run.changes /\ run'.edited = run.edited
  BY <1>1, <1>2 DEF Fields
<1> QED BY <1>1, <1>3, IdleIsRun DEF IsRun

LEMMA PendingIsState ==
  ASSUME IncTypeOK, NEW git, Report(git)
  PROVE  IsState(pending') /\ pending'.snaps = run.snaps
<1>1. pending' = [commit |-> run.commit, snaps |-> run.snaps, times |-> run.times]
  BY DEF Report
<1>2. /\ DOMAIN pending' = StateFields
      /\ pending'.commit = run.commit /\ pending'.snaps = run.snaps
      /\ pending'.times = run.times
  BY <1>1 DEF StateFields
<1> QED BY <1>2, FreshIsState DEF IncTypeOK, IsRun, IsState

\* Every trouble is one of MaxTroubles.
LEMMA TroubleCounts ==
  ASSUME IncTypeOK, Trouble
  PROVE  troubles' \in 0 .. MaxTroubles /\ edits' = edits /\ commits' = commits
BY IncBoundsAssumption DEF Trouble, IncTypeOK

LEMMA InitType == IncInit => IncTypeOK
<1> SUFFICES ASSUME IncInit PROVE IncTypeOK
  OBVIOUS
<1>1. disk \in Tree /\ head \in Tree /\ stored \in Tree
  BY EmptyIsTree DEF IncInit
<1>2. time \in [Paths -> 0 .. MaxEdits]
  BY IncBoundsAssumption DEF IncInit
<1>3. run.at # "process" /\ IsRun(run)
  BY IdleIsRun DEF IncInit
<1>4. IsState(state) /\ pending = Nothing /\ IsState(file)
  BY FreshIsState DEF IncInit
<1>5. edits \in 0 .. MaxEdits /\ commits \in 0 .. MaxCommits /\ troubles \in 0 .. MaxTroubles
  BY IncBoundsAssumption DEF IncInit
<1>6. dirty \in BOOLEAN /\ disturbed \subseteq Paths
  BY DEF IncInit
<1> QED BY <1>1, <1>2, <1>3, <1>4, <1>5, <1>6 DEF IncTypeOK

LEMMA NextType == IncTypeOK /\ [IncNext]_incVars => IncTypeOK'
<1> SUFFICES ASSUME IncTypeOK, [IncNext]_incVars PROVE IncTypeOK'
  OBVIOUS
<1> USE DEF manager, bounds
<1>1. ASSUME NEW f \in Paths, NEW c \in Contents[f] \cup {NoFile}, Edit(f, c) PROVE IncTypeOK'
  <2>1. disk' \in Tree
    BY <1>1, EditedTree DEF Edit, IncTypeOK
  <2>2. edits' \in 0 .. MaxEdits /\ time' \in [Paths -> 0 .. MaxEdits]
    BY <1>1, IncBoundsAssumption DEF Edit, IncTypeOK
  <2>3. IsRun(run') /\ (run'.at = "process" => IsState(pending))
    <3>1. CASE run = Idle
      BY <3>1, <1>1 DEF Edit, IncTypeOK
    <3>2. CASE run # Idle
      BY <3>2, <1>1, EditIsRun DEF Edit, IncTypeOK
    <3> QED BY <3>1, <3>2
  <2>4. disturbed' \subseteq Paths
    BY <1>1 DEF Edit, IncTypeOK
  <2> QED BY <1>1, <2>1, <2>2, <2>3, <2>4 DEF Edit, IncTypeOK
<1>2. CASE GitCommit
  BY <1>2, IncBoundsAssumption DEF GitCommit, IncTypeOK
<1>3. ASSUME NEW c \in {head, NoCommit}, Detect(c) PROVE IncTypeOK'
  BY <1>3, DetectIsRun DEF Detect, IncTypeOK
<1>4. CASE Walk
  BY <1>4, WalkIsRun DEF Walk, IncTypeOK
<1>5. ASSUME NEW f \in Paths, HashFile(f) PROVE IncTypeOK'
  BY <1>5, HashFileIsRun DEF HashFile, IncTypeOK
<1>6. ASSUME NEW git, Report(git) PROVE IncTypeOK'
  <2>1. IsState(pending') /\ IsRun(run')
    BY <1>6, ReportIsRun, PendingIsState
  <2>3. dirty' \in BOOLEAN /\ disturbed' \subseteq Paths
    <3>1. CASE Changes(git) = {}
      BY <3>1, <1>6 DEF Report, IncTypeOK
    <3>2. CASE Changes(git) # {}
      BY <3>2, <1>6 DEF Report, IncTypeOK, IsRun
    <3> QED BY <3>1, <3>2
  <2> QED BY <1>6, <2>1, <2>3 DEF Report, IncTypeOK
<1>7. ASSUME NEW f \in Paths, Process(f) PROVE IncTypeOK'
  <2>1. stored' \in Tree
    <3>1. disk[f] \in Contents[f] \cup {NoFile}
      BY DEF IncTypeOK, Tree
    <3>2. PICK c \in Contents[f] \cup {NoFile} : stored' = [stored EXCEPT ![f] = c]
      BY <1>7, <3>1 DEF Process
    <3> QED BY <3>2, EditedTree DEF IncTypeOK
  <2> QED BY <1>7, <2>1, ProcessIsRun DEF Process, IncTypeOK
<1>8. CASE ProcessFails
  <2>1. troubles' \in 0 .. MaxTroubles /\ edits' = edits /\ commits' = commits
    <3>1. CASE UNCHANGED bounds
      BY <3>1 DEF IncTypeOK
    <3>2. CASE Trouble
      BY <3>2, TroubleCounts
    <3> QED BY <1>8, <3>1, <3>2 DEF ProcessFails
  <2> QED BY <1>8, <2>1, IdleIsRun DEF ProcessFails, IncTypeOK
<1>9. CASE NoChanges
  BY <1>9, IdleIsRun DEF NoChanges, IncTypeOK
<1>10. CASE CommitState
  <2>1. disturbed' \subseteq Paths /\ dirty' = FALSE
    BY <1>10 DEF CommitState, Settle, IncTypeOK, IsRun
  <2> QED BY <1>10, <2>1, CommitIsRun DEF CommitState, IncTypeOK
<1>11. CASE Save
  BY <1>11, IdleIsRun DEF Save, IncTypeOK
<1>12. CASE Crash
  <2>1. IsState(state')
    BY <1>12, FreshIsState DEF Crash, IncTypeOK
  <2>2. dirty' \in BOOLEAN /\ disturbed' \subseteq Paths
    <3>1. CASE file = Nothing
      BY <3>1, <1>12 DEF Crash, Forget, IncTypeOK
    <3>2. CASE file # Nothing
      BY <3>2, <1>12 DEF Crash, IncTypeOK
    <3> QED BY <3>1, <3>2
  <2>3. troubles' \in 0 .. MaxTroubles /\ edits' = edits /\ commits' = commits
    BY <1>12, TroubleCounts DEF Crash
  <2> QED BY <1>12, <2>1, <2>2, <2>3, IdleIsRun DEF Crash, IncTypeOK
<1>13. CASE Reset
  <2>1. troubles' \in 0 .. MaxTroubles /\ edits' = edits /\ commits' = commits
    BY <1>13, TroubleCounts DEF Reset
  <2>2. dirty' \in BOOLEAN /\ disturbed' \subseteq Paths
    BY <1>13 DEF Reset, Forget, IncTypeOK
  <2> QED BY <1>13, <2>1, <2>2, FreshIsState, IdleIsRun DEF Reset, IncTypeOK
<1>14. CASE UNCHANGED incVars
  BY <1>14 DEF incVars, IncTypeOK
<1> QED
  BY <1>1, <1>2, <1>3, <1>4, <1>5, <1>6, <1>7, <1>8, <1>9, <1>10, <1>11, <1>12, <1>13, <1>14
  DEF IncNext, IncStep

\* IncTypeOK: every variable keeps its type, and a state is pending while changes are
\* processed, wherever runs fail or die.
THEOREM IncTypeCorrect == IncSpec => []IncTypeOK
BY InitType, NextType, PTL DEF IncSpec

(***************************************************************************)
(* Incremental: nothing is missed                                          *)
(***************************************************************************)

\* A file that has not changed since the run began is hashed as it stands.
Hashed ==
  /\ run.at = "walk" => run.snaps = Empty
  /\ run.at = "hash" =>
       \A f \in Paths \ run.edited : IF f \in run.todo THEN f \in OnDisk
                                                      ELSE run.snaps[f] = disk[f]

\* Whatever differs from the baseline is reported; what of it has been processed
\* stands in the store, and changes under the run count as disturbed.
Reported ==
  run.at = "process" =>
    /\ pending.snaps = run.snaps
    /\ \A f \in Paths \ run.edited : run.snaps[f] = disk[f]
    /\ \A f \in Paths : state.snaps[f] # run.snaps[f] => f \in run.report
    /\ run.report # {} => dirty /\ run.edited \subseteq disturbed
    /\ \A f \in (run.report \ run.changes) \ run.edited : stored[f] = disk[f]

\* Between a committed run and the next one the baseline is what was processed.
Based == ~dirty => \A f \in Paths \ disturbed : stored[f] = state.snaps[f]
Filed == file \in {Nothing, state}

Sound == Hashed /\ Reported /\ Based /\ Filed /\ DifferingIsReported

\* A run that ends otherwise than by committing leaves the baseline as it is.
LEMMA EndKeepsSound ==
  ASSUME Sound, run' = Idle,
         UNCHANGED <<disk, state, file, stored, dirty, disturbed>>
  PROVE  Sound'
<1>1. run'.at = "idle"
  BY IdleIsRun
<1>2. Hashed' /\ Reported'
  BY <1>1 DEF Hashed, Reported
<1>3. Based' /\ Filed' /\ DifferingIsReported'
  BY DEF Sound, Based, Filed, DifferingIsReported, WouldReport, OnDisk
<1> QED BY <1>2, <1>3 DEF Sound

LEMMA EditKeepsSound ==
  ASSUME IncTypeOK, Sound, NEW f \in Paths, NEW c \in Contents[f] \cup {NoFile}, Edit(f, c)
  PROVE  Sound'
<1>1. /\ disk' = [disk EXCEPT ![f] = c] /\ disk \in Tree
      /\ \A g \in Paths \ {f} : disk'[g] = disk[g] /\ (g \in OnDisk' <=> g \in OnDisk)
      /\ disk'[f] = c
  BY DEF Edit, IncTypeOK, Tree, OnDisk
<1>2. /\ UNCHANGED <<state, pending, file, stored, dirty>>
      /\ disturbed' = IF dirty THEN disturbed \cup {f} ELSE disturbed
  BY DEF Edit, manager
<1>3. \/ run = Idle /\ run' = Idle
      \/ /\ run'.at = run.at /\ run'.snaps = run.snaps /\ run'.todo = run.todo
         /\ run'.report = run.report /\ run'.changes = run.changes
         /\ run'.edited = run.edited \cup {f}
  <2>1. CASE run = Idle
    BY <2>1 DEF Edit
  <2>2. CASE run # Idle
    <3>1. run' = [run EXCEPT !.edited = @ \cup {f}]
      BY <2>2 DEF Edit
    <3>2. DOMAIN run = Fields
      BY IdleIsRun DEF IncTypeOK, IsRun
    <3> QED BY <3>1, <3>2 DEF Fields
  <2> QED BY <2>1, <2>2
<1>4. Hashed'
  <2>1. CASE run' = Idle
    BY <2>1, IdleIsRun DEF Hashed
  <2>2. CASE run' # Idle
    BY <2>2, <1>1, <1>3 DEF Sound, Hashed
  <2> QED BY <2>1, <2>2
<1>5. Reported'
  <2>1. CASE run' = Idle
    BY <2>1, IdleIsRun DEF Reported
  <2>2. CASE run' # Idle
    BY <2>2, <1>1, <1>2, <1>3 DEF Sound, Reported
  <2> QED BY <2>1, <2>2
<1>6. Based' /\ Filed'
  BY <1>2 DEF Sound, Based, Filed
<1>7. DifferingIsReported'
  <2> SUFFICES ASSUME NEW g \in Paths, g \notin disturbed', stored'[g] # disk'[g]
               PROVE  WouldReport(g)'
    BY DEF DifferingIsReported
  <2>1. CASE g # f
    BY <2>1, <1>1, <1>2 DEF Sound, DifferingIsReported, WouldReport
  <2>2. CASE g = f
    <3>1. ~dirty /\ g \notin disturbed
      BY <2>2, <1>2
    <3>2. state.snaps[g] # disk'[g]
      BY <3>1, <1>2 DEF Sound, Based
    <3> QED BY <3>2, <1>2 DEF WouldReport, OnDisk
  <2> QED BY <2>1, <2>2
<1> QED BY <1>4, <1>5, <1>6, <1>7 DEF Sound

LEMMA WalkKeepsSound == ASSUME IncTypeOK, Sound, Walk PROVE Sound'
<1>1. /\ run.at = "walk" /\ run'.at = "hash" /\ run'.todo = OnDisk /\ run'.snaps = Empty
      /\ UNCHANGED <<disk, state, file, stored, dirty, disturbed>>
  BY WalkIsRun DEF Walk, manager, Sound, Hashed
<1>2. \A f \in Paths : f \in run'.todo \/ run'.snaps[f] = disk[f]
  BY <1>1 DEF OnDisk, Empty
<1>3. Hashed'
  BY <1>1, <1>2 DEF Hashed, OnDisk
<1>4. Reported'
  BY <1>1 DEF Reported
<1>5. Based' /\ Filed' /\ DifferingIsReported'
  BY <1>1 DEF Sound, Based, Filed, DifferingIsReported, WouldReport, OnDisk
<1> QED BY <1>3, <1>4, <1>5 DEF Sound

LEMMA HashFileKeepsSound == ASSUME IncTypeOK, Sound, NEW f \in Paths, HashFile(f) PROVE Sound'
<1>1. /\ run.at = "hash" /\ run'.at = "hash" /\ run'.todo = run.todo \ {f}
      /\ run'.edited = run.edited /\ f \in run.todo
      /\ UNCHANGED <<disk, state, file, stored, dirty, disturbed>>
  BY HashFileIsRun DEF HashFile, manager
<1>2. /\ run'.snaps = [run.snaps EXCEPT ![f] = IF f \in OnDisk THEN disk[f] ELSE NoHash]
      /\ DOMAIN run.snaps = Paths
  BY HashFileIsRun DEF IncTypeOK, IsRun, IsSnaps
<1>3. Hashed'
  <2> SUFFICES ASSUME NEW g \in Paths \ run'.edited
               PROVE  IF g \in run'.todo THEN g \in OnDisk' ELSE run'.snaps[g] = disk'[g]
    BY <1>1 DEF Hashed
  <2>1. CASE g = f
    BY <2>1, <1>1, <1>2 DEF Sound, Hashed
  <2>2. CASE g # f
    BY <2>2, <1>1, <1>2 DEF Sound, Hashed, OnDisk
  <2> QED BY <2>1, <2>2
<1>4. Reported'
  BY <1>1 DEF Reported
<1>5. Based' /\ Filed' /\ DifferingIsReported'
  BY <1>1 DEF Sound, Based, Filed, DifferingIsReported, WouldReport, OnDisk
<1> QED BY <1>3, <1>4, <1>5 DEF Sound

LEMMA ReportKeepsSound == ASSUME IncTypeOK, Sound, NEW git, Report(git) PROVE Sound'
<1>1. /\ run.at = "hash" /\ run.todo = {} /\ run'.at = "process"
      /\ run'.report = Changes(git) /\ run'.changes = Changes(git)
      /\ run'.snaps = run.snaps /\ run'.edited = run.edited
      /\ pending'.snaps = run.snaps
      /\ UNCHANGED <<disk, state, file, stored>>
  BY ReportIsRun, PendingIsState DEF Report
<1>2. IF Changes(git) = {} THEN dirty' = dirty /\ disturbed' = disturbed
      ELSE dirty' = TRUE /\ disturbed' = disturbed \cup run.edited
  BY DEF Report
<1>3. \A f \in Paths : state.snaps[f] # run.snaps[f] => f \in Changes(git)
  BY DEF Changes, Added, Modified, Deleted
<1>4. Hashed'
  BY <1>1 DEF Hashed
<1>5. Reported'
  BY <1>1, <1>2, <1>3 DEF Reported, Sound, Hashed
<1>6. Based' /\ Filed'
  BY <1>1, <1>2 DEF Sound, Based, Filed
<1>7. DifferingIsReported'
  BY <1>1, <1>2 DEF Sound, DifferingIsReported, WouldReport, OnDisk
<1> QED BY <1>4, <1>5, <1>6, <1>7 DEF Sound

LEMMA ProcessKeepsSound == ASSUME IncTypeOK, Sound, NEW f \in Paths, Process(f) PROVE Sound'
<1>1. /\ run.at = "process" /\ run'.at = "process" /\ f \in run.changes
      /\ run'.report = run.report /\ run'.changes = run.changes \ {f}
      /\ run'.snaps = run.snaps /\ run'.edited = run.edited
      /\ UNCHANGED <<disk, state, pending, file, dirty, disturbed>>
  BY ProcessIsRun DEF Process, manager
<1>2. /\ stored' = [stored EXCEPT ![f] = IF f \in Deleted THEN NoFile ELSE disk[f]]
      /\ DOMAIN stored = Paths
  BY DEF Process, IncTypeOK, Tree
<1>3. /\ dirty /\ run.edited \subseteq disturbed
      /\ run.changes \subseteq run.report
  BY <1>1 DEF Sound, Reported, IncTypeOK, IsRun
<1>4. f \notin run.edited => stored'[f] = disk[f]
  <2>1. f \notin run.edited /\ f \in Deleted => disk[f] = NoFile
    BY <1>1 DEF Sound, Reported, Deleted
  <2> QED BY <2>1, <1>2
<1>5. \A g \in Paths \ {f} : stored'[g] = stored[g]
  BY <1>2
<1>6. Hashed'
  BY <1>1 DEF Hashed
<1>7. Reported'
  <2>1. \A g \in (run'.report \ run'.changes) \ run'.edited : stored'[g] = disk'[g]
    BY <1>1, <1>4, <1>5 DEF Sound, Reported, IncTypeOK, IsRun
  <2> QED BY <1>1, <2>1 DEF Sound, Reported
<1>8. Based' /\ Filed'
  BY <1>1, <1>3 DEF Sound, Based, Filed
<1>9. DifferingIsReported'
  <2> SUFFICES ASSUME NEW g \in Paths, g \notin disturbed', stored'[g] # disk'[g]
               PROVE  WouldReport(g)'
    BY DEF DifferingIsReported
  <2>1. g # f
    BY <1>1, <1>3, <1>4
  <2> QED BY <2>1, <1>1, <1>5 DEF Sound, DifferingIsReported, WouldReport, OnDisk
<1> QED BY <1>6, <1>7, <1>8, <1>9 DEF Sound

\* The step that makes what was hashed the baseline.
LEMMA CommitStateKeepsSound == ASSUME IncTypeOK, Sound, CommitState PROVE Sound'
<1>1. /\ run.at = "process" /\ run.changes = {} /\ run'.at = "save"
      /\ state' = pending /\ file' = Nothing
      /\ UNCHANGED <<disk, stored>>
      /\ disturbed' = (disturbed \ run.report) \cup run.edited
  BY CommitIsRun DEF CommitState, Settle
<1>2. \A f \in Paths \ disturbed' : stored[f] = disk[f] /\ state'.snaps[f] = disk[f]
  <2> SUFFICES ASSUME NEW f \in Paths, f \notin disturbed'
               PROVE  stored[f] = disk[f] /\ state'.snaps[f] = disk[f]
    OBVIOUS
  <2>1. f \notin run.edited /\ run.snaps[f] = disk[f] /\ state'.snaps[f] = disk[f]
    BY <1>1 DEF Sound, Reported
  <2>2. CASE f \in run.report
    BY <2>1, <2>2, <1>1 DEF Sound, Reported
  <2>3. CASE f \notin run.report
    <3>1. f \notin disturbed /\ state.snaps[f] = disk[f]
      BY <2>1, <2>3, <1>1 DEF Sound, Reported
    <3>2. ~WouldReport(f)
      BY <3>1 DEF WouldReport, OnDisk
    <3> QED BY <2>1, <3>1, <3>2 DEF Sound, DifferingIsReported
  <2> QED BY <2>1, <2>2, <2>3
<1>3. Hashed' /\ Reported'
  BY <1>1 DEF Hashed, Reported
<1>4. Based' /\ Filed' /\ DifferingIsReported'
  BY <1>1, <1>2 DEF Based, Filed, DifferingIsReported
<1> QED BY <1>3, <1>4 DEF Sound

LEMMA SaveKeepsSound == ASSUME Sound, Save PROVE Sound'
<1>1. run'.at = "idle" /\ file' = state /\ UNCHANGED <<disk, state, stored, dirty, disturbed>>
  BY IdleIsRun DEF Save
<1>2. Hashed' /\ Reported'
  BY <1>1 DEF Hashed, Reported
<1>3. Based' /\ Filed' /\ DifferingIsReported'
  BY <1>1 DEF Sound, Based, Filed, DifferingIsReported, WouldReport, OnDisk
<1> QED BY <1>2, <1>3 DEF Sound

\* A manager that starts afresh reports all that is there, and has forgotten
\* only what is gone.
LEMMA FreshKeepsSound ==
  ASSUME IncTypeOK, run' = Idle, state' = Fresh, file' \in {Nothing, Fresh}, Forget,
         UNCHANGED <<disk, stored>>
  PROVE  Sound'
<1>1. Fresh.snaps = [f \in Paths |-> NoFile]
  BY DEF Fresh, Empty
<1>2. Hashed' /\ Reported'
  BY IdleIsRun DEF Hashed, Reported
<1>3. Based' /\ Filed'
  BY DEF Based, Filed, Forget
<1>4. DifferingIsReported'
  <2> SUFFICES ASSUME NEW f \in Paths, f \notin disturbed', stored'[f] # disk'[f]
               PROVE  WouldReport(f)'
    BY DEF DifferingIsReported
  <2>1. f \in OnDisk
    BY DEF Forget, OnDisk
  <2> QED BY <2>1, <1>1 DEF WouldReport, OnDisk
<1> QED BY <1>2, <1>3, <1>4 DEF Sound

LEMMA InitSound == IncInit => Sound
<1> SUFFICES ASSUME IncInit PROVE Sound
  OBVIOUS
<1>1. /\ run.at = "idle" /\ state = Fresh /\ file = Fresh /\ stored = Empty
      /\ Fresh.snaps = Empty
  BY IdleIsRun DEF IncInit, Fresh
<1>2. Hashed /\ Reported /\ Based /\ Filed
  BY <1>1 DEF Hashed, Reported, Based, Filed
<1>3. DifferingIsReported
  BY <1>1 DEF DifferingIsReported, WouldReport, OnDisk, Empty
<1> QED BY <1>2, <1>3 DEF Sound

LEMMA NextSound == IncTypeOK /\ Sound /\ [IncNext]_incVars => Sound'
<1> SUFFICES ASSUME IncTypeOK, Sound, [IncNext]_incVars PROVE Sound'
  OBVIOUS
<1>1. CASE GitCommit
  BY <1>1 DEF GitCommit, manager, Sound, Hashed, Reported, Based, Filed, DifferingIsReported,
              WouldReport, OnDisk
<1>2. ASSUME NEW c \in {head, NoCommit}, Detect(c) PROVE Sound'
  <2>1. /\ run'.at = "walk" /\ run'.snaps = Empty
        /\ UNCHANGED <<disk, state, file, stored, dirty, disturbed>>
    <3>1. run' = [Idle EXCEPT !.at = "walk", !.commit = c]
      BY <1>2 DEF Detect
    <3> QED BY <3>1, <1>2, IdleIsRun DEF Fields, Detect, manager
  <2> QED BY <2>1 DEF Sound, Hashed, Reported, Based, Filed, DifferingIsReported, WouldReport,
                      OnDisk
<1>3. CASE ProcessFails
  BY <1>3, EndKeepsSound DEF ProcessFails, manager
<1>4. CASE NoChanges
  BY <1>4, EndKeepsSound DEF NoChanges, manager
<1>5. CASE Crash
  <2>1. CASE file = Nothing
    BY <2>1, <1>5, FreshKeepsSound DEF Crash
  <2>2. CASE file # Nothing
    BY <2>2, <1>5, EndKeepsSound DEF Crash, Sound, Filed
  <2> QED BY <2>1, <2>2
<1>6. CASE Reset
  BY <1>6, FreshKeepsSound DEF Reset
<1>7. CASE UNCHANGED incVars
  BY <1>7 DEF incVars, manager, Sound, Hashed, Reported, Based, Filed, DifferingIsReported,
              WouldReport, OnDisk
<1> QED
  BY <1>1, <1>2, <1>3, <1>4, <1>5, <1>6, <1>7, EditKeepsSound, WalkKeepsSound,
     HashFileKeepsSound, ReportKeepsSound, ProcessKeepsSound, CommitStateKeepsSound,
     SaveKeepsSound
  DEF IncNext, IncStep

\* DifferingIsReported: detect_changes misses no file that did not change under it,
\* for every set of files, wherever runs fail, die or lose their state file.
THEOREM NothingIsMissed == IncSpec => []DifferingIsReported
<1>1. IncTypeOK /\ Sound /\ [IncNext]_incVars => (IncTypeOK /\ Sound)'
  BY NextType, NextSound
<1>2. IncInit => IncTypeOK /\ Sound
  BY InitType, InitSound
<1>3. Sound => DifferingIsReported
  BY DEF Sound
<1> QED BY <1>1, <1>2, <1>3, PTL DEF IncSpec
================================================================================
