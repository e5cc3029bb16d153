------------------------- MODULE SessionStoreProofs -------------------------
(***************************************************************************)
(* Proofs about SessionStore, for every number of ids and keys, every TTL   *)
(* and every bound; the types for every number of pods, the rest for one.   *)
(* The last part proves that one server with sessions in its memory         *)
(* implements SessionContract.                                              *)
(***************************************************************************)
EXTENDS SessionStoreImplements, TLAPS

ThreadInv == TypeOK /\ Coherent

(***************************************************************************)
(* The helpers of the handlers                                             *)
(***************************************************************************)

\* A handler's script is a non-empty list of well-formed calls, and the
\* reaper's consists of one purge.
LEMMA ScriptCalls ==
  ASSUME NEW kind \in Kinds, NEW k \in Keys
  PROVE  Script(kind, k) \in Seq(Calls) /\ Script(kind, k) # <<>>
<1>1. \A op \in Keyed, key \in Items : Call(op, key) \in Calls
  BY DEF Call, Calls
<1>2. \A op \in Ops \ Keyed : Call(op, "-") \in Calls
  BY DEF Call, Calls
<1>3. k \in Items /\ Internal \subseteq Items
  BY DEF Items
<1>4. CASE kind \in {"session_start", "session_end", "build_context"}
  BY <1>1, <1>2, <1>3, <1>4 DEF Script, Ops, Keyed, Internal
<1>5. CASE kind \in {"session_store", "session_retrieve", "extend_session"}
  BY <1>1, <1>2, <1>3, <1>5 DEF Script, Ops, Keyed
<1>6. CASE kind \in {"add_context", "clear_context", "list_active_sessions", "reaper"}
  BY <1>1, <1>2, <1>3, <1>6 DEF Script, Ops, Keyed
<1> QED BY <1>4, <1>5, <1>6 DEF Kinds

LEMMA ReaperScript ==
  /\ Script("reaper", "-") = <<Call("purge", "-")>>
  /\ Script("reaper", "-") \in Seq(Calls)
  /\ Script("reaper", "-") # <<>>
BY DEF Script, Call, Calls, Ops, Keyed

\* What is left of a script is a list of calls.
LEMMA RestOfCalls ==
  ASSUME NEW cs \in Seq(Calls), cs # <<>>
  PROVE  Tail(cs) \in Seq(Calls) /\ Head(cs) \in Calls
OBVIOUS

LEMMA RecoverCalls ==
  ASSUME NEW cs \in Seq(Calls), cs # <<>>, NEW kind
  PROVE  Recover(kind, cs) \in Seq(Calls)
<1>1. Tail(cs) \in Seq(Calls)
  BY RestOfCalls
<1>2. Call("inc", "-") \in Calls
  BY DEF Call, Calls, Ops, Keyed
<1>3. <<Call("inc", "-")>> \in Seq(Calls) /\ <<>> \in Seq(Calls)
  BY <1>2
<1> QED BY <1>1, <1>3 DEF Recover

\* Where a thread goes next: to an idle step exactly when nothing is left.
LEMMA EntryStep ==
  ASSUME NEW cs \in Seq(Calls)
  PROVE  /\ Entry(cs) \in Steps
         /\ Entry(cs) \notin Holding \cup {"reap", "drop"}
         /\ Entry(cs) = "load" => Head(cs).op # "purge"
         /\ cs = <<>> <=> Entry(cs) = "idle"
BY DEF Entry, Steps, Holding, Direct

(***************************************************************************)
(* How the steps of a handler change the thread that makes them            *)
(***************************************************************************)

\* The conjuncts of TypeOK that speak of threads.
ThreadTypes ==
  /\ pc \in [Procs -> Steps]
  /\ job \in [Procs -> Job]
  /\ calls \in [Procs -> Seq(Calls)]
  /\ pend \in [Procs -> SUBSET Sids]
  /\ purged \in [Procs -> Nat]
  /\ reg \in [Procs -> Session \cup {None}]

Purges(cs) == \A i \in 1 .. Len(cs) : cs[i].op = "purge"

\* Going on with well-formed calls keeps every thread well formed.
LEMMA ResumeKeeps ==
  ASSUME TypeOK, Coherent, NEW pr \in Procs, pc[pr] # "idle",
         NEW cs \in Seq(Calls), pr[2] = "reaper" => Purges(cs),
         Resume(pr, cs), UNCHANGED backend
  PROVE  ThreadTypes' /\ Coherent'
<1>1. ThreadTypes'
  <2>1. Idle \in Job
    BY DEF Idle, Job, Kinds
  <2> QED BY <2>1, EntryStep DEF TypeOK, Resume, ThreadTypes
<1>2. \A q \in Procs : q # pr =>
        /\ pc'[q] = pc[q] /\ calls'[q] = calls[q] /\ job'[q] = job[q] /\ reg'[q] = reg[q]
  BY DEF TypeOK, Resume
<1>3. \A q \in Procs : q # pr => ((pc[q] # "idle" => BusyThread(q)) /\ ReaperPurges(q))'
  BY <1>2 DEF Coherent, BusyThread, ReaperPurges, Sid, Op
<1>4. /\ pc'[pr] = Entry(cs) /\ calls'[pr] = cs
      /\ cs # <<>> => job'[pr] = job[pr]
  BY DEF TypeOK, Resume
<1>5. BusyThread(pr)
  BY DEF Coherent
<1>6. ((pc[pr] # "idle" => BusyThread(pr)) /\ ReaperPurges(pr))'
  BY <1>4, <1>5, EntryStep DEF BusyThread, ReaperPurges, Purges, Sid, Op
<1> QED BY <1>1, <1>3, <1>6 DEF Coherent

\* So does keeping an object for a later step of a call that is not a purge.
LEMMA HoldKeeps ==
  ASSUME TypeOK, Coherent, NEW pr \in Procs, pc[pr] # "idle", Op(pr) # "purge",
         NEW x \in Session, NEW step \in Holding \cup {"drop"},
         Hold(pr, x, step), UNCHANGED backend
  PROVE  ThreadTypes' /\ Coherent'
<1>1. ThreadTypes'
  BY DEF TypeOK, Hold, Goto, ThreadTypes, Steps, Holding
<1>2. \A q \in Procs : q # pr => pc'[q] = pc[q] /\ reg'[q] = reg[q]
  BY DEF TypeOK, Hold, Goto
<1>3. \A q \in Procs : q # pr => ((pc[q] # "idle" => BusyThread(q)) /\ ReaperPurges(q))'
  BY <1>2 DEF Coherent, BusyThread, ReaperPurges, Sid, Op, Hold
<1>4. pc'[pr] = step /\ reg'[pr] = x
  BY DEF TypeOK, Hold, Goto
<1>5. ((pc[pr] # "idle" => BusyThread(pr)) /\ ReaperPurges(pr))'
  BY <1>4, NoneAssumption DEF Coherent, BusyThread, ReaperPurges, Sid, Op, Hold, Holding
<1> QED BY <1>1, <1>3, <1>5 DEF Coherent

\* A thread whose next call is not a purge is the event loop, and it works on
\* an id.
LEMMA NotPurging ==
  ASSUME TypeOK, Coherent, NEW pr \in Procs, pc[pr] # "idle", Op(pr) # "purge"
  PROVE  pr[2] # "reaper" /\ Sid(pr) \in Sids
<1>1. calls[pr] \in Seq(Calls) /\ calls[pr] # <<>>
  BY DEF TypeOK, Coherent, BusyThread
<1>2. 1 \in 1 .. Len(calls[pr]) /\ Head(calls[pr]) = calls[pr][1]
  BY <1>1
<1>3. pr[2] # "reaper"
  BY <1>2 DEF Coherent, ReaperPurges, Op
<1> QED BY <1>3 DEF Coherent, BusyThread, Procs

LEMMA ReturnKeeps ==
  ASSUME TypeOK, Coherent, NEW pr \in Procs, pc[pr] # "idle",
         Return(pr), UNCHANGED backend
  PROVE  ThreadTypes' /\ Coherent'
<1>1. calls[pr] \in Seq(Calls) /\ calls[pr] # <<>>
  BY DEF TypeOK, Coherent, BusyThread
<1>2. Tail(calls[pr]) \in Seq(Calls)
  BY <1>1, RestOfCalls
<1>3. pr[2] = "reaper" => Purges(Tail(calls[pr]))
  BY <1>1 DEF Coherent, ReaperPurges, Purges
<1> QED BY <1>2, <1>3, ResumeKeeps DEF Return

LEMMA RaiseKeeps ==
  ASSUME TypeOK, Coherent, NEW pr \in Procs, pc[pr] # "idle",
         Raise(pr), UNCHANGED backend
  PROVE  ThreadTypes' /\ Coherent'
<1> DEFINE rest == Recover(job[pr].kind, calls[pr])
<1>1. calls[pr] \in Seq(Calls) /\ calls[pr] # <<>>
  BY DEF TypeOK, Coherent, BusyThread
<1>2. rest \in Seq(Calls)
  BY <1>1, RecoverCalls
<1>3. ASSUME pr[2] = "reaper" PROVE Purges(rest)
  <2>1. Head(calls[pr]).op = "purge"
    BY <1>1, <1>3 DEF Coherent, ReaperPurges
  <2>2. rest = <<>>
    BY <2>1 DEF Recover
  <2> QED BY <2>2 DEF Purges
<1> QED BY <1>2, <1>3, ResumeKeeps DEF Raise

LEMMA MissingKeeps ==
  ASSUME TypeOK, Coherent, NEW pr \in Procs, pc[pr] # "idle", Op(pr) # "purge",
         Missing(pr), UNCHANGED backend
  PROVE  ThreadTypes' /\ Coherent'
<1>1. pr[2] # "reaper" /\ Sid(pr) \in Sids
  BY NotPurging
<1>2. CASE Op(pr) = "create"
  <2> DEFINE x == NewSession(Sid(pr), job[pr].gen)
  <2>1. x \in Session
    BY <1>1, TimeAssumption DEF TypeOK, NewSession, Session, Job
  <2>2. Hold(pr, x, "save")
    BY <1>2 DEF Missing
  <2> QED BY <2>1, <2>2, HoldKeeps DEF Holding
<1>3. CASE Op(pr) \in {"get", "close", "extend"}
  BY <1>3, ReturnKeeps DEF Missing
<1>4. CASE Op(pr) = "guard"
  <2> DEFINE rest == <<Call("retrieve", "_task_type")>>
  <2>1. Call("retrieve", "_task_type") \in Calls
    BY DEF Call, Calls, Keyed, Items, Internal
  <2>2. rest \in Seq(Calls)
    BY <2>1
  <2>3. Resume(pr, rest)
    BY <1>4 DEF Missing
  <2> QED BY <1>1, <2>2, <2>3, ResumeKeeps
<1>5. CASE Op(pr) \notin {"create", "get", "close", "extend", "guard"}
  BY <1>5, RaiseKeeps DEF Missing
<1> QED BY <1>2, <1>3, <1>4, <1>5

LEMMA FoundKeeps ==
  ASSUME TypeOK, Coherent, NEW pr \in Procs, pc[pr] # "idle", Op(pr) # "purge",
         NEW x \in Session, Found(pr, x), UNCHANGED backend
  PROVE  ThreadTypes' /\ Coherent'
<1>1. CASE Op(pr) = "create"
  BY <1>1, RaiseKeeps DEF Found
<1>2. CASE Op(pr) \in {"get", "guard"}
  BY <1>2, ReturnKeeps DEF Found
<1>3. CASE Op(pr) = "close"
  <2>1. Hold(pr, x, "pgclose")
    BY <1>3 DEF Found
  <2> QED BY <2>1, HoldKeeps DEF Holding
<1>4. CASE Op(pr) \notin {"create", "get", "guard", "close"}
  <2> DEFINE c == Head(calls[pr])
  <2>1. c \in Calls
    BY RestOfCalls DEF TypeOK, Coherent, BusyThread
  <2>2. Modified(c, x) \in Session
    BY <2>1, TimeAssumption DEF Modified, Session, Calls, Keyed, Items
  <2>3. Hold(pr, Modified(c, x), "save")
    BY <1>4 DEF Found
  <2> QED BY <2>2, <2>3, HoldKeeps DEF Holding
<1> QED BY <1>1, <1>2, <1>3, <1>4

(***************************************************************************)
(* Type correctness                                                        *)
(***************************************************************************)

LEMMA ThreadInvInit == Init => ThreadInv
<1> SUFFICES ASSUME Init PROVE TypeOK /\ Coherent
  BY DEF ThreadInv
<1>1. Idle \in Job
  BY DEF Idle, Job, Kinds
<1>2. TypeOK
  BY <1>1 DEF Init, TypeOK, Steps
<1>3. Coherent
  BY DEF Init, Coherent, ReaperPurges
<1> QED BY <1>2, <1>3

\* The conjuncts of TypeOK that speak of what threads share.
SharedTypes ==
  /\ now \in Nat
  /\ store \in [Locations -> [Sids -> Session \cup {None}]]
  /\ backend \in [Pods -> Locations \cup {None}]
  /\ gauge \in [Pods -> Int]
  /\ meta \in [Sids -> {"none", "open", "closed"}]
  /\ starts \in [Sids -> Nat]
  /\ issued \in Nat
  /\ mishaps \in Nat
  /\ acked \subseteq Write
  /\ ended \subseteq [sid : Sids, gen : Nat]

LEMMA TypeParts == TypeOK <=> ThreadTypes /\ SharedTypes
BY DEF TypeOK, ThreadTypes, SharedTypes

\* Where a busy thread keeps its sessions, and what it finds there.
LEMMA BusyHome ==
  ASSUME TypeOK, Coherent, NEW pr \in Procs, pc[pr] # "idle"
  PROVE  /\ Home(pr) \in Locations
         /\ \A s \in Sids : Kept(pr, s) \in Session \cup {None}
         /\ calls[pr] \in Seq(Calls) /\ calls[pr] # <<>>
<1>1. Pod(pr) \in Pods
  BY DEF Pod, Procs
<1>2. Home(pr) \in Locations
  BY <1>1 DEF TypeOK, Coherent, BusyThread, Home
<1> QED BY <1>2 DEF TypeOK, Coherent, BusyThread, Kept

\* Writing a session or None at a busy thread's home keeps the store typed.
LEMMA PutType ==
  ASSUME TypeOK, NEW pr, NEW s, NEW x \in Session \cup {None}, Put(pr, s, x)
  PROVE  store' \in [Locations -> [Sids -> Session \cup {None}]]
BY DEF TypeOK, Put

LEMMA WrittenType ==
  ASSUME TypeOK, NEW x \in Session
  PROVE  Written(x) \in Session
<1> DEFINE whole == (x.exp - now) \div Second
<1>1. x.exp \in Nat /\ now \in Nat /\ Second \in Nat \ {0}
  BY TimeAssumption DEF TypeOK, Session
<1>2. whole \in Int
  BY <1>1
<1>3. Seconds(x) \in Nat
  BY <1>2 DEF Seconds
<1>4. now + Seconds(x) * Second \in Nat
  BY <1>1, <1>3
<1> QED BY <1>4 DEF Written, Session

LEMMA BeginKeeps ==
  ASSUME TypeOK, Coherent, NEW pr \in Procs, NEW kind \in Kinds,
         NEW s \in Sids \cup {None}, NEW g \in Nat, NEW k,
         Script(kind, k) \in Seq(Calls), Script(kind, k) # <<>>,
         pr[2] = "main" => s \in Sids,
         pr[2] = "reaper" => Purges(Script(kind, k)),
         Begin(pr, kind, s, g, k)
  PROVE  /\ ThreadTypes' /\ Coherent'
         /\ backend' \in [Pods -> Locations \cup {None}]
<1> DEFINE cs == Script(kind, k)
<1>0. Pod(pr) \in Pods
  BY DEF Pod, Procs
<1>1. /\ backend' \in [Pods -> Locations \cup {None}]
      /\ backend'[Pod(pr)] # None
      /\ \A p \in Pods : backend[p] # None => backend'[p] = backend[p]
  BY <1>0, NamesAssumption DEF Begin, ChooseBackend, TypeOK, Locations
<1>2. ThreadTypes'
  BY EntryStep DEF TypeOK, Begin, ThreadTypes, Job
<1>3. \A q \in Procs : q # pr =>
        /\ pc'[q] = pc[q] /\ calls'[q] = calls[q] /\ job'[q] = job[q] /\ reg'[q] = reg[q]
  BY DEF TypeOK, Begin
<1>4. \A q \in Procs : Pod(q) \in Pods
  BY DEF Pod, Procs
<1>5. \A q \in Procs : q # pr => ((pc[q] # "idle" => BusyThread(q)) /\ ReaperPurges(q))'
  BY <1>1, <1>3, <1>4 DEF Coherent, BusyThread, ReaperPurges, Sid, Op
<1>6. pc'[pr] = Entry(cs) /\ calls'[pr] = cs /\ job'[pr].sid = s
  BY DEF TypeOK, Begin
<1>7. ((pc[pr] # "idle" => BusyThread(pr)) /\ ReaperPurges(pr))'
  BY <1>1, <1>6, EntryStep DEF BusyThread, ReaperPurges, Purges, Sid, Op
<1> QED BY <1>1, <1>2, <1>5, <1>7 DEF Coherent

LEMMA ThreadInvNext == ThreadInv /\ [Next]_vars => ThreadInv'
<1> SUFFICES ASSUME TypeOK, Coherent, [Next]_vars
             PROVE  ThreadTypes' /\ SharedTypes' /\ Coherent'
  BY TypeParts DEF ThreadInv, TypeOK, ThreadTypes, SharedTypes
<1> SharedTypes
  BY TypeParts
<1>1. ASSUME NEW p \in Pods, NEW kind \in Kinds \ {"reaper"}, NEW s \in Sids,
             NEW k \in Keys, Request(p, kind, s, k)
      PROVE  ThreadTypes' /\ SharedTypes' /\ Coherent'
  <2> DEFINE pr == <<p, "main">>
  <2>1. pr \in Procs /\ pr[2] = "main"
    BY DEF Procs
  <2>2. starts' \in [Sids -> Nat] /\ issued' \in Nat
    <3>1. issued' = issued + 1 /\ (starts' = [starts EXCEPT ![s] = @ + 1] \/ starts' = starts)
      BY <1>1 DEF Request
    <3>2. starts[s] + 1 \in Nat /\ issued + 1 \in Nat
      BY DEF TypeOK
    <3>3. [starts EXCEPT ![s] = @ + 1] \in [Sids -> Nat]
      BY <3>2 DEF TypeOK
    <3> QED BY <3>1, <3>2, <3>3 DEF TypeOK
  <2>3. Begin(pr, kind, s, starts'[s], k)
    BY <1>1 DEF Request
  <2>4. /\ ThreadTypes' /\ Coherent'
        /\ backend' \in [Pods -> Locations \cup {None}]
    BY <2>1, <2>2, <2>3, BeginKeeps, ScriptCalls
  <2> QED BY <2>2, <2>3, <2>4 DEF SharedTypes, Begin, history
<1>2. ASSUME NEW p \in Pods, ReaperFires(p)
      PROVE  ThreadTypes' /\ SharedTypes' /\ Coherent'
  <2> DEFINE pr == <<p, "reaper">>
  <2>1. pr \in Procs /\ pr[2] = "reaper"
    BY DEF Procs
  <2>2. Begin(pr, "reaper", None, 0, "-")
    BY <1>2 DEF ReaperFires
  <2>3. Purges(Script("reaper", "-"))
    BY ReaperScript DEF Purges, Call
  <2>4. /\ ThreadTypes' /\ Coherent'
        /\ backend' \in [Pods -> Locations \cup {None}]
    BY <2>1, <2>2, <2>3, BeginKeeps, ReaperScript DEF Kinds
  <2> QED BY <1>2, <2>2, <2>4 DEF ReaperFires, SharedTypes, Begin, history
<1>3. ASSUME NEW pr \in Procs, ThreadStep(pr)
      PROVE  ThreadTypes' /\ SharedTypes' /\ Coherent'
  <2>0. ASSUME pc[pr] # "idle"
        PROVE  /\ Home(pr) \in Locations
               /\ \A s \in Sids : Kept(pr, s) \in Session \cup {None}
               /\ calls[pr] \in Seq(Calls) /\ calls[pr] # <<>>
    BY <2>0, BusyHome
  <2>1. CASE ListIds(pr)
    <3>1. ThreadTypes'
      BY <2>1 DEF ListIds, Goto, TypeOK, ThreadTypes, Steps
    <3>2. Coherent'
      BY <2>1 DEF ListIds, Goto, TypeOK, Coherent, BusyThread, ReaperPurges, Sid, Op, Holding
    <3> QED BY <2>1, <3>1, <3>2 DEF ListIds, SharedTypes, boundVars, history
  <2>2. CASE LookAt(pr)
    <3>1. PICK s \in pend[pr] :
            LET x == Kept(pr, s) IN
            /\ pend' = [pend EXCEPT ![pr] = @ \ {s}]
            /\ IF x # None /\ Expired(x)
               THEN /\ reg' = [reg EXCEPT ![pr] = x]
                    /\ Goto(pr, "reap")
               ELSE /\ Goto(pr, IF pend'[pr] = {} THEN "count" ELSE "scan")
                    /\ UNCHANGED reg
      BY <2>2 DEF LookAt
    <3>2. pc[pr] = "scan" /\ UNCHANGED <<backend, job, calls, purged>>
      BY <2>2 DEF LookAt
    <3>3. Kept(pr, s) \in Session \cup {None}
      BY <2>0, <3>2 DEF TypeOK
    <3>4. ThreadTypes'
      BY <3>1, <3>2, <3>3 DEF Goto, TypeOK, ThreadTypes, Steps
    <3>5. Coherent'
      BY <3>1, <3>2, <3>3 DEF Goto, TypeOK, Coherent, BusyThread, ReaperPurges, Sid, Op, Holding
    <3> QED BY <2>2, <3>4, <3>5 DEF LookAt, SharedTypes, boundVars, history
  <2>3. CASE Reap(pr)
    <3>1. ThreadTypes'
      BY <2>3 DEF Reap, Goto, TypeOK, ThreadTypes, Steps
    <3>2. Coherent'
      BY <2>3 DEF Reap, Goto, TypeOK, Coherent, BusyThread, ReaperPurges, Sid, Op, Holding
    <3>3. store' \in [Locations -> [Sids -> Session \cup {None}]]
      BY <2>3, PutType DEF Reap
    <3> QED BY <2>3, <3>1, <3>2, <3>3 DEF Reap, SharedTypes, boundVars, history
  <2>4. CASE Count(pr)
    <3>0. purged[pr] \in Int /\ \A p \in Pods : gauge[p] \in Int /\ gauge[p] - purged[pr] \in Int
      BY DEF TypeOK
    <3>1. gauge' \in [Pods -> Int]
      BY <2>4, <3>0 DEF Count, TypeOK
    <3>7. pc[pr] = "count" /\ UNCHANGED backend
      BY <2>4 DEF Count
    <3>2. CASE Op(pr) \in {"purge", "list"}
      <4>1. ThreadTypes' /\ Coherent'
        BY <2>4, <3>2, ReturnKeeps DEF Count
      <4> QED BY <2>4, <3>1, <4>1 DEF Count, SharedTypes, boundVars, history
    <3>3. CASE Op(pr) \notin {"purge", "list"}
      <4>0. /\ Goto(pr, "load")
            /\ purged' = [purged EXCEPT ![pr] = 0]
            /\ UNCHANGED <<job, calls, pend, reg>>
        BY <2>4, <3>3 DEF Count
      <4>1. ThreadTypes'
        BY <4>0 DEF Goto, TypeOK, ThreadTypes, Steps
      <4>2. Coherent'
        BY <3>3, <3>7, <4>0 DEF Goto, TypeOK, Coherent, BusyThread, ReaperPurges, Sid, Op, Holding
      <4> QED BY <2>4, <3>1, <4>1, <4>2 DEF Count, SharedTypes, boundVars, history
    <3> QED BY <3>2, <3>3
  <2>5. CASE Load(pr)
    <3> DEFINE x == Kept(pr, Sid(pr))
    <3>1. pc[pr] # "idle" /\ Op(pr) # "purge" /\ UNCHANGED backend
      BY <2>5 DEF Load, Coherent, BusyThread
    <3>2. x \in Session \cup {None}
      BY <2>0, <3>1, NotPurging
    <3>3. CASE x = None
      BY <2>5, <3>1, <3>3, MissingKeeps DEF Load, SharedTypes, boundVars, history
    <3>4. CASE x # None /\ Expired(x)
      <4>1. Hold(pr, x, "drop")
        BY <2>5, <3>4 DEF Load
      <4> QED BY <2>5, <3>1, <3>2, <3>4, <4>1, HoldKeeps DEF Load, SharedTypes, boundVars, history
    <3>5. CASE x # None /\ ~Expired(x)
      BY <2>5, <3>1, <3>2, <3>5, FoundKeeps DEF Load, SharedTypes, boundVars, history
    <3> QED BY <3>3, <3>4, <3>5
  <2>6. CASE DropExpired(pr)
    <3>1. pc[pr] # "idle" /\ Op(pr) # "purge"
      BY <2>6 DEF DropExpired, Coherent, BusyThread
    <3>2. store' \in [Locations -> [Sids -> Session \cup {None}]]
      BY <2>6, PutType DEF DropExpired
    <3> QED BY <2>6, <3>1, <3>2, MissingKeeps DEF DropExpired, SharedTypes, boundVars, history
  <2>7. CASE Save(pr)
    <3>1. /\ pc[pr] = "save" /\ reg[pr] \in Session /\ Op(pr) # "purge"
          /\ UNCHANGED backend
      BY <2>7 DEF Save, TypeOK, Coherent, BusyThread, Holding
    <3>2. store' \in [Locations -> [Sids -> Session \cup {None}]]
      BY <2>7, <3>1, PutType, WrittenType DEF Save
    <3>3. ThreadTypes' /\ Coherent'
      BY <2>7, <3>1, ReturnKeeps, HoldKeeps DEF Save, Holding
    <3>4. acked' \subseteq Write
      <4>1. Sid(pr) \in Sids
        BY <3>1, NotPurging
      <4>2. Head(calls[pr]).key \in Items \cup {"-"}
        BY <2>0, <3>1, RestOfCalls DEF Calls
      <4> QED BY <2>0, <2>7, <3>1, <4>1, <4>2 DEF Save, TypeOK, Write, Session
    <3> QED BY <2>7, <3>2, <3>3, <3>4 DEF Save, SharedTypes, boundVars
  <2>8. CASE SaveMeta(pr)
    <3>1. meta' \in [Sids -> {"none", "open", "closed"}]
      BY <2>8 DEF SaveMeta, TypeOK
    <3>2. ThreadTypes' /\ Coherent'
      BY <2>8, ReturnKeeps DEF SaveMeta
    <3> QED BY <2>8, <3>1, <3>2 DEF SaveMeta, SharedTypes, boundVars, history
  <2>9. CASE CloseMeta(pr)
    <3>1. /\ pc[pr] = "pgclose" /\ reg[pr] \in Session /\ Op(pr) # "purge"
          /\ UNCHANGED backend
      BY <2>9 DEF CloseMeta, TypeOK, Coherent, BusyThread, Holding
    <3>2. meta' \in [Sids -> {"none", "open", "closed"}]
      BY <2>9 DEF CloseMeta, TypeOK
    <3>3. ThreadTypes' /\ Coherent'
      BY <2>9, <3>1, HoldKeeps DEF CloseMeta, Holding
    <3> QED BY <2>9, <3>2, <3>3 DEF CloseMeta, SharedTypes, boundVars, history
  <2>10. CASE Delete(pr)
    <3>1. /\ pc[pr] = "delete" /\ reg[pr] \in Session /\ Op(pr) # "purge"
          /\ UNCHANGED backend
      BY <2>10 DEF Delete, TypeOK, Coherent, BusyThread, Holding
    <3>2. store' \in [Locations -> [Sids -> Session \cup {None}]]
      BY <2>10, PutType DEF Delete
    <3>3. ThreadTypes' /\ Coherent'
      BY <2>10, <3>1, ReturnKeeps DEF Delete
    <3>4. ended' \subseteq [sid : Sids, gen : Nat]
      BY <2>10, <3>1, NotPurging DEF Delete, TypeOK, Session
    <3> QED BY <2>10, <3>2, <3>3, <3>4 DEF Delete, SharedTypes, boundVars
  <2>11. CASE Metric(pr)
    <3>0. \A p \in Pods : gauge[p] \in Int /\ gauge[p] + 1 \in Int /\ gauge[p] - 1 \in Int
      BY DEF TypeOK
    <3>1. gauge' \in [Pods -> Int]
      BY <2>11, <3>0 DEF Metric, TypeOK
    <3>2. ThreadTypes' /\ Coherent'
      BY <2>11, ReturnKeeps DEF Metric
    <3> QED BY <2>11, <3>1, <3>2 DEF Metric, SharedTypes, boundVars, history
  <2> QED BY <1>3, <2>1, <2>2, <2>3, <2>4, <2>5, <2>6, <2>7, <2>8, <2>9, <2>10, <2>11
          DEF ThreadStep
<1>4. CASE Tick
  <2>1. store' \in [Locations -> [Sids -> Session \cup {None}]]
    BY <1>4 DEF Tick, TypeOK, Locations
  <2>2. now' \in Nat
    BY <1>4 DEF Tick, TypeOK
  <2>3. ThreadTypes' /\ Coherent'
    BY <1>4 DEF Tick, TypeOK, ThreadTypes, serverVars, Coherent, BusyThread, ReaperPurges, Sid, Op
  <2> QED BY <1>4, <2>1, <2>2, <2>3 DEF Tick, SharedTypes, boundVars, history
<1>5. ASSUME NEW pr \in Procs, RedisError(pr)
      PROVE  ThreadTypes' /\ SharedTypes' /\ Coherent'
  <2>1. pc[pr] # "idle" /\ UNCHANGED backend /\ mishaps' \in Nat
    BY <1>5 DEF RedisError, BackendSteps, TypeOK
  <2>2. ThreadTypes' /\ Coherent'
    BY <1>5, <2>1, RaiseKeeps DEF RedisError
  <2> QED BY <1>5, <2>1, <2>2 DEF RedisError, SharedTypes, history
<1>6. ASSUME NEW p \in Pods, Restart(p)
      PROVE  ThreadTypes' /\ SharedTypes' /\ Coherent'
  <2>1. /\ store' \in [Locations -> [Sids -> Session \cup {None}]]
        /\ backend' \in [Pods -> Locations \cup {None}]
        /\ gauge' \in [Pods -> Int]
        /\ mishaps' \in Nat
        /\ acked' \subseteq Write
    <3>1. store' \in [Locations -> [Sids -> Session \cup {None}]]
      <4>1. store' = [store EXCEPT ![p] = [s \in Sids |-> None]]
        BY <1>6 DEF Restart
      <4> QED BY <4>1 DEF TypeOK
    <3>2. backend' \in [Pods -> Locations \cup {None}] /\ gauge' \in [Pods -> Int]
      <4>1. backend' = [backend EXCEPT ![p] = None] /\ gauge' = [gauge EXCEPT ![p] = 0]
        BY <1>6 DEF Restart
      <4> QED BY <4>1 DEF TypeOK
    <3>3. mishaps' \in Nat /\ acked' \subseteq Write
      BY <1>6 DEF Restart, TypeOK
    <3> QED BY <3>1, <3>2, <3>3
  <2>2. Idle \in Job /\ <<>> \in Seq(Calls)
    BY DEF Idle, Job, Kinds
  <2>3. ThreadTypes'
    BY <1>6, <2>2 DEF Restart, TypeOK, ThreadTypes, Steps
  <2>4. \A q \in Procs : Pod(q) # p =>
          /\ pc'[q] = pc[q] /\ calls'[q] = calls[q] /\ job'[q] = job[q]
          /\ reg'[q] = reg[q] /\ backend'[Pod(q)] = backend[Pod(q)]
    BY <1>6 DEF Restart, TypeOK, Pod, Procs
  <2>5. \A q \in Procs : Pod(q) = p => pc'[q] = "idle" /\ calls'[q] = <<>>
    BY <1>6 DEF Restart, TypeOK
  <2>6. Coherent'
    BY <2>4, <2>5 DEF Coherent, BusyThread, ReaperPurges, Sid, Op
  <2> QED BY <1>6, <2>1, <2>3, <2>6 DEF Restart, SharedTypes
<1>7. CASE UNCHANGED vars
  BY <1>7 DEF vars, serverVars, boundVars, history, TypeOK, ThreadTypes, SharedTypes,
              Coherent, BusyThread, ReaperPurges, Sid, Op
<1> QED BY <1>1, <1>2, <1>3, <1>4, <1>5, <1>6, <1>7 DEF Next

\* Every variable keeps its type, every busy thread has its backend, call and
\* object, and a reaper only purges: in every reachable state, whatever the
\* pods, ids, TTLs and bounds.
THEOREM TypeCorrect == Spec => [](TypeOK /\ Coherent)
<1>1. Init => ThreadInv
  BY ThreadInvInit
<1>2. ThreadInv /\ [Next]_vars => ThreadInv'
  BY ThreadInvNext
<1> QED BY <1>1, <1>2, PTL DEF Spec, ThreadInv

(***************************************************************************)
(* One server: no save brings back what session_end closed, and no start    *)
(* replaces a live session.  The event loop is the only thread that saves;  *)
(* the invariant says what it may still save, given what it holds.          *)
(***************************************************************************)

Generations ==
  /\ \A l \in Locations, s \in Sids : store[l][s] # None => store[l][s].gen <= starts[s]
  /\ \A e \in ended : e.gen <= starts[e.sid]

\* Two locations never keep the same session.
OnePlace ==
  \A l, h \in Locations, s \in Sids :
    l # h /\ store[l][s] # None /\ store[h][s] # None => store[l][s].gen # store[h][s].gen

\* Only the first call of session_start creates, under a number nobody has used.
Creating(m) ==
  /\ \A i \in 1 .. Len(calls[m]) : calls[m][i].op = "create" => i = 1
  /\ pc[m] # "idle" /\ Op(m) = "create" /\ pc[m] # "pgsave" =>
       /\ job[m].gen = starts[Sid(m)]
       /\ \A e \in ended : e.sid = Sid(m) => e.gen < job[m].gen
       /\ \A l \in Locations : store[l][Sid(m)] # None => store[l][Sid(m)].gen < job[m].gen
       /\ pc[m] = "save" => reg[m].gen = job[m].gen /\ store[Home(m)][Sid(m)] = None

\* What the event loop holds after a load is the session its home keeps, if any.
HoldingLoaded(m) ==
  /\ pc[m] \in {"pgclose", "delete"} => Op(m) # "create"
  /\ pc[m] \in {"save", "pgclose", "delete"} /\ Op(m) # "create" =>
       /\ reg[m].gen <= starts[Sid(m)]
       /\ [sid |-> Sid(m), gen |-> reg[m].gen] \notin ended
       /\ \A l \in Locations : store[l][Sid(m)] # None =>
            (store[l][Sid(m)].gen = reg[m].gen <=> l = Home(m))

ServerInv(m) == Generations /\ OnePlace /\ EndedStaysEnded /\ Creating(m) /\ HoldingLoaded(m)

Shared == Generations /\ OnePlace /\ EndedStaysEnded

\* The store only loses sessions in this step.
Shrinks == \A l \in Locations, s \in Sids : store'[l][s] \in {store[l][s], None}

LEMMA SharedKept ==
  ASSUME Shared, Shrinks, UNCHANGED <<starts, ended>>
  PROVE  Shared'
BY DEF Shared, Generations, OnePlace, EndedStaysEnded, Shrinks

\* Steps of other threads leave what the event loop knows true.
LEMMA OthersKeep ==
  ASSUME NEW m, ServerInv(m), Shrinks, UNCHANGED <<starts, ended>>,
         pc[m] # "idle" => Sid(m) \in Sids,
         pc'[m] = pc[m], job'[m] = job[m], calls'[m] = calls[m], reg'[m] = reg[m],
         pc[m] # "idle" => Home(m)' = Home(m) /\ Home(m) \in Locations
  PROVE  ServerInv(m)'
<1>1. Shared'
  BY SharedKept DEF ServerInv, Shared
<1>2. Creating(m)'
  BY DEF ServerInv, Creating, Shrinks, Sid, Op, Home
<1>3. HoldingLoaded(m)'
  BY DEF ServerInv, HoldingLoaded, Shrinks, Sid, Op, Home
<1> QED BY <1>1, <1>2, <1>3 DEF ServerInv, Shared

\* A thread that goes on with calls that do not create is free of claims.
LEMMA ResumeFree ==
  ASSUME TypeOK, NEW m \in Procs, NEW cs \in Seq(Calls), Resume(m, cs),
         \A i \in 1 .. Len(cs) : cs[i].op # "create"
  PROVE  Creating(m)' /\ HoldingLoaded(m)'
<1>1. pc'[m] = Entry(cs) /\ calls'[m] = cs
  BY DEF Resume, TypeOK
<1>2. pc'[m] # "idle" => cs # <<>> /\ Head(cs).op # "create"
  BY <1>1, EntryStep
<1>3. pc'[m] \notin Holding
  BY <1>1, EntryStep
<1> QED BY <1>1, <1>2, <1>3 DEF Creating, HoldingLoaded, Holding, Op

LEMMA ReturnFree ==
  ASSUME TypeOK, Coherent, NEW m \in Procs, pc[m] # "idle", Creating(m), Return(m)
  PROVE  Creating(m)' /\ HoldingLoaded(m)'
<1> DEFINE cs == Tail(calls[m])
<1>1. calls[m] \in Seq(Calls) /\ calls[m] # <<>>
  BY DEF TypeOK, Coherent, BusyThread
<1>2. cs \in Seq(Calls)
  BY <1>1, RestOfCalls
<1>3. \A i \in 1 .. Len(cs) : cs[i] = calls[m][i + 1] /\ i + 1 \in 1 .. Len(calls[m])
  BY <1>1
<1>4. \A i \in 1 .. Len(cs) : cs[i].op # "create"
  BY <1>1, <1>2, <1>3 DEF Creating
<1> QED BY <1>2, <1>4, ResumeFree DEF Return

LEMMA RaiseFree ==
  ASSUME TypeOK, Coherent, NEW m \in Procs, pc[m] # "idle", Creating(m), Raise(m)
  PROVE  Creating(m)' /\ HoldingLoaded(m)'
<1> DEFINE rest == Recover(job[m].kind, calls[m])
<1>1. calls[m] \in Seq(Calls) /\ calls[m] # <<>>
  BY DEF TypeOK, Coherent, BusyThread
<1>2. rest \in Seq(Calls)
  BY <1>1, RecoverCalls
<1>3. rest \in {<<Call("inc", "-")>>, Tail(calls[m]), <<>>}
  BY DEF Recover
<1>4. \A i \in 1 .. Len(Tail(calls[m])) :
        Tail(calls[m])[i] = calls[m][i + 1] /\ i + 1 \in 1 .. Len(calls[m])
  BY <1>1
<1>5. \A i \in 1 .. Len(rest) : rest[i].op # "create"
  <2>1. CASE rest = <<Call("inc", "-")>>
    BY <2>1 DEF Call
  <2>2. CASE rest = Tail(calls[m])
    BY <1>1, <1>2, <1>4, <2>2 DEF Creating
  <2>3. CASE rest = <<>>
    BY <2>3
  <2> QED BY <1>3, <2>1, <2>2, <2>3
<1> QED BY <1>2, <1>5, ResumeFree DEF Raise

\* A start that finds no session under its id may save a new one.
LEMMA MissingFree ==
  ASSUME TypeOK, Coherent, NEW m \in Procs, pc[m] \in {"load", "drop"}, Creating(m),
         Missing(m), Shrinks, UNCHANGED <<starts, ended, backend>>,
         store'[Home(m)][Sid(m)] = None
  PROVE  Creating(m)' /\ HoldingLoaded(m)'
<1>0. pc[m] # "idle" /\ Op(m) # "purge"
  BY DEF Coherent, BusyThread
<1>1. Sid(m) \in Sids
  BY <1>0, NotPurging
<1>2. CASE Op(m) = "create"
  <2> DEFINE x == NewSession(Sid(m), job[m].gen)
  <2>1. Hold(m, x, "save")
    BY <1>2 DEF Missing
  <2>2. pc'[m] = "save" /\ reg'[m] = x /\ UNCHANGED <<job, calls>>
    BY <2>1 DEF Hold, Goto, TypeOK
  <2>3. x.gen = job[m].gen
    BY DEF NewSession
  <2>4. HoldingLoaded(m)'
    BY <1>2, <2>2 DEF HoldingLoaded, Op
  <2>5. Creating(m)'
    BY <1>0, <1>1, <1>2, <2>2, <2>3 DEF Creating, Op, Sid, Home, Shrinks
  <2> QED BY <2>4, <2>5
<1>3. CASE Op(m) \in {"get", "close", "extend"}
  BY <1>0, <1>3, ReturnFree DEF Missing
<1>4. CASE Op(m) = "guard"
  <2> DEFINE rest == <<Call("retrieve", "_task_type")>>
  <2>1. Call("retrieve", "_task_type") \in Calls
    BY DEF Call, Calls, Keyed, Items, Internal
  <2>2. rest \in Seq(Calls) /\ \A i \in 1 .. Len(rest) : rest[i].op # "create"
    BY <2>1 DEF Call
  <2>3. Resume(m, rest)
    BY <1>4 DEF Missing
  <2> QED BY <2>2, <2>3, ResumeFree
<1>5. CASE Op(m) \notin {"create", "get", "close", "extend", "guard"}
  BY <1>0, <1>5, RaiseFree DEF Missing
<1> QED BY <1>2, <1>3, <1>4, <1>5

\* A load that finds a live session may write that very session back.
LEMMA FoundFree ==
  ASSUME TypeOK, Coherent, NEW m \in Procs, pc[m] = "load", ServerInv(m),
         Kept(m, Sid(m)) # None, Found(m, Kept(m, Sid(m))),
         UNCHANGED <<store, starts, ended, backend>>
  PROVE  Creating(m)' /\ HoldingLoaded(m)'
<1> DEFINE x == Kept(m, Sid(m))
<1>0. pc[m] # "idle" /\ Op(m) # "purge" /\ Creating(m)
  BY DEF Coherent, BusyThread, ServerInv
<1>1. Sid(m) \in Sids /\ Home(m) \in Locations /\ x \in Session
  BY <1>0, NotPurging, BusyHome
<1>2. /\ x.gen <= starts[Sid(m)]
      /\ [sid |-> Sid(m), gen |-> x.gen] \notin ended
      /\ \A l \in Locations : store[l][Sid(m)] # None =>
           (store[l][Sid(m)].gen = x.gen <=> l = Home(m))
  BY <1>1 DEF ServerInv, Generations, EndedStaysEnded, OnePlace, Kept
<1>3. ASSUME NEW y \in Session, y.gen = x.gen, Op(m) # "create",
             NEW step \in {"save", "pgclose"}, Hold(m, y, step)
      PROVE  Creating(m)' /\ HoldingLoaded(m)'
  <2>1. pc'[m] = step /\ reg'[m] = y /\ UNCHANGED <<job, calls>>
    BY <1>3 DEF Hold, Goto, TypeOK
  <2>2. Creating(m)'
    BY <1>0, <1>3, <2>1 DEF Creating, Op
  <2>3. HoldingLoaded(m)'
    BY <1>2, <1>3, <2>1 DEF HoldingLoaded, Op, Sid, Home
  <2> QED BY <2>2, <2>3
<1>4. CASE Op(m) = "create"
  BY <1>0, <1>4, RaiseFree DEF Found
<1>5. CASE Op(m) \in {"get", "guard"}
  BY <1>0, <1>5, ReturnFree DEF Found
<1>6. CASE Op(m) = "close"
  <2>1. Hold(m, x, "pgclose")
    BY <1>6 DEF Found
  <2> QED BY <1>1, <1>3, <1>6, <2>1
<1>7. CASE Op(m) \notin {"create", "get", "guard", "close"}
  <2> DEFINE c == Head(calls[m])
  <2>1. c \in Calls
    BY RestOfCalls DEF TypeOK, Coherent, BusyThread
  <2>2. Modified(c, x) \in Session /\ Modified(c, x).gen = x.gen
    BY <1>1, <2>1, TimeAssumption DEF Modified, Session, Calls, Keyed, Items
  <2>3. Hold(m, Modified(c, x), "save")
    BY <1>7 DEF Found
  <2> QED BY <1>3, <1>7, <2>2, <2>3
<1> QED BY <1>4, <1>5, <1>6, <1>7

\* A save of the event loop stores the object it holds, under its own id.
LEMMA SaveShared ==
  ASSUME TypeOK, Coherent, NEW m \in Procs, ServerInv(m), Save(m)
  PROVE  Shared'
<1> DEFINE w == Written(reg[m])
           s == Sid(m)
           h == Home(m)
<1>1. /\ pc[m] = "save" /\ reg[m] \in Session /\ Op(m) # "purge"
      /\ UNCHANGED <<starts, ended>>
  BY DEF Save, TypeOK, Coherent, BusyThread, Holding, boundVars
<1>2. s \in Sids /\ h \in Locations /\ w \in Session
  BY <1>1, NotPurging, BusyHome, WrittenType
<1>3. w.gen = reg[m].gen
  BY <1>1 DEF Written, Session
<1>4. /\ store'[h][s] = w
      /\ \A l \in Locations, t \in Sids : ~(l = h /\ t = s) => store'[l][t] = store[l][t]
  BY <1>2 DEF Save, Put, TypeOK
<1>5. /\ w.gen <= starts[s]
      /\ [sid |-> s, gen |-> w.gen] \notin ended
      /\ \A l \in Locations : l # h /\ store[l][s] # None => store[l][s].gen # w.gen
  <2>1. CASE Op(m) = "create"
    <3>1. /\ w.gen = starts[s]
          /\ \A e \in ended : e.sid = s => e.gen < w.gen
          /\ \A l \in Locations : store[l][s] # None => store[l][s].gen < w.gen
      BY <1>1, <1>3, <2>1 DEF ServerInv, Creating
    <3>2. w.gen \in Nat /\ starts[s] \in Nat
      BY <1>2 DEF Session, TypeOK
    <3> QED BY <3>1, <3>2
  <2>2. CASE Op(m) # "create"
    BY <1>1, <1>3, <2>2 DEF ServerInv, HoldingLoaded
  <2> QED BY <2>1, <2>2
<1>6. Generations'
  BY <1>1, <1>4, <1>5 DEF ServerInv, Generations
<1>7. OnePlace'
  BY <1>2, <1>4, <1>5 DEF ServerInv, OnePlace
<1>8. EndedStaysEnded'
  BY <1>1, <1>2, <1>4, <1>5 DEF ServerInv, EndedStaysEnded
<1> QED BY <1>6, <1>7, <1>8 DEF Shared

LEMMA OnlyStartCreates ==
  ASSUME NEW kind \in Kinds, NEW k
  PROVE  \A i \in 1 .. Len(Script(kind, k)) :
           Script(kind, k)[i].op = "create" => kind = "session_start" /\ i = 1
<1>1. CASE kind \in {"session_start", "session_end", "build_context"}
  BY <1>1 DEF Script, Call
<1>2. CASE kind \in {"session_store", "session_retrieve", "extend_session"}
  BY <1>2 DEF Script, Call
<1>3. CASE kind \in {"add_context", "clear_context", "list_active_sessions", "reaper"}
  BY <1>3 DEF Script, Call
<1> QED BY <1>1, <1>2, <1>3 DEF Kinds

\* Deleting at a busy thread's home only shrinks the store.
LEMMA DeleteShrinks ==
  ASSUME TypeOK, NEW pr, NEW s, Put(pr, s, None)
  PROVE  Shrinks
BY DEF TypeOK, Put, Shrinks

LEMMA RequestServer ==
  ASSUME NEW p \in Pods, TypeOK, Coherent, ServerInv(<<p, "main">>),
         NEW kind \in Kinds \ {"reaper"}, NEW s \in Sids, NEW k \in Keys,
         Request(p, kind, s, k)
  PROVE  ServerInv(<<p, "main">>)'
<1> DEFINE m == <<p, "main">>
           cs == Script(kind, k)
<1>1. m \in Procs
  BY DEF Procs
<1>2. Begin(m, kind, s, starts'[s], k)
  BY DEF Request
<1>3. /\ calls'[m] = cs /\ pc'[m] = Entry(cs)
      /\ job'[m] = [kind |-> kind, sid |-> s, gen |-> starts'[s]]
      /\ UNCHANGED <<store, ended>>
  BY <1>1, <1>2 DEF Begin, TypeOK, history
<1>4. cs \in Seq(Calls) /\ cs # <<>>
  BY ScriptCalls
<1>5. pc'[m] \notin Holding
  BY <1>3, <1>4, EntryStep
<1>6. /\ starts' \in [Sids -> Nat]
      /\ \A t \in Sids : starts[t] <= starts'[t]
      /\ kind = "session_start" => starts[s] < starts'[s]
  <2>1. \A t \in Sids : starts[t] \in Nat /\ starts[t] + 1 \in Nat /\ starts[t] <= starts[t]
    BY DEF TypeOK
  <2>2. CASE kind = "session_start"
    <3>1. starts' = [starts EXCEPT ![s] = starts[s] + 1]
      BY <2>2 DEF Request
    <3> QED BY <2>1, <3>1 DEF TypeOK
  <2>3. CASE kind # "session_start"
    <3>1. starts' = starts
      BY <2>3 DEF Request
    <3> QED BY <2>1, <2>3, <3>1 DEF TypeOK
  <2> QED BY <2>2, <2>3
<1>7. \A l \in Locations, t \in Sids : store[l][t] # None =>
        store[l][t].gen \in Nat /\ store[l][t].gen <= starts[t]
  BY DEF TypeOK, Session, ServerInv, Generations
<1>8. \A e \in ended : e.gen \in Nat /\ e.sid \in Sids /\ e.gen <= starts[e.sid]
  BY DEF TypeOK, ServerInv, Generations
<1>9. \A t \in Sids : starts[t] \in Nat /\ starts'[t] \in Nat
  BY <1>6 DEF TypeOK
<1>10. Generations'
  BY <1>3, <1>6, <1>7, <1>8, <1>9 DEF Generations
<1>11. OnePlace' /\ EndedStaysEnded'
  BY <1>3 DEF ServerInv, OnePlace, EndedStaysEnded
<1>12. HoldingLoaded(m)'
  BY <1>5 DEF HoldingLoaded, Holding
<1>13. Creating(m)'
  <2>1. \A i \in 1 .. Len(cs) : cs[i].op = "create" => i = 1
    BY OnlyStartCreates
  <2>2. ASSUME Head(cs).op = "create" PROVE kind = "session_start"
    BY <1>4, <2>2, OnlyStartCreates
  <2>3. ASSUME kind = "session_start"
        PROVE  /\ \A e \in ended : e.sid = s => e.gen < starts'[s]
               /\ \A l \in Locations : store[l][s] # None => store[l][s].gen < starts'[s]
    BY <1>6, <1>7, <1>8, <1>9, <2>3
  <2> QED BY <1>3, <1>5, <2>1, <2>2, <2>3 DEF Creating, Op, Sid, Holding
<1> QED BY <1>10, <1>11, <1>12, <1>13 DEF ServerInv

\* What the event loop's own steps do.
LEMMA MainServer ==
  ASSUME NEW p \in Pods, TypeOK, Coherent, ServerInv(<<p, "main">>),
         ThreadStep(<<p, "main">>)
  PROVE  ServerInv(<<p, "main">>)'
<1> DEFINE m == <<p, "main">>
<1>1. m \in Procs /\ Creating(m) /\ Shared
  BY DEF Procs, ServerInv, Shared
<1>2. CASE ListIds(m) \/ LookAt(m) \/ Reap(m)
  <2>1. Shrinks /\ UNCHANGED <<starts, ended, backend, job, calls>>
    BY <1>2, DeleteShrinks DEF ListIds, LookAt, Reap, Shrinks, boundVars, history
  <2>2. pc'[m] \in {"scan", "reap", "count"} /\ pc[m] \in {"keys", "scan", "reap"}
    BY <1>1, <1>2 DEF ListIds, LookAt, Reap, Goto, TypeOK
  <2>3. pc[m] # "idle"
    BY <2>2
  <2>4. Sid(m) \in Sids
    BY <1>1, <2>3 DEF Coherent, BusyThread
  <2>5. Creating(m)'
    BY <2>1, <2>2, <2>3, <2>4 DEF ServerInv, Creating, Op, Sid, Shrinks
  <2>6. HoldingLoaded(m)'
    BY <2>2 DEF HoldingLoaded
  <2> QED BY <1>1, <2>1, <2>5, <2>6, SharedKept DEF ServerInv, Shared
<1>3. CASE Count(m)
  <2>1. Shrinks /\ UNCHANGED <<store, starts, ended, backend>> /\ pc[m] = "count"
    BY <1>3 DEF Count, Shrinks, boundVars, history
  <2>2. CASE Op(m) \in {"purge", "list"}
    BY <1>1, <1>3, <2>1, <2>2, SharedKept, ReturnFree DEF Count, ServerInv, Shared
  <2>3. CASE Op(m) \notin {"purge", "list"}
    <3>1. pc'[m] = "load" /\ UNCHANGED <<job, calls>>
      BY <1>1, <1>3, <2>3 DEF Count, Goto, TypeOK
    <3>2. Creating(m)' /\ HoldingLoaded(m)'
      BY <2>1, <3>1 DEF ServerInv, Creating, HoldingLoaded, Op, Sid
    <3> QED BY <1>1, <2>1, <3>2, SharedKept DEF ServerInv, Shared
  <2> QED BY <2>2, <2>3
<1>4. CASE Load(m)
  <2> DEFINE x == Kept(m, Sid(m))
  <2>1. /\ Shrinks /\ UNCHANGED <<store, starts, ended, backend>> /\ pc[m] = "load"
    BY <1>4 DEF Load, Shrinks, boundVars, history
  <2>2. Op(m) # "purge" /\ pc[m] # "idle"
    BY <1>1, <2>1 DEF Coherent, BusyThread
  <2>3. CASE x = None
    <3>1. Missing(m) /\ store'[Home(m)][Sid(m)] = None
      BY <1>4, <2>1, <2>3 DEF Load, Kept
    <3> QED BY <1>1, <2>1, <3>1, MissingFree, SharedKept DEF ServerInv, Shared
  <2>4. CASE x # None /\ Expired(x)
    <3>1. pc'[m] = "drop" /\ UNCHANGED <<job, calls>>
      BY <1>1, <1>4, <2>4 DEF Load, Hold, Goto, TypeOK
    <3>2. Creating(m)' /\ HoldingLoaded(m)'
      BY <2>1, <3>1 DEF ServerInv, Creating, HoldingLoaded, Op, Sid
    <3> QED BY <1>1, <2>1, <3>2, SharedKept DEF ServerInv, Shared
  <2>5. CASE x # None /\ ~Expired(x)
    <3>1. Found(m, x)
      BY <1>4, <2>5 DEF Load
    <3> QED BY <1>1, <2>1, <2>5, <3>1, FoundFree, SharedKept DEF ServerInv, Shared
  <2> QED BY <2>3, <2>4, <2>5
<1>5. CASE DropExpired(m)
  <2>1. /\ Shrinks /\ UNCHANGED <<starts, ended, backend>> /\ pc[m] = "drop" /\ Missing(m)
    BY <1>5, DeleteShrinks DEF DropExpired, boundVars, history
  <2>2. Op(m) # "purge" /\ pc[m] # "idle"
    BY <1>1, <2>1 DEF Coherent, BusyThread
  <2>3. Sid(m) \in Sids /\ Home(m) \in Locations
    BY <1>1, <2>2, NotPurging, BusyHome
  <2>4. store'[Home(m)][Sid(m)] = None
    BY <1>5, <2>3 DEF DropExpired, Put, TypeOK
  <2> QED BY <1>1, <2>1, <2>4, MissingFree, SharedKept DEF ServerInv, Shared
<1>6. CASE Save(m)
  <2>1. Shared'
    BY <1>1, <1>6, SaveShared
  <2>2. pc[m] = "save" /\ UNCHANGED backend
    BY <1>6 DEF Save
  <2>3. CASE Op(m) = "create"
    <3>1. pc'[m] = "pgsave" /\ UNCHANGED <<job, calls>>
      BY <1>1, <1>6, <2>3 DEF Save, Hold, Goto, TypeOK
    <3>2. Creating(m)' /\ HoldingLoaded(m)'
      BY <3>1 DEF ServerInv, Creating, HoldingLoaded, Op
    <3> QED BY <2>1, <3>2 DEF ServerInv, Shared
  <2>4. CASE Op(m) # "create"
    BY <1>1, <1>6, <2>1, <2>2, <2>4, ReturnFree DEF Save, ServerInv, Shared
  <2> QED BY <2>3, <2>4
<1>7. CASE SaveMeta(m) \/ Metric(m)
  <2>1. /\ Shrinks /\ UNCHANGED <<starts, ended>> /\ pc[m] # "idle" /\ Return(m)
    BY <1>7 DEF SaveMeta, Metric, Shrinks, boundVars, history
  <2> QED BY <1>1, <2>1, SharedKept, ReturnFree DEF ServerInv, Shared
<1>8. CASE CloseMeta(m)
  <2>1. /\ Shrinks /\ UNCHANGED <<store, starts, ended, backend, job, calls>>
        /\ pc[m] = "pgclose" /\ pc'[m] = "delete" /\ reg'[m] = reg[m]
    BY <1>1, <1>8 DEF CloseMeta, Shrinks, Hold, Goto, TypeOK, boundVars, history
  <2>2. Creating(m)' /\ HoldingLoaded(m)'
    BY <2>1 DEF ServerInv, Creating, HoldingLoaded, Op, Sid, Home
  <2> QED BY <1>1, <2>1, <2>2, SharedKept DEF ServerInv, Shared
<1>9. CASE Delete(m)
  <2> DEFINE e == [sid |-> Sid(m), gen |-> reg[m].gen]
  <2>1. /\ Shrinks /\ UNCHANGED <<starts, backend>> /\ pc[m] = "delete"
        /\ ended' = ended \cup {e} /\ Return(m)
    BY <1>9, DeleteShrinks DEF Delete, boundVars
  <2>2. pc[m] # "idle" /\ Op(m) # "purge"
    BY <1>1, <2>1 DEF Coherent, BusyThread, Holding
  <2>3. Sid(m) \in Sids /\ Home(m) \in Locations
    BY <1>1, <2>2, NotPurging, BusyHome
  <2>4. store'[Home(m)][Sid(m)] = None
    BY <1>9, <2>3 DEF Delete, Put, TypeOK
  <2>5. Creating(m)' /\ HoldingLoaded(m)'
    BY <1>1, <2>1, <2>2, ReturnFree
  <2>6. Op(m) # "create" =>
          /\ reg[m].gen <= starts[Sid(m)]
          /\ \A l \in Locations : l # Home(m) /\ store[l][Sid(m)] # None =>
               store[l][Sid(m)].gen # reg[m].gen
    BY <2>1 DEF ServerInv, HoldingLoaded
  <2>7. Op(m) # "create"
    BY <2>1 DEF ServerInv, HoldingLoaded
  <2>8. Generations' /\ OnePlace'
    BY <2>1, <2>3, <2>6, <2>7 DEF ServerInv, Generations, OnePlace, Shrinks
  <2>9. EndedStaysEnded'
    BY <2>1, <2>3, <2>4, <2>6, <2>7 DEF ServerInv, EndedStaysEnded, Shrinks
  <2> QED BY <2>5, <2>8, <2>9 DEF ServerInv, Shared
<1> QED BY <1>2, <1>3, <1>4, <1>5, <1>6, <1>7, <1>8, <1>9 DEF ThreadStep

LEMMA ServerInvInit ==
  ASSUME NEW p \in Pods
  PROVE  Init => ServerInv(<<p, "main">>)
<1> DEFINE m == <<p, "main">>
<1>1. m \in Procs
  BY DEF Procs
<1> QED BY <1>1 DEF Init, ServerInv, Generations, OnePlace, EndedStaysEnded, Creating, HoldingLoaded

LEMMA ServerInvNext ==
  ASSUME NEW p \in Pods, Pods = {p}
  PROVE  ThreadInv /\ ServerInv(<<p, "main">>) /\ [Next]_vars => ServerInv(<<p, "main">>)'
<1> DEFINE m == <<p, "main">>
           r == <<p, "reaper">>
<1> SUFFICES ASSUME TypeOK, Coherent, ServerInv(m), [Next]_vars
             PROVE  ServerInv(m)'
  BY DEF ThreadInv
<1>1. /\ Procs = {m, r} /\ m # r /\ m \in Procs /\ r \in Procs
      /\ m[2] = "main" /\ r[2] = "reaper" /\ Pod(m) = p /\ Pod(r) = p
  BY DEF Procs, Pod
<1>2. pc[m] # "idle" => Sid(m) \in Sids /\ Home(m) \in Locations
  BY <1>1, BusyHome DEF Coherent, BusyThread
<1>3. ASSUME NEW kind \in Kinds \ {"reaper"}, NEW s \in Sids, NEW k \in Keys,
             Request(p, kind, s, k)
      PROVE  ServerInv(m)'
  BY <1>3, RequestServer
<1>4. CASE ReaperFires(p)
  <2>1. /\ Shrinks /\ UNCHANGED <<starts, ended>>
        /\ Begin(r, "reaper", None, 0, "-")
    BY <1>4 DEF ReaperFires, Begin, Shrinks, history
  <2>2. pc'[m] = pc[m] /\ job'[m] = job[m] /\ calls'[m] = calls[m] /\ reg'[m] = reg[m]
    BY <1>1, <2>1 DEF Begin, TypeOK
  <2>3. pc[m] # "idle" => Home(m)' = Home(m)
    <3>1. pc[m] # "idle" => backend[p] # None
      BY <1>1 DEF Coherent, BusyThread
    <3> QED BY <1>1, <2>1, <3>1 DEF Begin, ChooseBackend, Home
  <2> QED BY <1>2, <2>1, <2>2, <2>3, OthersKeep
<1>5. CASE ThreadStep(m)
  BY <1>5, MainServer
<1>6. CASE ThreadStep(r)
  <2>1. pc[r] # "idle" /\ UNCHANGED backend
    BY <1>6 DEF ThreadStep, ListIds, LookAt, Reap, Count, Load, DropExpired, Save,
                SaveMeta, CloseMeta, Delete, Metric
  <2>2. Op(r) = "purge"
    BY <1>1, <2>1, NotPurging
  <2>3. pc[r] \notin Holding \cup {"load", "drop"}
    BY <1>1, <2>1, <2>2 DEF Coherent, BusyThread
  <2>4. \/ ListIds(r) \/ LookAt(r) \/ Reap(r) \/ Metric(r)
        \/ Count(r)
    BY <1>6, <2>3 DEF ThreadStep, Load, DropExpired, Save, SaveMeta, CloseMeta, Delete, Holding
  <2>5. /\ Shrinks /\ UNCHANGED <<starts, ended>>
    BY <2>4, DeleteShrinks DEF ListIds, LookAt, Reap, Metric, Count, Shrinks, boundVars, history
  <2>6. pc'[m] = pc[m] /\ job'[m] = job[m] /\ calls'[m] = calls[m] /\ reg'[m] = reg[m]
    <3>1. CASE ListIds(r) \/ LookAt(r) \/ Reap(r)
      BY <1>1, <3>1 DEF ListIds, LookAt, Reap, Goto, TypeOK
    <3>2. CASE Metric(r) \/ Count(r)
      <4>1. Return(r)
        BY <2>2, <3>2 DEF Metric, Count
      <4> QED BY <1>1, <4>1 DEF Return, Resume, TypeOK
    <3> QED BY <2>4, <3>1, <3>2
  <2> QED BY <1>2, <2>1, <2>5, <2>6, OthersKeep DEF Home
<1>7. CASE Tick
  <2>1. Shrinks
    BY <1>7 DEF Tick, Shrinks, TypeOK
  <2> QED BY <1>2, <1>7, <2>1, OthersKeep DEF Tick, serverVars, boundVars, history, Home
<1>8. CASE RedisError(m)
  <2>1. /\ Shrinks /\ UNCHANGED <<starts, ended>> /\ pc[m] # "idle" /\ Raise(m)
    BY <1>8 DEF RedisError, BackendSteps, Shrinks, history
  <2> QED BY <1>1, <2>1, SharedKept, RaiseFree DEF ServerInv, Shared
<1>9. CASE RedisError(r)
  <2>1. /\ Shrinks /\ UNCHANGED <<starts, ended, backend>> /\ pc[r] # "idle" /\ Raise(r)
    BY <1>9 DEF RedisError, BackendSteps, Shrinks, history
  <2>2. pc'[m] = pc[m] /\ job'[m] = job[m] /\ calls'[m] = calls[m] /\ reg'[m] = reg[m]
    BY <1>1, <2>1 DEF Raise, Resume, TypeOK
  <2> QED BY <1>2, <2>1, <2>2, OthersKeep DEF Home
<1>10. CASE Restart(p)
  <2>1. Shrinks /\ UNCHANGED <<starts, ended>>
    BY <1>10 DEF Restart, Shrinks, TypeOK
  <2>2. pc'[m] = "idle" /\ calls'[m] = <<>>
    BY <1>1, <1>10 DEF Restart
  <2>3. Creating(m)' /\ HoldingLoaded(m)'
    BY <2>2 DEF Creating, HoldingLoaded
  <2> QED BY <2>1, <2>3, SharedKept DEF ServerInv, Shared
<1>11. CASE UNCHANGED vars
  <2>1. Shrinks
    BY <1>11 DEF vars, Shrinks
  <2> QED BY <1>2, <1>11, <2>1, OthersKeep DEF vars, serverVars, boundVars, history, Home
<1> QED BY <1>1, <1>3, <1>4, <1>5, <1>6, <1>7, <1>8, <1>9, <1>10, <1>11 DEF Next

\* With one server, whatever its reaper thread, Redis errors and restarts do, a
\* session that session_end closed is never stored again.
THEOREM EndedSessionsStayEnded ==
  ASSUME NEW p \in Pods, Pods = {p}
  PROVE  Spec => []EndedStaysEnded
<1>1. Init => ThreadInv /\ ServerInv(<<p, "main">>)
  BY ThreadInvInit, ServerInvInit
<1>2. ThreadInv /\ ServerInv(<<p, "main">>) /\ [Next]_vars
        => ThreadInv' /\ ServerInv(<<p, "main">>)'
  BY ThreadInvNext, ServerInvNext
<1>3. ServerInv(<<p, "main">>) => EndedStaysEnded
  BY DEF ServerInv
<1> QED BY <1>1, <1>2, <1>3, PTL DEF Spec

\* Every step but a save of the event loop only takes sessions away.
LEMMA ShrinkOrSave ==
  ASSUME NEW p \in Pods, Pods = {p}, TypeOK, Coherent, [Next]_vars
  PROVE  Shrinks \/ Save(<<p, "main">>)
<1> DEFINE m == <<p, "main">>
           r == <<p, "reaper">>
<1>1. Procs = {m, r} /\ r \in Procs /\ r[2] = "reaper"
  BY DEF Procs
<1>2. ~Save(r)
  <2>1. pc[r] = "save" => Op(r) # "purge"
    BY <1>1 DEF Coherent, BusyThread, Holding
  <2>2. pc[r] = "save" => pc[r] # "idle"
    OBVIOUS
  <2>3. pc[r] # "save"
    BY <1>1, <2>1, <2>2, NotPurging
  <2> QED BY <2>3 DEF Save
<1>3. ASSUME NEW pr \in Procs, ThreadStep(pr), ~Save(pr)
      PROVE  Shrinks
  <2>1. CASE Reap(pr) \/ DropExpired(pr) \/ Delete(pr)
    BY <2>1, DeleteShrinks DEF Reap, DropExpired, Delete
  <2>2. CASE UNCHANGED store
    BY <2>2 DEF Shrinks
  <2> QED BY <1>3, <2>1, <2>2
          DEF ThreadStep, ListIds, LookAt, Count, Load, SaveMeta, CloseMeta, Metric
<1>4. CASE Tick
  BY <1>4 DEF Tick, Shrinks, TypeOK
<1>5. ASSUME NEW q \in Pods, Restart(q)
      PROVE  Shrinks
  BY <1>5 DEF Restart, Shrinks, TypeOK
<1>6. ASSUME UNCHANGED store PROVE Shrinks
  BY <1>6 DEF Shrinks
<1>7. ASSUME NEW pr \in Procs, ThreadStep(pr) PROVE Shrinks \/ Save(m)
  BY <1>1, <1>2, <1>3, <1>7
<1>8. CASE \/ \E q \in Pods, kind \in Kinds \ {"reaper"}, s \in Sids, k \in Keys :
                Request(q, kind, s, k)
           \/ \E q \in Pods : ReaperFires(q)
           \/ \E pr \in Procs : RedisError(pr)
           \/ UNCHANGED vars
  BY <1>6, <1>8 DEF Request, ReaperFires, Begin, RedisError, vars
<1> QED BY <1>4, <1>5, <1>7, <1>8 DEF Next

\* A save of the event loop writes the session it replaces, if any: the check of
\* adapter.create cannot be overtaken.
LEMMA SaveKeepsSession ==
  ASSUME NEW m \in Procs, TypeOK, Coherent, ServerInv(m), Save(m)
  PROVE  /\ reg[m] \in Session
         /\ \A l \in Locations, s \in Sids :
              \/ store'[l][s] = store[l][s]
              \/ /\ store'[l][s] = Written(reg[m])
                 /\ store[l][s] # None => store'[l][s].gen = store[l][s].gen
<1> DEFINE w == Written(reg[m])
<1>1. pc[m] = "save" /\ reg[m] \in Session /\ Op(m) # "purge"
  BY DEF Save, TypeOK, Coherent, BusyThread, Holding
<1>2. Sid(m) \in Sids /\ Home(m) \in Locations
  BY <1>1, NotPurging, BusyHome
<1>3. w.gen = reg[m].gen
  BY <1>1 DEF Written, Session
<1>4. /\ store'[Home(m)][Sid(m)] = w
      /\ \A l \in Locations, t \in Sids :
           ~(l = Home(m) /\ t = Sid(m)) => store'[l][t] = store[l][t]
  BY <1>2 DEF Save, Put, TypeOK
<1>5. store[Home(m)][Sid(m)] # None => store[Home(m)][Sid(m)].gen = w.gen
  BY <1>1, <1>2, <1>3 DEF ServerInv, Creating, HoldingLoaded
<1> QED BY <1>1, <1>4, <1>5

(***************************************************************************)
(* One server: the steps, and how they move the event loop                 *)
(***************************************************************************)

Stands(m) ==
  /\ pc'[m] = pc[m] /\ job'[m] = job[m] /\ calls'[m] = calls[m] /\ reg'[m] = reg[m]

ReaperStep(r) == ListIds(r) \/ LookAt(r) \/ Reap(r) \/ ((Metric(r) \/ Count(r)) /\ Return(r))

LEMMA StepCases ==
  ASSUME NEW p \in Pods, Pods = {p}, TypeOK, Coherent, [Next]_vars
  PROVE  \/ \E kind \in Kinds \ {"reaper"}, s \in Sids, k \in Keys : Request(p, kind, s, k)
         \/ ReaperFires(p)
         \/ ThreadStep(<<p, "main">>)
         \/ ReaperStep(<<p, "reaper">>)
         \/ Tick
         \/ RedisError(<<p, "main">>)
         \/ RedisError(<<p, "reaper">>)
         \/ Restart(p)
         \/ UNCHANGED vars
<1> DEFINE m == <<p, "main">>
           r == <<p, "reaper">>
<1>1. Procs = {m, r} /\ r \in Procs /\ r[2] = "reaper"
  BY DEF Procs
<1>2. CASE ThreadStep(r)
  <2>1. pc[r] # "idle"
    BY <1>2 DEF ThreadStep, ListIds, LookAt, Reap, Count, Load, DropExpired, Save,
                SaveMeta, CloseMeta, Delete, Metric
  <2>2. Op(r) = "purge"
    BY <1>1, <2>1, NotPurging
  <2>3. pc[r] \notin Holding \cup {"load", "drop"}
    BY <1>1, <2>1, <2>2 DEF Coherent, BusyThread
  <2>4. ListIds(r) \/ LookAt(r) \/ Reap(r) \/ Metric(r) \/ Count(r)
    BY <1>2, <2>3 DEF ThreadStep, Load, DropExpired, Save, SaveMeta, CloseMeta, Delete, Holding
  <2>5. Metric(r) \/ Count(r) => Return(r)
    BY <2>2 DEF Metric, Count
  <2> QED BY <2>4, <2>5 DEF ReaperStep
<1> QED BY <1>1, <1>2 DEF Next

\* Steps of the reaper thread leave the event loop where it is.
LEMMA ReaperStands ==
  ASSUME NEW p \in Pods, TypeOK, Coherent,
         ReaperFires(p) \/ ReaperStep(<<p, "reaper">>) \/ RedisError(<<p, "reaper">>)
  PROVE  /\ Stands(<<p, "main">>)
         /\ pc[<<p, "main">>] # "idle" => backend'[p] = backend[p]
         /\ UNCHANGED <<now, meta, starts, acked, ended>>
         /\ ~Reap(<<p, "reaper">>) => UNCHANGED store
<1> DEFINE m == <<p, "main">>
           r == <<p, "reaper">>
<1>1. /\ m # r /\ m \in Procs /\ r \in Procs /\ Pod(m) = p /\ Pod(r) = p
  BY DEF Procs, Pod
<1>2. CASE ReaperFires(p)
  <2>1. Begin(r, "reaper", None, 0, "-") /\ UNCHANGED starts
    BY <1>2 DEF ReaperFires
  <2>2. Stands(m)
    BY <1>1, <2>1 DEF Begin, TypeOK, Stands
  <2>3. pc[m] # "idle" => backend'[p] = backend[p]
    <3>1. pc[m] # "idle" => backend[p] # None
      BY <1>1 DEF Coherent, BusyThread
    <3> QED BY <1>1, <2>1, <3>1 DEF Begin, ChooseBackend
  <2> QED BY <2>1, <2>2, <2>3 DEF Begin, history
<1>3. CASE ListIds(r) \/ LookAt(r) \/ Reap(r)
  <2>1. Stands(m)
    BY <1>1, <1>3 DEF ListIds, LookAt, Reap, Goto, TypeOK, Stands
  <2> QED BY <1>3, <2>1 DEF ListIds, LookAt, Reap, boundVars, history
<1>4. CASE (Metric(r) \/ Count(r)) /\ Return(r)
  <2>1. Stands(m)
    BY <1>1, <1>4 DEF Return, Resume, TypeOK, Stands
  <2> QED BY <1>4, <2>1 DEF Metric, Count, boundVars, history
<1>5. CASE RedisError(r)
  <2>1. Stands(m)
    BY <1>1, <1>5 DEF RedisError, Raise, Resume, TypeOK, Stands
  <2> QED BY <1>5, <2>1 DEF RedisError, history
<1> QED BY <1>2, <1>3, <1>4, <1>5 DEF ReaperStep

\* What a handler goes on with: later calls of its own, the gauge update that
\* ends a session_start, or the last call of a build_context.
Later(m, c) ==
  \/ \E j \in 2 .. Len(calls[m]) : c = calls[m][j]
  \/ c.op = "inc" /\ job[m].kind = "session_start"
  \/ c.op = "retrieve" /\ Op(m) = "guard"
GoesOn(m) ==
  /\ pc'[m] \notin Holding \cup {"reap", "drop"}
  /\ reg'[m] = None
  /\ calls'[m] \in Seq(Calls)
  /\ \A i \in 1 .. Len(calls'[m]) : Later(m, calls'[m][i])
  /\ pc'[m] = "idle" <=> calls'[m] = <<>>
  /\ job'[m] = IF calls'[m] = <<>> THEN Idle ELSE job[m]

LEMMA ResumeGoesOn ==
  ASSUME TypeOK, NEW m \in Procs, NEW cs \in Seq(Calls), Resume(m, cs),
         \A i \in 1 .. Len(cs) : Later(m, cs[i])
  PROVE  GoesOn(m)
<1>1. /\ pc'[m] = Entry(cs) /\ calls'[m] = cs /\ reg'[m] = None
      /\ job'[m] = IF cs = <<>> THEN Idle ELSE job[m]
  BY DEF Resume, TypeOK
<1> QED BY <1>1, EntryStep DEF GoesOn

LEMMA ReturnGoesOn ==
  ASSUME TypeOK, Coherent, NEW m \in Procs, pc[m] # "idle", Return(m)
  PROVE  GoesOn(m)
<1> DEFINE cs == Tail(calls[m])
<1>1. calls[m] \in Seq(Calls) /\ calls[m] # <<>>
  BY DEF TypeOK, Coherent, BusyThread
<1>2. cs \in Seq(Calls)
  BY <1>1, RestOfCalls
<1>3. \A i \in 1 .. Len(cs) : cs[i] = calls[m][i + 1] /\ i + 1 \in 2 .. Len(calls[m])
  BY <1>1
<1>4. \A i \in 1 .. Len(cs) : Later(m, cs[i])
  BY <1>3 DEF Later
<1> QED BY <1>2, <1>4, ResumeGoesOn DEF Return

LEMMA RaiseGoesOn ==
  ASSUME TypeOK, Coherent, NEW m \in Procs, pc[m] # "idle", Raise(m)
  PROVE  GoesOn(m)
<1> DEFINE rest == Recover(job[m].kind, calls[m])
<1>1. calls[m] \in Seq(Calls) /\ calls[m] # <<>>
  BY DEF TypeOK, Coherent, BusyThread
<1>2. rest \in Seq(Calls)
  BY <1>1, RecoverCalls
<1>3. \A i \in 1 .. Len(Tail(calls[m])) :
        Tail(calls[m])[i] = calls[m][i + 1] /\ i + 1 \in 2 .. Len(calls[m])
  BY <1>1
<1>4. \A i \in 1 .. Len(rest) : Later(m, rest[i])
  <2>1. CASE job[m].kind = "session_start" /\ rest = <<Call("inc", "-")>>
    BY <2>1 DEF Call, Later
  <2>2. CASE rest = Tail(calls[m])
    BY <1>1, <1>3, <2>2 DEF Later
  <2>3. CASE rest = <<>>
    BY <2>3
  <2> QED BY <2>1, <2>2, <2>3 DEF Recover
<1> QED BY <1>2, <1>4, ResumeGoesOn DEF Raise

LEMMA MissingGoesOn ==
  ASSUME TypeOK, Coherent, NEW m \in Procs, pc[m] # "idle", Missing(m), Op(m) # "create"
  PROVE  GoesOn(m)
<1>1. CASE Op(m) \in {"get", "close", "extend"}
  BY <1>1, ReturnGoesOn DEF Missing
<1>2. CASE Op(m) = "guard"
  <2> DEFINE rest == <<Call("retrieve", "_task_type")>>
  <2>1. Call("retrieve", "_task_type") \in Calls
    BY DEF Call, Calls, Keyed, Items, Internal
  <2>2. rest \in Seq(Calls) /\ \A i \in 1 .. Len(rest) : Later(m, rest[i])
    BY <1>2, <2>1 DEF Call, Later
  <2>3. Resume(m, rest)
    BY <1>2 DEF Missing
  <2> QED BY <2>2, <2>3, ResumeGoesOn
<1>3. CASE Op(m) \notin {"create", "get", "close", "extend", "guard"}
  BY <1>3, RaiseGoesOn DEF Missing
<1> QED BY <1>1, <1>2, <1>3

\* What a load that found a session does.
LEMMA FoundSplits ==
  ASSUME TypeOK, Coherent, NEW m \in Procs, pc[m] # "idle", NEW x, Found(m, x)
  PROVE  \/ GoesOn(m)
         \/ Op(m) = "close" /\ Hold(m, x, "pgclose")
         \/ /\ Op(m) \notin {"create", "get", "guard", "close"}
            /\ Hold(m, Modified(Head(calls[m]), x), "save")
<1>1. CASE Op(m) = "create"
  BY <1>1, RaiseGoesOn DEF Found
<1>2. CASE Op(m) \in {"get", "guard"}
  BY <1>2, ReturnGoesOn DEF Found
<1>3. CASE Op(m) \notin {"create", "get", "guard"}
  BY <1>3 DEF Found
<1> QED BY <1>1, <1>2, <1>3

LEMMA HoldIs ==
  ASSUME TypeOK, NEW m \in Procs, NEW x, NEW step, Hold(m, x, step)
  PROVE  pc'[m] = step /\ reg'[m] = x /\ UNCHANGED <<job, calls>>
BY DEF Hold, Goto, TypeOK

(***************************************************************************)
(* One server that keeps sessions in its own memory                        *)
(***************************************************************************)

OwnMemory(p) ==
  /\ backend[p] \in {None, p}
  /\ \A s \in Sids : store[Redis][s] = None

LEMMA HomeIsMemory ==
  ASSUME NEW p \in Pods, TypeOK, Coherent, OwnMemory(p), NEW q \in Procs, Pod(q) = p,
         pc[q] # "idle"
  PROVE  Home(q) = p /\ Home(q) # Redis
<1>1. backend[p] # None
  BY DEF Coherent, BusyThread
<1> QED BY <1>1, NamesAssumption DEF OwnMemory, Home

\* Nothing goes to Redis.
LEMMA MemoryStays ==
  ASSUME NEW p \in Pods, Pods = {p}, Homes = {"memory"}, TypeOK, Coherent, OwnMemory(p),
         [Next]_vars
  PROVE  OwnMemory(p)'
<1> DEFINE m == <<p, "main">>
<1>0. m \in Procs /\ Pod(m) = p
  BY DEF Procs, Pod
<1>1. \A s \in Sids : store'[Redis][s] = None
  <2>1. CASE Shrinks
    BY <2>1 DEF Shrinks, OwnMemory, Locations
  <2>2. CASE Save(m)
    <3>1. pc[m] # "idle"
      BY <2>2 DEF Save
    <3>2. Home(m) # Redis
      BY <1>0, <3>1, HomeIsMemory
    <3> QED BY <2>2, <3>2 DEF Save, Put, TypeOK, OwnMemory
  <2> QED BY <2>1, <2>2, ShrinkOrSave
<1>2. backend'[p] \in {None, p}
  <2>1. ASSUME ChooseBackend(p) PROVE backend'[p] \in {None, p}
    BY <2>1 DEF ChooseBackend, OwnMemory, TypeOK
  <2>2. ASSUME NEW kind \in Kinds \ {"reaper"}, NEW s \in Sids, NEW k \in Keys,
               Request(p, kind, s, k)
        PROVE  backend'[p] \in {None, p}
    BY <2>1, <2>2 DEF Request, Begin, Pod
  <2>3. CASE ReaperFires(p)
    BY <2>1, <2>3 DEF ReaperFires, Begin, Pod
  <2>4. CASE Restart(p)
    BY <2>4 DEF Restart, TypeOK
  <2>5. CASE UNCHANGED backend
    BY <2>5 DEF OwnMemory
  <2> QED BY <2>2, <2>3, <2>4, <2>5, StepCases
          DEF ThreadStep, ListIds, LookAt, Reap, Count, Load, DropExpired, Save, SaveMeta,
              CloseMeta, Delete, Metric, ReaperStep, Tick, RedisError, vars
<1> QED BY <1>1, <1>2 DEF OwnMemory

LEMMA OwnMemoryInit ==
  ASSUME NEW p \in Pods
  PROVE  Init => OwnMemory(p)
BY DEF Init, OwnMemory, Locations

(***************************************************************************)
(* What a handler may still do depends on the request it serves            *)
(***************************************************************************)

Writing == {"session_start", "session_store", "build_context", "add_context"}
Fits(c, kind) ==
  /\ c.op \in {"store", "add"} => kind \in Writing
  /\ c.op = "clear" => kind = "clear_context"
  /\ c.op = "close" => kind = "session_end"
  /\ c.op = "create" => kind = "session_start"
  /\ c.op = "extend" => kind = "extend_session"
  /\ kind = "session_store" => c.op = "store"

HandlerInv(m) ==
  /\ \A i \in 1 .. Len(calls[m]) : Fits(calls[m][i], job[m].kind)
  /\ IF pc[m] = "idle" THEN job[m] = Idle ELSE job[m].kind \in Requests \ {"reaper"}

LEMMA ScriptFits ==
  ASSUME NEW kind \in Kinds, NEW k
  PROVE  \A i \in 1 .. Len(Script(kind, k)) : Fits(Script(kind, k)[i], kind)
<1>1. CASE kind \in {"session_start", "session_end", "build_context"}
  BY <1>1 DEF Script, Call, Fits, Writing
<1>2. CASE kind \in {"session_store", "session_retrieve", "extend_session"}
  BY <1>2 DEF Script, Call, Fits, Writing
<1>3. CASE kind \in {"add_context", "clear_context", "list_active_sessions", "reaper"}
  BY <1>3 DEF Script, Call, Fits, Writing
<1> QED BY <1>1, <1>2, <1>3 DEF Kinds

\* A step of the event loop makes a call to its end or stays within it.
LEMMA MainMoves ==
  ASSUME TypeOK, Coherent, NEW m \in Procs, ThreadStep(m) \/ RedisError(m)
  PROVE  /\ pc[m] # "idle"
         /\ GoesOn(m) \/ (UNCHANGED <<job, calls>> /\ pc'[m] # "idle")
<1>1. pc[m] # "idle"
  BY DEF ThreadStep, ListIds, LookAt, Reap, Count, Load, DropExpired, Save,
         SaveMeta, CloseMeta, Delete, Metric, RedisError, BackendSteps
<1> DEFINE Goal == GoesOn(m) \/ (UNCHANGED <<job, calls>> /\ pc'[m] # "idle")
<1>2. CASE ListIds(m) \/ LookAt(m) \/ Reap(m)
  <2>1. UNCHANGED <<job, calls>>
    BY <1>2 DEF ListIds, LookAt, Reap
  <2>2. pc'[m] \in {"scan", "reap", "count"}
    BY <1>2 DEF ListIds, LookAt, Reap, Goto, TypeOK
  <2> QED BY <1>1, <2>1, <2>2
<1>3. CASE Count(m)
  <2>1. CASE Op(m) \in {"purge", "list"}
    BY <1>1, <1>3, <2>1, ReturnGoesOn DEF Count
  <2>2. CASE Op(m) \notin {"purge", "list"}
    BY <1>1, <1>3, <2>2 DEF Count, Goto, TypeOK
  <2> QED BY <2>1, <2>2
<1>4. ASSUME Missing(m) PROVE Goal
  <2>1. CASE Op(m) = "create"
    <3>1. Hold(m, NewSession(Sid(m), job[m].gen), "save")
      BY <1>4, <2>1 DEF Missing
    <3> QED BY <3>1, HoldIs
  <2>2. CASE Op(m) # "create"
    BY <1>1, <1>4, <2>2, MissingGoesOn
  <2> QED BY <2>1, <2>2
<1>5. CASE Load(m)
  <2> DEFINE x == Kept(m, Sid(m))
  <2>1. Missing(m) \/ Hold(m, x, "drop") \/ Found(m, x)
    BY <1>5 DEF Load
  <2>2. CASE Hold(m, x, "drop")
    <3>1. pc'[m] = "drop" /\ UNCHANGED <<job, calls>>
      BY <2>2, HoldIs
    <3> QED BY <1>1, <3>1
  <2>3. CASE Found(m, x)
    <3>1. ASSUME NEW y, NEW step \in {"pgclose", "save"}, Hold(m, y, step)
          PROVE  Goal
      BY <3>1, HoldIs
    <3> QED BY <1>1, <2>3, <3>1, FoundSplits
  <2> QED BY <1>1, <1>4, <2>1, <2>2, <2>3
<1>6. CASE DropExpired(m)
  BY <1>1, <1>4, <1>6 DEF DropExpired
<1>7. CASE Save(m)
  <2>1. Hold(m, reg[m], "pgsave") \/ Return(m)
    BY <1>7 DEF Save
  <2>2. CASE Hold(m, reg[m], "pgsave")
    <3>1. pc'[m] = "pgsave" /\ UNCHANGED <<job, calls>>
      BY <2>2, HoldIs
    <3> QED BY <1>1, <3>1
  <2> QED BY <1>1, <2>1, <2>2, ReturnGoesOn
<1>8. CASE CloseMeta(m)
  <2>1. Hold(m, reg[m], "delete")
    BY <1>8 DEF CloseMeta
  <2> QED BY <1>1, <2>1, HoldIs
<1>9. CASE SaveMeta(m) \/ Delete(m) \/ Metric(m)
  BY <1>1, <1>9, ReturnGoesOn DEF SaveMeta, Delete, Metric
<1>10. CASE RedisError(m)
  BY <1>1, <1>10, RaiseGoesOn DEF RedisError
<1> QED BY <1>1, <1>2, <1>3, <1>5, <1>6, <1>7, <1>8, <1>9, <1>10 DEF ThreadStep

LEMMA HandlerInit ==
  ASSUME NEW p \in Pods
  PROVE  Init => HandlerInv(<<p, "main">>)
<1>1. <<p, "main">> \in Procs
  BY DEF Procs
<1> QED BY <1>1 DEF Init, HandlerInv

LEMMA HandlerNext ==
  ASSUME NEW p \in Pods, Pods = {p}
  PROVE  ThreadInv /\ HandlerInv(<<p, "main">>) /\ [Next]_vars => HandlerInv(<<p, "main">>)'
<1> DEFINE m == <<p, "main">>
           r == <<p, "reaper">>
<1> SUFFICES ASSUME TypeOK, Coherent, HandlerInv(m), [Next]_vars
             PROVE  HandlerInv(m)'
  BY DEF ThreadInv
<1>0. m \in Procs /\ r \in Procs
  BY DEF Procs
<1>1. ASSUME NEW kind \in Kinds \ {"reaper"}, NEW s \in Sids, NEW k \in Keys,
             Request(p, kind, s, k)
      PROVE  HandlerInv(m)'
  <2> DEFINE cs == Script(kind, k)
  <2>1. kind \in Requests /\ Begin(m, kind, s, starts'[s], k)
    BY <1>1 DEF Request
  <2>2. calls'[m] = cs /\ pc'[m] = Entry(cs) /\ job'[m].kind = kind
    BY <1>0, <2>1 DEF Begin, TypeOK
  <2>3. cs \in Seq(Calls) /\ cs # <<>>
    BY ScriptCalls
  <2>4. pc'[m] # "idle"
    BY <2>2, <2>3, EntryStep
  <2>5. \A i \in 1 .. Len(cs) : Fits(cs[i], kind)
    BY ScriptFits
  <2> QED BY <2>1, <2>2, <2>4, <2>5 DEF HandlerInv
<1>2. CASE ThreadStep(m) \/ RedisError(m)
  <2>1. CASE GoesOn(m)
    <3>1. CASE calls'[m] = <<>>
      BY <2>1, <3>1 DEF GoesOn, HandlerInv
    <3>2. CASE calls'[m] # <<>>
      <4>1. job'[m] = job[m] /\ pc'[m] # "idle" /\ pc[m] # "idle"
        BY <1>0, <1>2, <2>1, <3>2, MainMoves DEF GoesOn
      <4>2. calls[m] \in Seq(Calls) /\ calls[m] # <<>>
        BY <1>0, <4>1, BusyHome
      <4>3. 1 \in 1 .. Len(calls[m]) /\ Head(calls[m]) = calls[m][1]
        BY <4>2
      <4>4. Op(m) = "guard" => job[m].kind # "session_store"
        BY <4>3 DEF HandlerInv, Fits, Op
      <4>5. \A c : Later(m, c) => Fits(c, job[m].kind)
        <5> SUFFICES ASSUME NEW c, Later(m, c) PROVE Fits(c, job[m].kind)
          OBVIOUS
        <5>1. CASE \E j \in 2 .. Len(calls[m]) : c = calls[m][j]
          <6>1. PICK j \in 2 .. Len(calls[m]) : c = calls[m][j]
            BY <5>1
          <6>2. Len(calls[m]) \in Nat
            BY <4>2
          <6>3. j \in 1 .. Len(calls[m])
            BY <6>1, <6>2
          <6> QED BY <6>1, <6>3 DEF HandlerInv
        <5>2. CASE c.op = "inc" /\ job[m].kind = "session_start"
          BY <5>2 DEF Fits
        <5>3. CASE c.op = "retrieve" /\ Op(m) = "guard"
          BY <4>4, <5>3 DEF Fits
        <5> QED BY <5>1, <5>2, <5>3 DEF Later
      <4>6. \A i \in 1 .. Len(calls'[m]) : Fits(calls'[m][i], job'[m].kind)
        BY <2>1, <4>1, <4>5 DEF GoesOn
      <4> QED BY <4>1, <4>6 DEF HandlerInv
    <3> QED BY <3>1, <3>2
  <2>2. CASE UNCHANGED <<job, calls>> /\ pc'[m] # "idle"
    BY <1>0, <1>2, <2>2, MainMoves DEF HandlerInv
  <2> QED BY <1>0, <1>2, <2>1, <2>2, MainMoves
<1>3. CASE Stands(m)
  BY <1>3 DEF Stands, HandlerInv
<1>4. CASE Tick \/ UNCHANGED vars
  <2>1. Stands(m)
    BY <1>4 DEF Tick, Stands, vars, serverVars
  <2> QED BY <1>3, <2>1
<1>5. CASE Restart(p)
  <2>1. pc'[m] = "idle" /\ job'[m] = Idle /\ calls'[m] = <<>>
    BY <1>0, <1>5 DEF Restart, Pod
  <2> QED BY <2>1 DEF HandlerInv
<1> QED BY <1>1, <1>2, <1>3, <1>4, <1>5, StepCases, ReaperStands

(***************************************************************************)
(* One server without extend_session: a session has one deadline.  Every    *)
(* copy of it (stored, in the hands of a thread, or in what session_store    *)
(* confirmed) carries the expires_at it was created with, so a purge that    *)
(* decided on an older copy decided right.                                  *)
(***************************************************************************)

Traces == [sid : Sids, gen : Nat, exp : Nat]
Image(x) == [sid |-> x.sid, gen |-> x.gen, exp |-> x.exp]

\* The sessions of which there is a copy somewhere.
Known(o) ==
  \/ \E l \in Locations, s \in Sids : store[l][s] # None /\ o = Image(store[l][s])
  \/ \E q \in Procs : reg[q] # None /\ o = Image(reg[q])
  \/ \E a \in acked : o = Image(a)
OnlyKnown == \A o \in Traces : Known(o)' => Known(o)

Labelled == \A l \in Locations, s \in Sids : store[l][s] # None => store[l][s].sid = s
HeldLabel(m) == pc[m] \in Holding => reg[m].sid = Sid(m)
Reaped == \A q \in Procs : pc[q] = "reap" => Expired(reg[q])
SameDeadline ==
  \A o, e \in Traces : Known(o) /\ Known(e) /\ o.sid = e.sid /\ o.gen = e.gen => o.exp = e.exp
Numbered == \A o \in Traces : Known(o) => 1 <= o.gen /\ o.gen <= starts[o.sid]

\* A start creates under a number of which there is no copy yet.
Fresh(m) ==
  pc[m] # "idle" /\ Op(m) = "create" /\ pc[m] # "pgsave" =>
    /\ 1 <= job[m].gen /\ job[m].gen <= starts[Sid(m)]
    /\ pc[m] # "save" => \A o \in Traces : Known(o) /\ o.sid = Sid(m) => o.gen < job[m].gen
    /\ \A a \in acked : a.sid = Sid(m) => a.gen < job[m].gen

DeadlineInv(m) ==
  Labelled /\ HeldLabel(m) /\ Reaped /\ SameDeadline /\ Numbered /\ Fresh(m)

LEMMA KnownCopies ==
  ASSUME TypeOK
  PROVE  /\ \A l \in Locations, s \in Sids : store[l][s] # None =>
              Image(store[l][s]) \in Traces /\ Known(Image(store[l][s]))
         /\ \A q \in Procs : reg[q] # None => Image(reg[q]) \in Traces /\ Known(Image(reg[q]))
         /\ \A a \in acked : Image(a) \in Traces /\ Known(Image(a))
<1>1. \A x \in Session : Image(x) \in Traces
  BY DEF Session, Traces, Image
<1>2. \A a \in Write : Image(a) \in Traces
  BY DEF Write, Traces, Image
<1>3. \A l \in Locations, s \in Sids : store[l][s] # None => store[l][s] \in Session
  BY DEF TypeOK
<1>4. \A q \in Procs : reg[q] # None => reg[q] \in Session
  BY DEF TypeOK
<1>5. \A a \in acked : a \in Write
  BY DEF TypeOK
<1> QED BY <1>1, <1>2, <1>3, <1>4, <1>5 DEF Known

LEMMA OnlyKnownFrom ==
  ASSUME \A l \in Locations, s \in Sids : store'[l][s] # None => Known(Image(store'[l][s])),
         \A q \in Procs : reg'[q] # None => Known(Image(reg'[q])),
         \A a \in acked' : Known(Image(a))
  PROVE  OnlyKnown
BY DEF OnlyKnown, Known

\* A step that makes no new copy keeps one deadline per session.
LEMMA KnownKept ==
  ASSUME SameDeadline, Numbered, OnlyKnown, UNCHANGED starts
  PROVE  SameDeadline' /\ Numbered'
BY DEF SameDeadline, Numbered, OnlyKnown

LEMMA ShrinksKnown ==
  ASSUME TypeOK, Shrinks, acked' \subseteq acked,
         \A q \in Procs : reg'[q] # None => Known(Image(reg'[q]))
  PROVE  OnlyKnown
<1>1. \A l \in Locations, s \in Sids : store'[l][s] # None => Known(Image(store'[l][s]))
  BY KnownCopies DEF Shrinks
<1>2. \A a \in acked' : Known(Image(a))
  BY KnownCopies
<1> QED BY <1>1, <1>2, OnlyKnownFrom

\* A thread's step leaves the other threads where they are.
LEMMA OthersStand ==
  ASSUME TypeOK, NEW pr \in Procs, ThreadStep(pr) \/ RedisError(pr)
  PROVE  \A q \in Procs : q # pr => Stands(q)
<1>1. ASSUME NEW cs, Resume(pr, cs) PROVE \A q \in Procs : q # pr => Stands(q)
  BY <1>1 DEF Resume, TypeOK, Stands
<1>2. ASSUME NEW x, NEW step, Hold(pr, x, step) PROVE \A q \in Procs : q # pr => Stands(q)
  BY <1>2 DEF Hold, Goto, TypeOK, Stands
<1>3. ASSUME Return(pr) \/ Raise(pr) PROVE \A q \in Procs : q # pr => Stands(q)
  BY <1>1, <1>3 DEF Return, Raise
<1>4. ASSUME Missing(pr) PROVE \A q \in Procs : q # pr => Stands(q)
  <2>1. \/ Hold(pr, NewSession(Sid(pr), job[pr].gen), "save") \/ Return(pr)
        \/ Resume(pr, <<Call("retrieve", "_task_type")>>) \/ Raise(pr)
    BY <1>4 DEF Missing
  <2> QED BY <1>1, <1>2, <1>3, <2>1
<1>5. ASSUME NEW x, Found(pr, x) PROVE \A q \in Procs : q # pr => Stands(q)
  <2>1. \/ Hold(pr, x, "pgclose") \/ Return(pr) \/ Raise(pr)
        \/ Hold(pr, Modified(Head(calls[pr]), x), "save")
    BY <1>5 DEF Found
  <2> QED BY <1>2, <1>3, <2>1
<1>6. CASE ListIds(pr) \/ LookAt(pr) \/ Reap(pr)
  BY <1>6 DEF ListIds, LookAt, Reap, Goto, TypeOK, Stands
<1>7. CASE Count(pr)
  <2>1. Return(pr) \/ (Goto(pr, "load") /\ UNCHANGED <<job, calls, reg>>)
    BY <1>7 DEF Count
  <2>2. CASE Goto(pr, "load") /\ UNCHANGED <<job, calls, reg>>
    BY <2>2 DEF Goto, TypeOK, Stands
  <2> QED BY <1>3, <2>1, <2>2
<1>8. CASE Load(pr)
  BY <1>2, <1>4, <1>5, <1>8 DEF Load
<1>9. CASE DropExpired(pr)
  BY <1>4, <1>9 DEF DropExpired
<1>10. CASE Save(pr)
  BY <1>2, <1>3, <1>10 DEF Save
<1>11. CASE CloseMeta(pr)
  BY <1>2, <1>11 DEF CloseMeta
<1>12. CASE SaveMeta(pr) \/ Delete(pr) \/ Metric(pr) \/ RedisError(pr)
  BY <1>3, <1>12 DEF SaveMeta, Delete, Metric, RedisError
<1> QED BY <1>6, <1>7, <1>8, <1>9, <1>10, <1>11, <1>12 DEF ThreadStep

\* So every copy a thread's step may add is the one that thread then holds.
LEMMA OneHolds ==
  ASSUME TypeOK, NEW pr \in Procs, ThreadStep(pr) \/ RedisError(pr), Shrinks,
         acked' \subseteq acked, reg'[pr] # None => Known(Image(reg'[pr]))
  PROVE  OnlyKnown
<1>1. \A q \in Procs : reg'[q] # None => Known(Image(reg'[q]))
  BY OthersStand, KnownCopies DEF Stands
<1> QED BY <1>1, ShrinksKnown

LEMMA ModifiedKeeps ==
  ASSUME NEW c, NEW x \in Session, c.op # "extend"
  PROVE  /\ Image(Modified(c, x)) = Image(x)
         /\ Modified(c, x).sid = x.sid
BY DEF Modified, Image, Session

LEMMA MainKnown ==
  ASSUME NEW p \in Pods, TypeOK, Coherent, DeadlineInv(<<p, "main">>),
         ThreadStep(<<p, "main">>) \/ RedisError(<<p, "main">>), Op(<<p, "main">>) # "extend"
  PROVE  \/ OnlyKnown
         \/ /\ pc[<<p, "main">>] \in {"load", "drop"}
            /\ Op(<<p, "main">>) = "create"
            /\ Hold(<<p, "main">>, NewSession(Sid(<<p, "main">>), job[<<p, "main">>].gen), "save")
            /\ Shrinks
            /\ UNCHANGED acked
<1> DEFINE m == <<p, "main">>
           new == NewSession(Sid(m), job[m].gen)
<1>0. m \in Procs /\ pc[m] # "idle"
  BY MainMoves DEF Procs
<1>1. /\ Home(m) \in Locations /\ calls[m] \in Seq(Calls) /\ calls[m] # <<>>
      /\ \A s \in Sids : Kept(m, s) \in Session \cup {None}
  BY <1>0, BusyHome
<1>2. ASSUME Shrinks, acked' = acked, reg'[m] # None => Known(Image(reg'[m]))
      PROVE  OnlyKnown
  BY <1>0, <1>2, OneHolds
<1>3. reg[m] # None => Known(Image(reg[m]))
  BY <1>0, KnownCopies
<1>4. \A s \in Sids : Kept(m, s) # None => Known(Image(Kept(m, s)))
  BY <1>1, KnownCopies DEF Kept
<1>5. ASSUME GoesOn(m), Shrinks, acked' = acked PROVE OnlyKnown
  BY <1>2, <1>5 DEF GoesOn
<1>6. CASE ListIds(m) \/ Reap(m)
  <2>1. Shrinks /\ acked' = acked /\ reg'[m] \in {reg[m], None}
    BY <1>0, <1>6, DeleteShrinks DEF ListIds, Reap, Shrinks, history, TypeOK
  <2> QED BY <1>2, <1>3, <2>1
<1>7. CASE LookAt(m)
  <2>1. Shrinks /\ acked' = acked
    BY <1>7 DEF LookAt, Shrinks, history
  <2>2. \/ reg'[m] = reg[m]
        \/ \E s \in Sids : Kept(m, s) # None /\ reg'[m] = Kept(m, s)
    <3>1. PICK s \in pend[m] :
            IF Kept(m, s) # None /\ Expired(Kept(m, s))
            THEN reg' = [reg EXCEPT ![m] = Kept(m, s)]
            ELSE UNCHANGED reg
      BY <1>7 DEF LookAt
    <3>2. s \in Sids
      BY <1>0 DEF TypeOK
    <3> QED BY <1>0, <3>1, <3>2 DEF TypeOK
  <2> QED BY <1>2, <1>3, <1>4, <2>1, <2>2
<1>8. CASE Count(m)
  <2>1. Shrinks /\ acked' = acked
    BY <1>8 DEF Count, Shrinks, history
  <2>2. CASE Op(m) \in {"purge", "list"}
    BY <1>0, <1>5, <1>8, <2>1, <2>2, ReturnGoesOn DEF Count
  <2>3. CASE Op(m) \notin {"purge", "list"}
    BY <1>2, <1>3, <1>8, <2>1, <2>3 DEF Count
  <2> QED BY <2>2, <2>3
<1>9. ASSUME Op(m) # "create", Missing(m), Shrinks, acked' = acked PROVE OnlyKnown
  BY <1>0, <1>5, <1>9, MissingGoesOn
<1>10. ASSUME Op(m) = "create", Missing(m) PROVE Hold(m, new, "save")
  BY <1>10 DEF Missing
<1>11. CASE Load(m)
  <2> DEFINE x == Kept(m, Sid(m))
  <2>1. Shrinks /\ acked' = acked /\ pc[m] = "load"
    BY <1>11 DEF Load, Shrinks, history
  <2>2. CASE x = None
    <3>1. Missing(m)
      BY <1>11, <2>2 DEF Load
    <3> QED BY <1>9, <1>10, <2>1, <3>1
  <2>3. Sid(m) \in Sids
    BY <1>0, <2>1, NotPurging DEF Coherent, BusyThread
  <2>4. CASE x # None /\ Expired(x)
    <3>1. Hold(m, x, "drop")
      BY <1>11, <2>4 DEF Load
    <3>2. reg'[m] = x
      BY <1>0, <3>1, HoldIs
    <3> QED BY <1>2, <1>4, <2>1, <2>3, <2>4, <3>2
  <2>5. CASE x # None /\ ~Expired(x)
    <3>1. Found(m, x) /\ x \in Session
      BY <1>1, <1>11, <2>3, <2>5 DEF Load
    <3>2. CASE GoesOn(m)
      BY <1>5, <2>1, <3>2
    <3>3. CASE Hold(m, x, "pgclose")
      <4>1. reg'[m] = x
        BY <1>0, <3>3, HoldIs
      <4> QED BY <1>2, <1>4, <2>1, <2>3, <2>5, <4>1
    <3>4. CASE Hold(m, Modified(Head(calls[m]), x), "save")
      <4>1. reg'[m] = Modified(Head(calls[m]), x)
        BY <1>0, <3>4, HoldIs
      <4>2. Image(reg'[m]) = Image(x)
        BY <3>1, <4>1, ModifiedKeeps DEF Op
      <4> QED BY <1>2, <1>4, <2>1, <2>3, <2>5, <4>2
    <3> QED BY <1>0, <3>1, <3>2, <3>3, <3>4, FoundSplits
  <2> QED BY <2>2, <2>4, <2>5
<1>12. CASE DropExpired(m)
  <2>1. Shrinks /\ acked' = acked /\ pc[m] = "drop" /\ Missing(m)
    BY <1>12, DeleteShrinks DEF DropExpired, history
  <2> QED BY <1>9, <1>10, <2>1
<1>13. CASE Save(m)
  <2>1. pc[m] = "save" /\ reg[m] \in Session /\ reg[m].sid = Sid(m) /\ Known(Image(reg[m]))
    BY <1>0, <1>3, <1>13, NoneAssumption
       DEF Save, TypeOK, Coherent, BusyThread, Holding, DeadlineInv, HeldLabel
  <2>2. Sid(m) \in Sids
    BY <1>0, <2>1, NotPurging DEF Coherent, BusyThread, Holding
  <2>3. Image(Written(reg[m])) = Image(reg[m])
    BY <2>1 DEF Written, Image, Session
  <2>4. \A l \in Locations, s \in Sids : store'[l][s] \in {store[l][s], Written(reg[m])}
    BY <1>13 DEF Save, Put, TypeOK
  <2>5. \A l \in Locations, s \in Sids : store'[l][s] # None => Known(Image(store'[l][s]))
    BY <2>1, <2>3, <2>4, KnownCopies
  <2>6. reg'[m] \in {reg[m], None}
    <3>1. CASE Op(m) = "create"
      BY <1>0, <1>13, <3>1, HoldIs DEF Save
    <3>2. CASE Op(m) # "create"
      BY <1>0, <1>13, <3>2, ReturnGoesOn DEF Save, GoesOn
    <3> QED BY <3>1, <3>2
  <2>7. \A q \in Procs : reg'[q] # None => Known(Image(reg'[q]))
    BY <1>0, <2>1, <2>6, OthersStand, KnownCopies DEF Stands
  <2>8. \A a \in acked' : Known(Image(a))
    <3> DEFINE new2 == [loc |-> Home(m), sid |-> Sid(m), gen |-> reg[m].gen,
                        exp |-> reg[m].exp, key |-> Head(calls[m]).key]
    <3>1. \A a \in acked' : a \in acked \/ a = new2
      BY <1>13 DEF Save
    <3>2. Image(new2) = Image(reg[m])
      BY <2>1 DEF Image
    <3> QED BY <2>1, <3>1, <3>2, KnownCopies
  <2> QED BY <2>5, <2>7, <2>8, OnlyKnownFrom
<1>14. CASE CloseMeta(m)
  <2>1. Shrinks /\ acked' = acked /\ Hold(m, reg[m], "delete")
    BY <1>14 DEF CloseMeta, Shrinks, history
  <2>2. reg'[m] = reg[m]
    BY <1>0, <2>1, HoldIs
  <2> QED BY <1>2, <1>3, <2>1, <2>2
<1>15. CASE SaveMeta(m) \/ Delete(m) \/ Metric(m) \/ RedisError(m)
  <2>1. Return(m) \/ Raise(m)
    BY <1>15 DEF SaveMeta, Delete, Metric, RedisError
  <2>2. Shrinks /\ acked' = acked
    BY <1>15, DeleteShrinks DEF SaveMeta, Delete, Metric, RedisError, Shrinks, history
  <2> QED BY <1>0, <1>5, <2>1, <2>2, ReturnGoesOn, RaiseGoesOn
<1> QED BY <1>6, <1>7, <1>8, <1>11, <1>12, <1>13, <1>14, <1>15 DEF ThreadStep

\* A handler that goes on without creating holds nothing and claims nothing.
LEMMA DeadlineGoesOn ==
  ASSUME NEW m \in Procs, Creating(m), GoesOn(m)
  PROVE  HeldLabel(m)' /\ Fresh(m)' /\ pc'[m] # "reap"
<1>1. ASSUME calls'[m] # <<>> PROVE Head(calls'[m]).op # "create"
  <2>1. 1 \in 1 .. Len(calls'[m]) /\ Head(calls'[m]) = calls'[m][1]
    BY <1>1 DEF GoesOn
  <2>2. Later(m, Head(calls'[m]))
    BY <2>1 DEF GoesOn
  <2> QED BY <2>2 DEF Later, Creating
<1> QED BY <1>1 DEF GoesOn, HeldLabel, Fresh, Op

LEMMA ReapedKept ==
  ASSUME Reaped, UNCHANGED now, NEW m \in Procs, \A q \in Procs : q # m => Stands(q),
         pc'[m] = "reap" => Expired(reg'[m]) \/ (pc[m] = "reap" /\ reg'[m] = reg[m])
  PROVE  Reaped'
BY DEF Reaped, Expired, Stands

LEMMA ReapedTick ==
  ASSUME TypeOK, Coherent, Reaped, Tick
  PROVE  Reaped'
<1>1. UNCHANGED <<pc, reg>> /\ now' = now + 1
  BY DEF Tick, serverVars
<1>2. \A q \in Procs : pc[q] = "reap" => reg[q] \in Session
  BY DEF Coherent, BusyThread, TypeOK
<1>3. \A q \in Procs : pc[q] = "reap" => reg[q].exp \in Nat
  BY <1>2 DEF Session
<1> QED BY <1>1, <1>3 DEF Reaped, Expired, TypeOK

LEMMA DeadlineMain ==
  ASSUME NEW p \in Pods, TypeOK, Coherent, ServerInv(<<p, "main">>),
         HandlerInv(<<p, "main">>), DeadlineInv(<<p, "main">>), Op(<<p, "main">>) # "extend",
         ThreadStep(<<p, "main">>) \/ RedisError(<<p, "main">>)
  PROVE  DeadlineInv(<<p, "main">>)'
<1> DEFINE m == <<p, "main">>
           new == NewSession(Sid(m), job[m].gen)
           Own == /\ HeldLabel(m)' /\ Fresh(m)'
                  /\ pc'[m] = "reap" => Expired(reg'[m]) \/ (pc[m] = "reap" /\ reg'[m] = reg[m])
<1>0. /\ m \in Procs /\ pc[m] # "idle" /\ Creating(m) /\ HoldingLoaded(m)
      /\ UNCHANGED <<now, starts>>
  BY MainMoves DEF Procs, ServerInv, ThreadStep, ListIds, LookAt, Reap, Count, Load,
     DropExpired, Save, SaveMeta, CloseMeta, Delete, Metric, RedisError, boundVars
<1>1. /\ Home(m) \in Locations /\ calls[m] \in Seq(Calls) /\ calls[m] # <<>>
      /\ \A s \in Sids : Kept(m, s) \in Session \cup {None}
  BY <1>0, BusyHome
<1>2. 1 \in 1 .. Len(calls[m]) /\ Head(calls[m]) = calls[m][1]
  BY <1>1
<1>3. Op(m) = "create" => job[m].kind = "session_start"
  BY <1>2 DEF HandlerInv, Fits, Op
<1>4. Labelled'
  <2>1. CASE Shrinks
    BY <2>1 DEF DeadlineInv, Labelled, Shrinks
  <2>2. CASE Save(m)
    <3>1. reg[m] \in Session /\ reg[m].sid = Sid(m)
      BY <1>0, <2>2 DEF Save, TypeOK, Coherent, BusyThread, Holding, DeadlineInv, HeldLabel
    <3>2. Written(reg[m]).sid = Sid(m)
      BY <3>1 DEF Written, Session
    <3>3. \A l \in Locations, s \in Sids :
            \/ store'[l][s] = store[l][s]
            \/ s = Sid(m) /\ store'[l][s] = Written(reg[m])
      BY <2>2 DEF Save, Put, TypeOK
    <3> QED BY <3>2, <3>3 DEF DeadlineInv, Labelled
  <2>3. CASE ~Save(m)
    <3>1. CASE Reap(m) \/ DropExpired(m) \/ Delete(m)
      BY <2>1, <3>1, DeleteShrinks DEF Reap, DropExpired, Delete
    <3>2. CASE UNCHANGED store
      BY <2>1, <3>2 DEF Shrinks
    <3> QED BY <2>3, <3>1, <3>2
        DEF ThreadStep, ListIds, LookAt, Count, Load, SaveMeta, CloseMeta, Metric, RedisError
  <2> QED BY <2>2, <2>3
<1>5. ASSUME OnlyKnown, Own PROVE DeadlineInv(m)'
  <2>1. Reaped'
    BY <1>0, <1>5, OthersStand, ReapedKept DEF DeadlineInv
  <2>2. SameDeadline' /\ Numbered'
    BY <1>0, <1>5, KnownKept DEF DeadlineInv
  <2> QED BY <1>4, <1>5, <2>1, <2>2 DEF DeadlineInv
<1>6. ASSUME Op(m) = "create", pc[m] \in {"load", "drop"}, Hold(m, new, "save"),
             Shrinks, UNCHANGED acked
      PROVE  DeadlineInv(m)'
  <2>1. pc'[m] = "save" /\ reg'[m] = new /\ UNCHANGED <<job, calls>>
    BY <1>0, <1>6, HoldIs
  <2>2. Sid(m) \in Sids
    BY <1>0, <1>6, NotPurging
  <2>3. new.sid = Sid(m) /\ new.gen = job[m].gen
    BY DEF NewSession
  <2>4. \A o \in Traces : Known(o)' => Known(o) \/ o = Image(new)
    <3>1. \A q \in Procs : reg'[q] # None => Known(Image(reg'[q])) \/ reg'[q] = new
      BY <1>0, <2>1, OthersStand, KnownCopies DEF Stands
    <3>2. \A l \in Locations, s \in Sids : store'[l][s] # None => Known(Image(store'[l][s]))
      BY <1>6, KnownCopies DEF Shrinks
    <3> QED BY <1>6, <3>1, <3>2 DEF Known
  <2>5. /\ 1 <= job[m].gen /\ job[m].gen <= starts[Sid(m)]
        /\ \A o \in Traces : Known(o) /\ o.sid = Sid(m) => o.gen < job[m].gen
        /\ \A a \in acked : a.sid = Sid(m) => a.gen < job[m].gen
    BY <1>0, <1>6 DEF DeadlineInv, Fresh
  <2>6. Image(new).sid = Sid(m) /\ Image(new).gen = job[m].gen
    BY <2>3 DEF Image
  <2>7. job[m].gen \in Nat
    BY <1>0 DEF TypeOK, Job
  <2>8. \A o \in Traces : o.gen \in Nat
    BY DEF Traces
  <2>9. \A o \in Traces : Known(o) /\ o.sid = Sid(m) => o.gen # job[m].gen
    BY <2>5, <2>7, <2>8
  <2>10. SameDeadline'
    BY <2>4, <2>6, <2>9 DEF DeadlineInv, SameDeadline
  <2>11. Numbered'
    BY <1>0, <2>4, <2>5, <2>6 DEF DeadlineInv, Numbered
  <2>12. HeldLabel(m)'
    BY <2>1, <2>3 DEF HeldLabel, Sid
  <2>13. Fresh(m)'
    BY <1>0, <1>6, <2>1, <2>5 DEF Fresh, Sid
  <2>14. Reaped'
    BY <1>0, <2>1, OthersStand, ReapedKept DEF DeadlineInv
  <2> QED BY <1>4, <2>10, <2>11, <2>12, <2>13, <2>14 DEF DeadlineInv
<1>7. ASSUME GoesOn(m) PROVE Own
  BY <1>0, <1>7, DeadlineGoesOn
<1>8. ASSUME OnlyKnown, UNCHANGED <<job, calls, acked>>,
             pc[m] \in {"keys", "scan", "reap", "count", "load"},
             pc'[m] \in {"scan", "reap", "count", "load", "drop"}
      PROVE  HeldLabel(m)' /\ Fresh(m)'
  BY <1>0, <1>8 DEF DeadlineInv, HeldLabel, Holding, Fresh, OnlyKnown, Op, Sid
<1>9. ASSUME ~(Hold(m, new, "save") /\ Op(m) = "create" /\ pc[m] \in {"load", "drop"})
      PROVE  OnlyKnown
  BY <1>9, MainKnown
<1>10. CASE ListIds(m) \/ LookAt(m) \/ Reap(m)
  <2>1. pc[m] \in {"keys", "scan", "reap"} /\ UNCHANGED <<job, calls, acked>>
    BY <1>10 DEF ListIds, LookAt, Reap, history
  <2>2. pc'[m] \in {"scan", "reap", "count"}
    BY <1>0, <1>10 DEF ListIds, LookAt, Reap, Goto, TypeOK
  <2>3. ASSUME pc'[m] = "reap" PROVE Expired(reg'[m])
    <3>1. LookAt(m)
      BY <1>0, <1>10, <2>3 DEF ListIds, Reap, Goto, TypeOK
    <3>2. PICK s \in pend[m] :
            IF Kept(m, s) # None /\ Expired(Kept(m, s))
            THEN reg' = [reg EXCEPT ![m] = Kept(m, s)]
            ELSE pc'[m] # "reap"
      BY <1>0, <3>1 DEF LookAt, Goto, TypeOK
    <3>3. reg'[m] = Kept(m, s) /\ Expired(Kept(m, s))
      BY <1>0, <2>3, <3>2 DEF TypeOK
    <3> QED BY <3>3 DEF Expired
  <2> QED BY <1>5, <1>8, <1>9, <2>1, <2>2, <2>3
<1>11. CASE Count(m)
  <2>1. pc[m] = "count" /\ UNCHANGED acked
    BY <1>11 DEF Count, history
  <2>2. CASE Op(m) \in {"purge", "list"}
    <3>1. GoesOn(m)
      BY <1>0, <1>11, <2>2, ReturnGoesOn DEF Count
    <3> QED BY <1>5, <1>7, <1>9, <2>1, <3>1
  <2>3. CASE Op(m) \notin {"purge", "list"}
    <3>1. pc'[m] = "load" /\ UNCHANGED <<job, calls>>
      BY <1>0, <1>11, <2>3 DEF Count, Goto, TypeOK
    <3> QED BY <1>5, <1>8, <1>9, <2>1, <3>1
  <2> QED BY <2>2, <2>3
<1>12. ASSUME pc[m] \in {"load", "drop"}, Missing(m), Shrinks, UNCHANGED acked
       PROVE  DeadlineInv(m)'
  <2>1. CASE Op(m) = "create"
    <3>1. Hold(m, new, "save")
      BY <1>12, <2>1 DEF Missing
    <3> QED BY <1>6, <1>12, <2>1, <3>1
  <2>2. CASE Op(m) # "create"
    <3>1. GoesOn(m)
      BY <1>0, <1>12, <2>2, MissingGoesOn
    <3> QED BY <1>5, <1>7, <1>9, <2>2, <3>1
  <2> QED BY <2>1, <2>2
<1>13. CASE Load(m)
  <2> DEFINE x == Kept(m, Sid(m))
  <2>1. Shrinks /\ UNCHANGED acked /\ pc[m] = "load"
    BY <1>13 DEF Load, Shrinks, history
  <2>2. CASE x = None
    <3>1. Missing(m)
      BY <1>13, <2>2 DEF Load
    <3> QED BY <1>12, <2>1, <3>1
  <2>3. Sid(m) \in Sids
    BY <1>0, <2>1, NotPurging DEF Coherent, BusyThread
  <2>4. CASE x # None /\ Expired(x)
    <3>1. Hold(m, x, "drop")
      BY <1>13, <2>4 DEF Load
    <3>2. pc'[m] = "drop" /\ UNCHANGED <<job, calls>>
      BY <1>0, <3>1, HoldIs
    <3>3. ~Hold(m, new, "save")
      <4>1. Hold(m, new, "save") => pc'[m] = "save"
        BY <1>0, HoldIs
      <4> QED BY <3>2, <4>1
    <3> QED BY <1>5, <1>8, <1>9, <2>1, <3>2, <3>3
  <2>5. CASE x # None /\ ~Expired(x)
    <3>1. Found(m, x) /\ x \in Session
      BY <1>1, <1>13, <2>3, <2>5 DEF Load
    <3>2. x.sid = Sid(m)
      BY <1>1, <2>3, <2>5 DEF DeadlineInv, Labelled, Kept
    <3>3. CASE GoesOn(m)
      <4>1. ~Hold(m, new, "save")
        <5>1. Hold(m, new, "save") => pc'[m] = "save"
          BY <1>0, HoldIs
        <5> QED BY <3>3, <5>1 DEF GoesOn, Holding
      <4> QED BY <1>5, <1>7, <1>9, <3>3, <4>1
    <3>4. CASE Op(m) = "close" /\ Hold(m, x, "pgclose")
      <4>1. pc'[m] = "pgclose" /\ reg'[m] = x /\ UNCHANGED <<job, calls>>
        BY <1>0, <3>4, HoldIs
      <4>2. HeldLabel(m)' /\ Fresh(m)'
        BY <3>2, <3>4, <4>1 DEF HeldLabel, Fresh, Op, Sid
      <4> QED BY <1>5, <1>9, <3>4, <4>1, <4>2
    <3>5. CASE /\ Op(m) \notin {"create", "get", "guard", "close"}
               /\ Hold(m, Modified(Head(calls[m]), x), "save")
      <4>1. /\ pc'[m] = "save" /\ reg'[m] = Modified(Head(calls[m]), x)
            /\ UNCHANGED <<job, calls>>
        BY <1>0, <3>5, HoldIs
      <4>2. reg'[m].sid = Sid(m)
        BY <3>1, <3>2, <4>1, ModifiedKeeps DEF Op
      <4>3. HeldLabel(m)' /\ Fresh(m)'
        BY <3>5, <4>1, <4>2 DEF HeldLabel, Fresh, Op, Sid
      <4> QED BY <1>5, <1>9, <3>5, <4>1, <4>3
    <3> QED BY <1>0, <3>1, <3>3, <3>4, <3>5, FoundSplits
  <2> QED BY <2>2, <2>4, <2>5
<1>14. CASE DropExpired(m)
  <2>1. Shrinks /\ UNCHANGED acked /\ pc[m] = "drop" /\ Missing(m)
    BY <1>14, DeleteShrinks DEF DropExpired, history
  <2> QED BY <1>12, <2>1
<1>15. CASE Save(m)
  <2>1. pc[m] = "save" /\ reg[m].sid = Sid(m)
    BY <1>15 DEF Save, DeadlineInv, HeldLabel, Holding
  <2>2. CASE Op(m) = "create"
    <3>1. Hold(m, reg[m], "pgsave")
      BY <1>15, <2>2 DEF Save
    <3>2. pc'[m] = "pgsave" /\ reg'[m] = reg[m] /\ UNCHANGED <<job, calls>>
      BY <1>0, <3>1, HoldIs
    <3>3. HeldLabel(m)' /\ Fresh(m)'
      BY <2>1, <3>2 DEF HeldLabel, Fresh, Sid
    <3> QED BY <1>5, <1>9, <2>1, <3>2, <3>3
  <2>3. CASE Op(m) # "create"
    <3>1. GoesOn(m)
      BY <1>0, <1>15, <2>3, ReturnGoesOn DEF Save
    <3> QED BY <1>5, <1>7, <1>9, <2>1, <3>1
  <2> QED BY <2>2, <2>3
<1>16. CASE CloseMeta(m)
  <2>1. pc[m] = "pgclose" /\ Hold(m, reg[m], "delete")
    BY <1>16 DEF CloseMeta
  <2>2. pc'[m] = "delete" /\ reg'[m] = reg[m] /\ UNCHANGED <<job, calls>>
    BY <1>0, <2>1, HoldIs
  <2>3. HeldLabel(m)'
    BY <2>1, <2>2 DEF DeadlineInv, HeldLabel, Holding, Sid
  <2>4. Fresh(m)'
    BY <1>0, <2>1, <2>2 DEF HoldingLoaded, Fresh, Op
  <2> QED BY <1>5, <1>9, <2>1, <2>2, <2>3, <2>4
<1>17. CASE SaveMeta(m) \/ Delete(m) \/ Metric(m) \/ RedisError(m)
  <2>1. GoesOn(m)
    BY <1>0, <1>17, ReturnGoesOn, RaiseGoesOn DEF SaveMeta, Delete, Metric, RedisError
  <2>2. ~Hold(m, new, "save")
    <3>1. Hold(m, new, "save") => pc'[m] = "save"
      BY <1>0, HoldIs
    <3> QED BY <2>1, <3>1 DEF GoesOn, Holding
  <2> QED BY <1>5, <1>7, <1>9, <2>1, <2>2
<1> QED BY <1>10, <1>11, <1>13, <1>14, <1>15, <1>16, <1>17 DEF ThreadStep

LEMMA DeadlineRequest ==
  ASSUME NEW p \in Pods, TypeOK, Coherent, DeadlineInv(<<p, "main">>),
         NEW kind \in Kinds \ {"reaper"}, NEW s \in Sids, NEW k \in Keys,
         Request(p, kind, s, k)
  PROVE  DeadlineInv(<<p, "main">>)'
<1> DEFINE m == <<p, "main">>
           cs == Script(kind, k)
<1>1. m \in Procs
  BY DEF Procs
<1>2. Begin(m, kind, s, starts'[s], k)
  BY DEF Request
<1>3. /\ calls'[m] = cs /\ pc'[m] = Entry(cs) /\ pc[m] = "idle"
      /\ job'[m] = [kind |-> kind, sid |-> s, gen |-> starts'[s]]
      /\ UNCHANGED <<store, reg, acked, now>>
      /\ \A q \in Procs : q # m => pc'[q] = pc[q]
  BY <1>1, <1>2 DEF Begin, TypeOK, history
<1>4. cs \in Seq(Calls) /\ cs # <<>>
  BY ScriptCalls
<1>5. pc'[m] \notin Holding \cup {"reap", "drop"}
  BY <1>3, <1>4, EntryStep
<1>6. /\ \A t \in Sids : starts[t] \in Nat /\ starts'[t] \in Nat /\ starts[t] <= starts'[t]
      /\ kind = "session_start" => starts'[s] = starts[s] + 1
  <2>1. \A t \in Sids : starts[t] \in Nat /\ starts[t] + 1 \in Nat /\ starts[t] <= starts[t] + 1
    BY DEF TypeOK
  <2>2. CASE kind = "session_start"
    <3>1. starts' = [starts EXCEPT ![s] = starts[s] + 1]
      BY <2>2 DEF Request
    <3> QED BY <2>1, <3>1 DEF TypeOK
  <2>3. CASE kind # "session_start"
    <3>1. starts' = starts
      BY <2>3 DEF Request
    <3> QED BY <2>1, <2>3, <3>1 DEF TypeOK
  <2> QED BY <2>2, <2>3
<1>7. \A o \in Traces : Known(o)' <=> Known(o)
  BY <1>3 DEF Known
<1>8. Labelled' /\ SameDeadline'
  BY <1>3, <1>7 DEF DeadlineInv, Labelled, SameDeadline
<1>9. \A o \in Traces : o.gen \in Nat /\ o.sid \in Sids
  BY DEF Traces
<1>10. Numbered'
  <2> SUFFICES ASSUME NEW o \in Traces, Known(o)
               PROVE  1 <= o.gen /\ o.gen <= starts'[o.sid]
    BY <1>7 DEF Numbered
  <2>1. 1 <= o.gen /\ o.gen <= starts[o.sid]
    BY DEF DeadlineInv, Numbered
  <2> QED BY <1>6, <1>9, <2>1
<1>11. Reaped'
  BY <1>3, <1>5 DEF DeadlineInv, Reaped, Expired
<1>12. HeldLabel(m)'
  BY <1>5 DEF HeldLabel
<1>13. Fresh(m)'
  <2> SUFFICES ASSUME Head(cs).op = "create"
               PROVE  /\ 1 <= starts'[s]
                      /\ \A o \in Traces : Known(o) /\ o.sid = s => o.gen < starts'[s]
                      /\ \A a \in acked : a.sid = s => a.gen < starts'[s]
    BY <1>3, <1>7, <1>6 DEF Fresh, Op, Sid
  <2>1. 1 \in 1 .. Len(cs) /\ Head(cs) = cs[1]
    BY <1>4
  <2>2. kind = "session_start"
    BY <2>1, OnlyStartCreates
  <2>3. starts[s] \in Nat /\ starts'[s] = starts[s] + 1
    BY <1>6, <2>2
  <2>4. \A o \in Traces : Known(o) /\ o.sid = s => o.gen < starts'[s]
    BY <1>9, <2>3 DEF DeadlineInv, Numbered
  <2>5. \A a \in acked : a.sid = s => a.gen < starts'[s]
    <3> SUFFICES ASSUME NEW a \in acked, a.sid = s PROVE a.gen < starts'[s]
      OBVIOUS
    <3>1. Image(a) \in Traces /\ Known(Image(a))
      BY KnownCopies
    <3> QED BY <2>4, <3>1 DEF Image
  <2> QED BY <2>3, <2>4, <2>5
<1> QED BY <1>8, <1>10, <1>11, <1>12, <1>13 DEF DeadlineInv

LEMMA DeadlineInit ==
  ASSUME NEW p \in Pods
  PROVE  Init => DeadlineInv(<<p, "main">>)
<1> SUFFICES ASSUME Init PROVE DeadlineInv(<<p, "main">>)
  OBVIOUS
<1>1. <<p, "main">> \in Procs
  BY DEF Procs
<1>2. \A o \in Traces : ~Known(o)
  BY DEF Init, Known
<1>3. SameDeadline /\ Numbered
  BY <1>2 DEF SameDeadline, Numbered
<1>4. Labelled /\ Reaped
  BY DEF Init, Labelled, Reaped
<1>5. HeldLabel(<<p, "main">>) /\ Fresh(<<p, "main">>)
  BY <1>1 DEF Init, HeldLabel, Fresh, Holding
<1> QED BY <1>3, <1>4, <1>5 DEF DeadlineInv

\* Without extend_session in the clients' requests no handler extends.
LEMMA NeverExtends ==
  ASSUME TypeOK, Coherent, NEW m \in Procs, HandlerInv(m), pc[m] # "idle"
  PROVE  /\ "extend_session" \notin Requests => Op(m) # "extend"
         /\ "clear_context" \notin Requests => Op(m) # "clear"
<1>1. calls[m] \in Seq(Calls) /\ calls[m] # <<>>
  BY BusyHome
<1>2. 1 \in 1 .. Len(calls[m]) /\ Head(calls[m]) = calls[m][1]
  BY <1>1
<1> QED BY <1>2 DEF HandlerInv, Fits, Op

LEMMA DeadlineNext ==
  ASSUME NEW p \in Pods, Pods = {p}, "extend_session" \notin Requests
  PROVE  ThreadInv /\ ServerInv(<<p, "main">>) /\ HandlerInv(<<p, "main">>)
           /\ DeadlineInv(<<p, "main">>) /\ [Next]_vars => DeadlineInv(<<p, "main">>)'
<1> DEFINE m == <<p, "main">>
           r == <<p, "reaper">>
<1> SUFFICES ASSUME TypeOK, Coherent, ServerInv(m), HandlerInv(m), DeadlineInv(m), [Next]_vars
             PROVE  DeadlineInv(m)'
  BY DEF ThreadInv
<1>0. Procs = {m, r} /\ m # r /\ m \in Procs /\ r \in Procs
  BY DEF Procs
<1>1. ASSUME OnlyKnown, Shrinks, acked' \subseteq acked, UNCHANGED starts, Stands(m), Reaped'
      PROVE  DeadlineInv(m)'
  <2>1. SameDeadline' /\ Numbered'
    BY <1>1, KnownKept DEF DeadlineInv
  <2>2. Labelled'
    BY <1>1 DEF DeadlineInv, Labelled, Shrinks
  <2>3. HeldLabel(m)'
    BY <1>1 DEF DeadlineInv, HeldLabel, Stands, Sid
  <2>4. Fresh(m)'
    BY <1>1 DEF DeadlineInv, Fresh, Stands, Sid, Op, OnlyKnown
  <2> QED BY <1>1, <2>1, <2>2, <2>3, <2>4 DEF DeadlineInv
<1>2. ASSUME NEW kind \in Kinds \ {"reaper"}, NEW s \in Sids, NEW k \in Keys,
             Request(p, kind, s, k)
      PROVE  DeadlineInv(m)'
  BY <1>2, DeadlineRequest
<1>3. CASE ThreadStep(m) \/ RedisError(m)
  <2>1. pc[m] # "idle"
    BY <1>0, <1>3, MainMoves
  <2>2. Op(m) # "extend"
    BY <1>0, <2>1, NeverExtends
  <2> QED BY <1>3, <2>2, DeadlineMain
<1>4. CASE ReaperFires(p) \/ ReaperStep(r) \/ RedisError(r)
  <2>1. /\ Stands(m) /\ UNCHANGED <<now, starts, acked>>
        /\ ~Reap(r) => UNCHANGED store
    BY <1>4, ReaperStands
  <2>2. Shrinks
    <3>1. CASE Reap(r)
      BY <3>1, DeleteShrinks DEF Reap
    <3> QED BY <2>1, <3>1 DEF Shrinks
  <2>3. /\ reg'[r] # None => Known(Image(reg'[r]))
        /\ pc'[r] = "reap" => Expired(reg'[r]) \/ (pc[r] = "reap" /\ reg'[r] = reg[r])
    <3>1. CASE LookAt(r)
      <4>1. PICK s \in pend[r] :
              IF Kept(r, s) # None /\ Expired(Kept(r, s))
              THEN reg' = [reg EXCEPT ![r] = Kept(r, s)]
              ELSE UNCHANGED reg /\ pc'[r] # "reap"
        BY <1>0, <3>1 DEF LookAt, Goto, TypeOK
      <4>2. s \in Sids /\ Home(r) \in Locations
        <5>1. pc[r] # "idle"
          BY <3>1 DEF LookAt
        <5> QED BY <1>0, <4>1, <5>1, BusyHome DEF TypeOK
      <4>3. CASE Kept(r, s) # None /\ Expired(Kept(r, s))
        <5>1. reg'[r] = Kept(r, s)
          BY <1>0, <4>1, <4>3 DEF TypeOK
        <5> QED BY <4>2, <4>3, <5>1, KnownCopies DEF Kept
      <4>4. CASE ~(Kept(r, s) # None /\ Expired(Kept(r, s)))
        BY <1>0, <4>1, <4>4, KnownCopies
      <4> QED BY <4>3, <4>4
    <3>2. CASE ListIds(r) \/ Reap(r)
      BY <1>0, <3>2, KnownCopies DEF ListIds, Reap, Goto, TypeOK
    <3>3. CASE ReaperFires(p)
      <4>1. Begin(r, "reaper", None, 0, "-")
        BY <3>3 DEF ReaperFires
      <4>2. UNCHANGED reg /\ pc'[r] = Entry(Script("reaper", "-"))
        BY <1>0, <4>1 DEF Begin, TypeOK
      <4> QED BY <1>0, <4>2, EntryStep, ReaperScript, KnownCopies
    <3>4. CASE ((Metric(r) \/ Count(r)) /\ Return(r)) \/ RedisError(r)
      <4>1. pc[r] # "idle" /\ (Return(r) \/ Raise(r))
        BY <3>4 DEF Metric, Count, RedisError, BackendSteps
      <4>2. GoesOn(r)
        BY <1>0, <4>1, ReturnGoesOn, RaiseGoesOn
      <4> QED BY <4>2 DEF GoesOn
    <3> QED BY <1>4, <3>1, <3>2, <3>3, <3>4 DEF ReaperStep
  <2>4. \A q \in Procs : q # r => Stands(q)
    BY <1>0, <2>1
  <2>5. Reaped'
    BY <1>0, <2>1, <2>3, <2>4, ReapedKept DEF DeadlineInv
  <2>6. \A q \in Procs : reg'[q] # None => Known(Image(reg'[q]))
    BY <1>0, <2>1, <2>3, KnownCopies DEF Stands
  <2>7. OnlyKnown
    BY <2>1, <2>2, <2>6, ShrinksKnown
  <2> QED BY <1>1, <2>1, <2>2, <2>5, <2>7
<1>5. CASE Tick
  <2>1. Shrinks /\ UNCHANGED <<starts, acked, reg>> /\ Stands(m)
    BY <1>5 DEF Tick, Shrinks, TypeOK, Stands, serverVars, boundVars, history
  <2>2. OnlyKnown
    BY <2>1, ShrinksKnown, KnownCopies
  <2>3. Reaped'
    BY <1>5, ReapedTick DEF DeadlineInv
  <2> QED BY <1>1, <2>1, <2>2, <2>3
<1>6. CASE Restart(p)
  <2>1. Shrinks /\ UNCHANGED starts /\ acked' \subseteq acked
    BY <1>6 DEF Restart, Shrinks, TypeOK
  <2>2. \A q \in Procs : pc'[q] = "idle" /\ reg'[q] = None
    BY <1>0, <1>6 DEF Restart, Pod
  <2>3. OnlyKnown
    BY <2>1, <2>2, ShrinksKnown
  <2>4. SameDeadline' /\ Numbered'
    BY <2>1, <2>3, KnownKept DEF DeadlineInv
  <2>5. Labelled'
    BY <2>1 DEF DeadlineInv, Labelled, Shrinks
  <2>6. HeldLabel(m)' /\ Fresh(m)' /\ Reaped'
    BY <1>0, <2>2 DEF HeldLabel, Fresh, Reaped, Holding
  <2> QED BY <2>4, <2>5, <2>6 DEF DeadlineInv
<1>7. CASE UNCHANGED vars
  <2>1. Shrinks /\ UNCHANGED <<starts, acked, reg, pc, now>> /\ Stands(m)
    BY <1>7 DEF Shrinks, Stands, vars, serverVars, boundVars, history
  <2>2. OnlyKnown
    BY <2>1, ShrinksKnown, KnownCopies
  <2>3. Reaped'
    BY <2>1 DEF DeadlineInv, Reaped, Expired
  <2> QED BY <1>1, <2>1, <2>2, <2>3
<1> QED BY <1>2, <1>3, <1>4, <1>5, <1>6, <1>7, StepCases

\* Two copies of a session are copies with one deadline.
LEMMA OneDeadline ==
  ASSUME NEW m, TypeOK, DeadlineInv(m), NEW q \in Procs, reg[q] # None,
         NEW l \in Locations, store[l][reg[q].sid] # None, starts[reg[q].sid] <= 1
  PROVE  /\ store[l][reg[q].sid].exp = reg[q].exp
         /\ store[l][reg[q].sid].gen = reg[q].gen
<1> DEFINE y == store[l][reg[q].sid]
<1>1. reg[q] \in Session /\ reg[q].sid \in Sids
  BY DEF TypeOK, Session
<1>2. y.sid = reg[q].sid
  BY <1>1 DEF DeadlineInv, Labelled
<1>3. /\ Image(y) \in Traces /\ Known(Image(y))
      /\ Image(reg[q]) \in Traces /\ Known(Image(reg[q]))
  BY <1>1, KnownCopies
<1>4. /\ Image(y).sid = y.sid /\ Image(y).gen = y.gen /\ Image(y).exp = y.exp
      /\ Image(reg[q]).sid = reg[q].sid /\ Image(reg[q]).gen = reg[q].gen
      /\ Image(reg[q]).exp = reg[q].exp
  BY DEF Image
<1>5. 1 <= y.gen /\ y.gen <= starts[reg[q].sid] /\ y.gen \in Nat
  BY <1>2, <1>3, <1>4 DEF DeadlineInv, Numbered, Traces
<1>6. 1 <= reg[q].gen /\ reg[q].gen <= starts[reg[q].sid] /\ reg[q].gen \in Nat
  BY <1>3, <1>4 DEF DeadlineInv, Numbered, Traces
<1>7. starts[reg[q].sid] \in Nat
  BY <1>1 DEF TypeOK
<1>8. y.gen = reg[q].gen
  BY <1>5, <1>6, <1>7
<1> QED BY <1>2, <1>3, <1>4, <1>8 DEF DeadlineInv, SameDeadline

LEMMA StartsBounded ==
  ASSUME NEW p \in Pods, Pods = {p}
  PROVE  ThreadInv /\ (\A s \in Sids : starts[s] <= MaxStarts) /\ [Next]_vars
           => (\A s \in Sids : starts'[s] <= MaxStarts)
<1> SUFFICES ASSUME TypeOK, Coherent, \A s \in Sids : starts[s] <= MaxStarts, [Next]_vars
             PROVE  \A s \in Sids : starts'[s] <= MaxStarts
  BY DEF ThreadInv
<1>1. ASSUME NEW kind \in Kinds \ {"reaper"}, NEW s \in Sids, NEW k \in Keys,
             Request(p, kind, s, k)
      PROVE  \A t \in Sids : starts'[t] <= MaxStarts
  <2>1. starts' = starts \/ (starts[s] < MaxStarts /\ starts' = [starts EXCEPT ![s] = @ + 1])
    BY <1>1 DEF Request
  <2>2. starts[s] \in Nat /\ MaxStarts \in Nat
    BY BoundsAssumption DEF TypeOK
  <2>3. CASE starts[s] < MaxStarts /\ starts' = [starts EXCEPT ![s] = @ + 1]
    <3>1. starts[s] + 1 <= MaxStarts
      BY <2>2, <2>3
    <3>2. \A t \in Sids : starts'[t] = starts[t] \/ starts'[t] = starts[s] + 1
      BY <2>3 DEF TypeOK
    <3> QED BY <3>1, <3>2
  <2> QED BY <2>1, <2>3
<1>2. CASE UNCHANGED starts
  BY <1>2
<1> QED BY <1>1, <1>2, StepCases
        DEF ReaperFires, ReaperStep, ThreadStep, ListIds, LookAt, Reap, Count, Load, DropExpired,
            Save, SaveMeta, CloseMeta, Delete, Metric, RedisError, Restart, Tick, vars, boundVars

(***************************************************************************)
(* What a handler holds between its load and its save                      *)
(***************************************************************************)

LoadInv(m) ==
  /\ pc[m] = "save" /\ Op(m) # "create" /\ Kept(m, Sid(m)) # None =>
       reg[m] = Modified(Head(calls[m]), Kept(m, Sid(m)))
  /\ pc[m] = "drop" /\ Kept(m, Sid(m)) # None => Expired(Kept(m, Sid(m)))
  /\ pc[m] = "save" /\ Op(m) \in {"store", "add"} => Head(calls[m]).key \in reg[m].data

\* What other threads and the environment do may only take the session away.
LEMMA LoadStands ==
  ASSUME TypeOK, Coherent, NEW m \in Procs, LoadInv(m), Shrinks, Stands(m),
         pc[m] # "idle" => Home(m)' = Home(m), now' \in Nat, now <= now'
  PROVE  LoadInv(m)'
<1>1. CASE pc[m] \notin {"save", "drop"}
  BY <1>1 DEF LoadInv, Stands
<1>2. CASE pc[m] \in {"save", "drop"}
  <2>1. pc[m] # "idle" /\ Op(m) # "purge"
    BY <1>2 DEF Coherent, BusyThread, Holding
  <2>2. /\ Home(m) \in Locations /\ Home(m)' = Home(m) /\ Sid(m) \in Sids
        /\ Kept(m, Sid(m)) \in Session \cup {None}
    BY <2>1, BusyHome, NotPurging
  <2>3. Sid(m)' = Sid(m) /\ Op(m)' = Op(m)
    BY DEF Stands, Sid, Op
  <2>4. Kept(m, Sid(m))' = Kept(m, Sid(m)) \/ Kept(m, Sid(m))' = None
    BY <2>2, <2>3 DEF Shrinks, Kept
  <2>5. ASSUME Kept(m, Sid(m)) # None, Expired(Kept(m, Sid(m)))
        PROVE  now' > Kept(m, Sid(m)).exp
    <3>1. Kept(m, Sid(m)).exp \in Nat
      BY <2>2, <2>5 DEF Session
    <3> QED BY <2>5, <3>1 DEF Expired, TypeOK
  <2> QED BY <2>2, <2>3, <2>4, <2>5 DEF LoadInv, Stands, Expired
<1> QED BY <1>1, <1>2

LEMMA LoadMain ==
  ASSUME TypeOK, Coherent, NEW m \in Procs, ThreadStep(m) \/ RedisError(m)
  PROVE  LoadInv(m)'
<1>0. pc[m] # "idle"
  BY MainMoves
<1>1. ASSUME pc'[m] \notin {"save", "drop"} PROVE LoadInv(m)'
  BY <1>1 DEF LoadInv
<1>2. ASSUME GoesOn(m) PROVE LoadInv(m)'
  BY <1>1, <1>2 DEF GoesOn, Holding
<1>3. CASE ListIds(m) \/ LookAt(m) \/ Reap(m)
  <2>1. pc'[m] \in {"scan", "reap", "count"}
    BY <1>3 DEF ListIds, LookAt, Reap, Goto, TypeOK
  <2> QED BY <1>1, <2>1
<1>4. CASE Count(m)
  <2>1. CASE Op(m) \in {"purge", "list"}
    BY <1>0, <1>2, <1>4, <2>1, ReturnGoesOn DEF Count
  <2>2. CASE Op(m) \notin {"purge", "list"}
    <3>1. pc'[m] = "load"
      BY <1>4, <2>2 DEF Count, Goto, TypeOK
    <3> QED BY <1>1, <3>1
  <2> QED BY <2>1, <2>2
<1>5. ASSUME Missing(m) PROVE LoadInv(m)'
  <2>1. CASE Op(m) = "create"
    <3>1. Hold(m, NewSession(Sid(m), job[m].gen), "save")
      BY <1>5, <2>1 DEF Missing
    <3>2. pc'[m] = "save" /\ UNCHANGED <<job, calls>>
      BY <3>1, HoldIs
    <3> QED BY <2>1, <3>2 DEF LoadInv, Op
  <2>2. CASE Op(m) # "create"
    BY <1>0, <1>2, <1>5, <2>2, MissingGoesOn
  <2> QED BY <2>1, <2>2
<1>6. CASE Load(m)
  <2> DEFINE x == Kept(m, Sid(m))
  <2>1. pc[m] = "load" /\ UNCHANGED <<now, store, backend>>
    BY <1>6 DEF Load
  <2>2. Op(m) # "purge"
    BY <1>0, <2>1 DEF Coherent, BusyThread
  <2>3. x \in Session \cup {None} /\ calls[m] \in Seq(Calls) /\ calls[m] # <<>>
    BY <1>0, <2>2, BusyHome, NotPurging
  <2>4. CASE x = None
    BY <1>5, <1>6, <2>4 DEF Load
  <2>5. CASE x # None /\ Expired(x)
    <3>1. Hold(m, x, "drop")
      BY <1>6, <2>5 DEF Load
    <3>2. pc'[m] = "drop" /\ UNCHANGED <<job, calls>>
      BY <3>1, HoldIs
    <3>3. Kept(m, Sid(m))' = x
      BY <2>1, <3>2 DEF Kept, Home, Sid
    <3> QED BY <2>1, <2>5, <3>2, <3>3 DEF LoadInv, Expired
  <2>6. CASE x # None /\ ~Expired(x)
    <3>1. Found(m, x)
      BY <1>6, <2>6 DEF Load
    <3>2. CASE GoesOn(m)
      BY <1>2, <3>2
    <3>3. CASE Op(m) = "close" /\ Hold(m, x, "pgclose")
      <4>1. pc'[m] = "pgclose"
        BY <3>3, HoldIs
      <4> QED BY <1>1, <4>1
    <3>4. CASE /\ Op(m) \notin {"create", "get", "guard", "close"}
               /\ Hold(m, Modified(Head(calls[m]), x), "save")
      <4>1. /\ pc'[m] = "save" /\ reg'[m] = Modified(Head(calls[m]), x)
            /\ UNCHANGED <<job, calls>>
        BY <3>4, HoldIs
      <4>2. Kept(m, Sid(m))' = x
        BY <2>1, <4>1 DEF Kept, Home, Sid
      <4>3. Op(m) \in {"store", "add"} => Head(calls[m]).key \in reg'[m].data
        BY <2>3, <2>6, <4>1 DEF Modified, Op, Session
      <4> QED BY <4>1, <4>2, <4>3 DEF LoadInv, Op
    <3> QED BY <1>0, <3>1, <3>2, <3>3, <3>4, FoundSplits
  <2> QED BY <2>4, <2>5, <2>6
<1>7. CASE DropExpired(m)
  BY <1>5, <1>7 DEF DropExpired
<1>8. CASE Save(m)
  <2>1. CASE Op(m) = "create"
    <3>1. Hold(m, reg[m], "pgsave")
      BY <1>8, <2>1 DEF Save
    <3>2. pc'[m] = "pgsave"
      BY <3>1, HoldIs
    <3> QED BY <1>1, <3>2
  <2>2. CASE Op(m) # "create"
    BY <1>0, <1>2, <1>8, <2>2, ReturnGoesOn DEF Save
  <2> QED BY <2>1, <2>2
<1>9. CASE CloseMeta(m)
  <2>1. Hold(m, reg[m], "delete")
    BY <1>9 DEF CloseMeta
  <2>2. pc'[m] = "delete"
    BY <2>1, HoldIs
  <2> QED BY <1>1, <2>2
<1>10. CASE SaveMeta(m) \/ Delete(m) \/ Metric(m) \/ RedisError(m)
  BY <1>0, <1>2, <1>10, ReturnGoesOn, RaiseGoesOn DEF SaveMeta, Delete, Metric, RedisError
<1> QED BY <1>3, <1>4, <1>6, <1>7, <1>8, <1>9, <1>10 DEF ThreadStep

LEMMA LoadInit ==
  ASSUME NEW p \in Pods
  PROVE  Init => LoadInv(<<p, "main">>)
<1>1. <<p, "main">> \in Procs
  BY DEF Procs
<1> QED BY <1>1 DEF Init, LoadInv

LEMMA LoadNext ==
  ASSUME NEW p \in Pods, Pods = {p}
  PROVE  ThreadInv /\ LoadInv(<<p, "main">>) /\ [Next]_vars => LoadInv(<<p, "main">>)'
<1> DEFINE m == <<p, "main">>
           r == <<p, "reaper">>
<1> SUFFICES ASSUME TypeOK, Coherent, LoadInv(m), [Next]_vars
             PROVE  LoadInv(m)'
  BY DEF ThreadInv
<1>0. m \in Procs /\ r \in Procs /\ Pod(m) = p
  BY DEF Procs, Pod
<1>1. ASSUME NEW kind \in Kinds \ {"reaper"}, NEW s \in Sids, NEW k \in Keys,
             Request(p, kind, s, k)
      PROVE  LoadInv(m)'
  <2>1. Begin(m, kind, s, starts'[s], k)
    BY <1>1 DEF Request
  <2>2. pc'[m] = Entry(Script(kind, k))
    BY <1>0, <2>1 DEF Begin, TypeOK
  <2>3. pc'[m] \notin {"save", "drop"}
    BY <2>2, ScriptCalls, EntryStep DEF Holding
  <2> QED BY <2>3 DEF LoadInv
<1>2. CASE ThreadStep(m) \/ RedisError(m)
  BY <1>0, <1>2, LoadMain
<1>3. CASE ReaperFires(p) \/ ReaperStep(r) \/ RedisError(r)
  <2>1. /\ Stands(m) /\ UNCHANGED now /\ (~Reap(r) => UNCHANGED store)
        /\ pc[m] # "idle" => backend'[p] = backend[p]
    BY <1>3, ReaperStands
  <2>2. Shrinks
    <3>1. CASE Reap(r)
      BY <3>1, DeleteShrinks DEF Reap
    <3> QED BY <2>1, <3>1 DEF Shrinks
  <2>3. pc[m] # "idle" => Home(m)' = Home(m)
    BY <1>0, <2>1 DEF Home
  <2> QED BY <1>0, <2>1, <2>2, <2>3, LoadStands DEF TypeOK
<1>4. CASE Tick
  <2>1. Shrinks /\ Stands(m) /\ UNCHANGED backend /\ now' = now + 1
    BY <1>4 DEF Tick, Shrinks, TypeOK, Stands, serverVars
  <2> QED BY <1>0, <2>1, LoadStands DEF Home, TypeOK
<1>5. CASE UNCHANGED vars
  <2>1. Shrinks /\ Stands(m) /\ UNCHANGED <<backend, now>>
    BY <1>5 DEF Shrinks, Stands, vars, serverVars
  <2> QED BY <1>0, <2>1, LoadStands DEF Home, TypeOK
<1>6. CASE Restart(p)
  <2>1. pc'[m] = "idle"
    BY <1>0, <1>6 DEF Restart
  <2> QED BY <2>1 DEF LoadInv
<1> QED BY <1>1, <1>2, <1>3, <1>4, <1>5, <1>6, StepCases

(***************************************************************************)
(* A live session lasts: what may take it away                             *)
(***************************************************************************)

\* Redis drops a key less than a second before the session's deadline at most.
OnTime ==
  \A s \in Sids : store[Redis][s] # None => store[Redis][s].dies > store[Redis][s].exp - Second

LEMMA OnTimeShrinks ==
  ASSUME OnTime, Shrinks
  PROVE  OnTime'
BY DEF OnTime, Shrinks, Locations

\* SETEX gives the key more than the session's remaining time minus a second.
LEMMA WrittenOnTime ==
  ASSUME TypeOK, NEW x \in Session
  PROVE  Written(x).dies > Written(x).exp - Second
<1> DEFINE d == x.exp - now
           whole == d \div Second
<1>1. x.exp \in Nat /\ now \in Nat /\ Second \in Nat /\ Second > 0
  BY TimeAssumption DEF TypeOK, Session
<1>2. d \in Int /\ whole \in Int
  BY <1>1
<1>3. d < (whole + 1) * Second
  BY <1>1, <1>2
<1>4. (whole + 1) * Second = whole * Second + Second
  BY <1>1, <1>2
<1>5. Seconds(x) \in Int /\ whole <= Seconds(x)
  BY <1>2 DEF Seconds
<1>6. whole * Second <= Seconds(x) * Second
  BY <1>1, <1>2, <1>5
<1>7. Written(x).dies = now + Seconds(x) * Second /\ Written(x).exp = x.exp
  BY DEF Written, Session
<1>8. whole * Second \in Int /\ Seconds(x) * Second \in Int
  BY <1>1, <1>2, <1>5
<1> HIDE DEF whole
<1> QED BY <1>1, <1>2, <1>3, <1>4, <1>6, <1>7, <1>8

LEMMA OnTimeNext ==
  ASSUME NEW p \in Pods, Pods = {p}
  PROVE  ThreadInv /\ ServerInv(<<p, "main">>) /\ OnTime /\ [Next]_vars => OnTime'
<1> DEFINE m == <<p, "main">>
<1> SUFFICES ASSUME TypeOK, Coherent, ServerInv(m), OnTime, [Next]_vars
             PROVE  OnTime'
  BY DEF ThreadInv
<1>1. CASE Shrinks
  BY <1>1, OnTimeShrinks
<1>2. CASE Save(m)
  <2>1. m \in Procs
    BY DEF Procs
  <2>2. /\ reg[m] \in Session
        /\ \A s \in Sids : \/ store'[Redis][s] = store[Redis][s]
                           \/ store'[Redis][s] = Written(reg[m])
    BY <1>2, <2>1, SaveKeepsSession DEF Locations
  <2>3. Written(reg[m]).dies > Written(reg[m]).exp - Second
    BY <2>2, WrittenOnTime
  <2> QED BY <2>2, <2>3 DEF OnTime
<1> QED BY <1>1, <1>2, ShrinkOrSave

\* Only a look that finds a session expired leads a thread to delete it.
LEMMA OnlyLooksReap ==
  ASSUME TypeOK, NEW pr \in Procs, ThreadStep(pr) \/ RedisError(pr), pc'[pr] = "reap"
  PROVE  LookAt(pr)
<1>1. ASSUME NEW cs, Resume(pr, cs) PROVE pc'[pr] # "reap"
  BY <1>1 DEF Resume, TypeOK, Entry
<1>2. ASSUME NEW x, NEW step \in {"drop", "save", "pgclose", "pgsave", "delete"}, Hold(pr, x, step)
      PROVE  pc'[pr] # "reap"
  BY <1>2, HoldIs
<1>3. ASSUME Return(pr) \/ Raise(pr) PROVE pc'[pr] # "reap"
  BY <1>1, <1>3 DEF Return, Raise
<1>4. ASSUME Missing(pr) PROVE pc'[pr] # "reap"
  BY <1>1, <1>2, <1>3, <1>4 DEF Missing
<1>5. ASSUME NEW x, Found(pr, x) PROVE pc'[pr] # "reap"
  BY <1>2, <1>3, <1>5 DEF Found
<1>6. ~(ListIds(pr) \/ Reap(pr))
  BY DEF ListIds, Reap, Goto, TypeOK
<1>7. ~Count(pr)
  <2>1. Count(pr) => Return(pr) \/ Goto(pr, "load")
    BY DEF Count
  <2>2. ~Goto(pr, "load")
    BY DEF Goto, TypeOK
  <2> QED BY <1>3, <2>1, <2>2
<1>8. ~Load(pr)
  BY <1>2, <1>4, <1>5 DEF Load
<1>9. ~(DropExpired(pr) \/ Save(pr) \/ CloseMeta(pr))
  BY <1>2, <1>3, <1>4 DEF DropExpired, Save, CloseMeta
<1>10. ~(SaveMeta(pr) \/ Delete(pr) \/ Metric(pr) \/ RedisError(pr))
  BY <1>3 DEF SaveMeta, Delete, Metric, RedisError
<1> QED BY <1>6, <1>7, <1>8, <1>9, <1>10 DEF ThreadStep

LEMMA ReapedNext == ThreadInv /\ Reaped /\ [Next]_vars => Reaped'
<1> SUFFICES ASSUME TypeOK, Coherent, Reaped, [Next]_vars
             PROVE  Reaped'
  BY DEF ThreadInv
<1>1. ASSUME NEW pr \in Procs, ThreadStep(pr) \/ RedisError(pr) PROVE Reaped'
  <2>1. UNCHANGED now /\ \A q \in Procs : q # pr => Stands(q)
    BY <1>1, OthersStand DEF ThreadStep, ListIds, LookAt, Reap, Count, Load, DropExpired, Save,
       SaveMeta, CloseMeta, Delete, Metric, RedisError
  <2>2. pc'[pr] = "reap" => Expired(reg'[pr])
    <3>1. SUFFICES ASSUME LookAt(pr), pc'[pr] = "reap" PROVE Expired(reg'[pr])
      BY <1>1, OnlyLooksReap
    <3>2. PICK s \in pend[pr] :
            IF Kept(pr, s) # None /\ Expired(Kept(pr, s))
            THEN reg' = [reg EXCEPT ![pr] = Kept(pr, s)]
            ELSE pc'[pr] # "reap"
      BY <3>1 DEF LookAt, Goto, TypeOK
    <3> QED BY <3>1, <3>2 DEF TypeOK
  <2> QED BY <2>1, <2>2, ReapedKept
<1>2. ASSUME NEW pr \in Procs, NEW kind \in Kinds, NEW s, NEW g, NEW k \in Keys \cup {"-"},
             Begin(pr, kind, s, g, k)
      PROVE  Reaped'
  <2>1. /\ pc' = [pc EXCEPT ![pr] = Entry(Script(kind, k))] /\ UNCHANGED <<now, reg>>
    BY <1>2 DEF Begin
  <2>2. Entry(Script(kind, k)) # "reap"
    BY DEF Entry
  <2>3. \A q \in Procs : pc'[q] = "reap" => pc[q] = "reap"
    BY <2>1, <2>2 DEF TypeOK
  <2> QED BY <2>1, <2>3 DEF Reaped, Expired
<1>3. ASSUME NEW p \in Pods, NEW kind \in Kinds, NEW s \in Sids, NEW k \in Keys,
             Request(p, kind, s, k)
      PROVE  Reaped'
  <2>1. <<p, "main">> \in Procs /\ Begin(<<p, "main">>, kind, s, starts'[s], k)
    BY <1>3 DEF Request, Procs
  <2> QED BY <1>2, <2>1
<1>4. ASSUME NEW p \in Pods, ReaperFires(p) PROVE Reaped'
  <2>1. <<p, "reaper">> \in Procs /\ Begin(<<p, "reaper">>, "reaper", None, 0, "-")
    BY <1>4 DEF ReaperFires, Procs
  <2>2. "reaper" \in Kinds
    BY DEF Kinds
  <2> QED BY <1>2, <2>1, <2>2
<1>5. CASE Tick
  BY <1>5, ReapedTick
<1>6. ASSUME NEW p \in Pods, Restart(p) PROVE Reaped'
  <2>1. UNCHANGED now /\ \A q \in Procs : pc'[q] = "idle" \/ (pc'[q] = pc[q] /\ reg'[q] = reg[q])
    BY <1>6 DEF Restart
  <2> QED BY <2>1 DEF Reaped, Expired
<1>7. CASE UNCHANGED vars
  BY <1>7 DEF vars, serverVars, Reaped, Expired
<1> QED BY <1>1, <1>3, <1>4, <1>5, <1>6, <1>7 DEF Next

\* The ways in which a session goes, one by one.
LEMMA TakenBy ==
  ASSUME NEW p \in Pods, Pods = {p}, ThreadInv, ServerInv(<<p, "main">>),
         LoadInv(<<p, "main">>), OnTime, Reaped, [Next]_vars,
         NEW l \in Locations, NEW s \in Sids, store[l][s] # None, ~Expired(store[l][s]),
         store'[l][s] = None
  PROVE  MayTake(l, s, store[l][s])
<1> DEFINE m == <<p, "main">>
           r == <<p, "reaper">>
           x == store[l][s]
<1>0. /\ TypeOK /\ Coherent /\ m \in Procs /\ r \in Procs /\ Procs = {m, r}
      /\ x \in Session /\ store'[l][s] # x
  BY DEF ThreadInv, Procs, TypeOK
<1>1. ASSUME NEW q \in Procs, Reap(q) PROVE MayTake(l, s, x)
  <2>1. Home(q) = l /\ reg[q].sid = s
    BY <1>0, <1>1 DEF Reap, Put, TypeOK
  <2>2. Expired(reg[q])
    BY <1>1 DEF Reaped, Reap
  <2>3. reg[q].exp # x.exp
    BY <2>2 DEF Expired
  <2> QED BY <1>1, <2>1, <2>3 DEF MayTake
<1>2. CASE Delete(m)
  <2>1. Home(m) = l /\ Sid(m) = s
    BY <1>0, <1>2 DEF Delete, Put, TypeOK
  <2>2. reg[m].gen = x.gen
    BY <1>2, <2>1 DEF ServerInv, HoldingLoaded, Delete
  <2> QED BY <1>0, <1>2, <2>1, <2>2 DEF MayTake
<1>3. ~DropExpired(m)
  <2> SUFFICES ASSUME DropExpired(m) PROVE FALSE
    OBVIOUS
  <2>1. Home(m) = l /\ Sid(m) = s
    BY <1>0 DEF DropExpired, Put, TypeOK
  <2>2. Expired(Kept(m, Sid(m)))
    BY <2>1 DEF LoadInv, DropExpired, Kept
  <2> QED BY <2>1, <2>2 DEF Kept
<1>4. ~Save(m)
  BY <1>0, SaveKeepsSession, WrittenType, NoneAssumption
<1>5. CASE Tick
  <2>1. l = Redis /\ now' = now + 1 /\ now + 1 > x.dies
    BY <1>0, <1>5 DEF Tick, TypeOK
  <2>2. x.dies > x.exp - Second
    BY <2>1 DEF OnTime
  <2>3. x.dies \in Nat /\ x.exp \in Nat /\ now \in Nat /\ Second \in Nat
    BY <1>0, TimeAssumption DEF Session, TypeOK
  <2> QED BY <1>5, <2>1, <2>2, <2>3 DEF MayTake
<1>6. CASE Restart(p)
  <2>1. l = p
    BY <1>0, <1>6 DEF Restart, TypeOK
  <2> QED BY <1>6, <2>1 DEF MayTake
<1>7. store' # store
  BY <1>0
<1>8. CASE ThreadStep(m)
  BY <1>0, <1>1, <1>2, <1>3, <1>4, <1>7, <1>8
     DEF ThreadStep, ListIds, LookAt, Count, Load, SaveMeta, CloseMeta, Metric
<1>9. CASE ReaperFires(p) \/ ReaperStep(r) \/ RedisError(r)
  BY <1>0, <1>1, <1>7, <1>9, ReaperStands
<1>10. ~(RedisError(m) \/ UNCHANGED vars)
  BY <1>7 DEF RedisError, vars
<1>11. ASSUME NEW kind \in Kinds \ {"reaper"}, NEW t \in Sids, NEW k \in Keys,
              Request(p, kind, t, k)
       PROVE  FALSE
  BY <1>7, <1>11 DEF Request, Begin
<1> QED BY <1>0, <1>5, <1>6, <1>8, <1>9, <1>10, <1>11, StepCases

\* With one server, in Redis or in memory, for every mix of requests: extended
\* sessions and ids started again included, a live session is never replaced, and
\* goes only by its own session_end, a restart of the process that keeps it, Redis a
\* second early, or a purge whose look at the id was of an earlier session or of an
\* earlier deadline.
THEOREM LiveSessionsAreKept ==
  ASSUME NEW p \in Pods, Pods = {p}
  PROVE  Spec => LiveSessionsLast
<1> DEFINE m == <<p, "main">>
           Inv == ThreadInv /\ ServerInv(m) /\ LoadInv(m) /\ OnTime /\ Reaped
           Lasts == \A l \in Locations, s \in Sids :
             LET x == store[l][s] IN
             x # None /\ ~Expired(x) =>
               IF store'[l][s] = None THEN MayTake(l, s, x) ELSE store'[l][s].gen = x.gen
<1>1. Init => Inv
  <2>1. Init => OnTime /\ Reaped
    BY DEF Init, OnTime, Reaped, Locations
  <2> QED BY <2>1, ThreadInvInit, ServerInvInit, LoadInit
<1>2. Inv /\ [Next]_vars => Inv'
  BY ThreadInvNext, ServerInvNext, LoadNext, OnTimeNext, ReapedNext
<1>3. ASSUME Inv, [Next]_vars PROVE Lasts
  <2> SUFFICES ASSUME NEW l \in Locations, NEW s \in Sids, store[l][s] # None,
                      ~Expired(store[l][s]), store'[l][s] # None
               PROVE  store'[l][s].gen = store[l][s].gen
    BY <1>3, TakenBy
  <2>1. CASE Shrinks
    BY <2>1 DEF Shrinks
  <2>2. CASE Save(m)
    <3>1. m \in Procs
      BY DEF Procs
    <3> QED BY <1>3, <2>2, <3>1, SaveKeepsSession DEF ThreadInv
  <2> QED BY <1>3, <2>1, <2>2, ShrinkOrSave DEF ThreadInv
<1>4. Inv /\ [Next]_vars => [Lasts]_vars
  BY <1>3
<1> HIDE DEF Inv
<1>5. Spec => [][Lasts]_vars
  BY <1>1, <1>2, <1>4, PTL DEF Spec
<1> QED BY <1>5 DEF LiveSessionsLast

(***************************************************************************)
(* What session_store confirmed is kept                                    *)
(***************************************************************************)

KeptInv == StoredUntilEndOrTtl /\ OnTime

Claims(a) ==
  starts[a.sid] = 1 /\ [sid |-> a.sid, gen |-> a.gen] \notin ended /\ now <= Deadline(a)
Honoured(a) ==
  /\ store[a.loc][a.sid] # None
  /\ store[a.loc][a.sid].gen = a.gen
  /\ a.key \in store[a.loc][a.sid].data

LEMMA StoredIs == StoredUntilEndOrTtl <=> \A a \in acked : Claims(a) => Honoured(a)
BY DEF StoredUntilEndOrTtl, Claims, Honoured

LEMMA AckedTypes ==
  ASSUME TypeOK, NEW a \in acked
  PROVE  /\ a.loc \in Locations /\ a.sid \in Sids /\ a.gen \in Nat /\ a.exp \in Nat
         /\ Deadline(a) \in Int /\ Deadline(a) <= a.exp
<1>1. a.loc \in Locations /\ a.sid \in Sids /\ a.gen \in Nat /\ a.exp \in Nat
  BY DEF TypeOK, Write
<1> QED BY <1>1, TimeAssumption DEF Deadline

\* While its id has been started once, every copy of a confirmed session is of
\* the same generation and carries the same deadline.
LEMMA CopiesOfAcked ==
  ASSUME NEW m, TypeOK, DeadlineInv(m), NEW a \in acked, starts[a.sid] <= 1
  PROVE  /\ starts[a.sid] = 1 /\ a.gen = 1
         /\ store[a.loc][a.sid] # None =>
              store[a.loc][a.sid].gen = a.gen /\ store[a.loc][a.sid].exp = a.exp
         /\ \A q \in Procs : reg[q] # None /\ reg[q].sid = a.sid =>
              reg[q].gen = a.gen /\ reg[q].exp = a.exp
<1>1. a.loc \in Locations /\ a.sid \in Sids /\ a.gen \in Nat /\ starts[a.sid] \in Nat
  BY AckedTypes DEF TypeOK
<1>2. Image(a) \in Traces /\ Known(Image(a))
  BY KnownCopies
<1>3. Image(a).sid = a.sid /\ Image(a).gen = a.gen /\ Image(a).exp = a.exp
  BY DEF Image
<1>4. 1 <= a.gen /\ a.gen <= starts[a.sid]
  BY <1>2, <1>3 DEF DeadlineInv, Numbered
<1>5. starts[a.sid] = 1 /\ a.gen = 1
  BY <1>1, <1>4
<1>6. ASSUME NEW o \in Traces, Known(o), o.sid = a.sid PROVE o.gen = a.gen /\ o.exp = a.exp
  <2>1. 1 <= o.gen /\ o.gen <= starts[a.sid] /\ o.gen \in Nat
    BY <1>6 DEF DeadlineInv, Numbered, Traces
  <2>2. o.gen = a.gen
    BY <1>5, <2>1
  <2> QED BY <1>2, <1>3, <1>6, <2>2 DEF DeadlineInv, SameDeadline
<1>7. ASSUME store[a.loc][a.sid] # None
      PROVE  store[a.loc][a.sid].gen = a.gen /\ store[a.loc][a.sid].exp = a.exp
  <2> DEFINE y == store[a.loc][a.sid]
  <2>1. Image(y) \in Traces /\ Known(Image(y)) /\ y.sid = a.sid
    BY <1>1, <1>7, KnownCopies DEF DeadlineInv, Labelled
  <2>2. Image(y).sid = y.sid /\ Image(y).gen = y.gen /\ Image(y).exp = y.exp
    BY DEF Image
  <2> QED BY <1>6, <2>1, <2>2
<1>8. ASSUME NEW q \in Procs, reg[q] # None, reg[q].sid = a.sid
      PROVE  reg[q].gen = a.gen /\ reg[q].exp = a.exp
  <2>1. Image(reg[q]) \in Traces /\ Known(Image(reg[q]))
    BY <1>8, KnownCopies
  <2>2. /\ Image(reg[q]).sid = reg[q].sid /\ Image(reg[q]).gen = reg[q].gen
        /\ Image(reg[q]).exp = reg[q].exp
    BY DEF Image
  <2> QED BY <1>6, <1>8, <2>1, <2>2
<1> QED BY <1>5, <1>7, <1>8

\* A step that takes away only sessions whose confirmed writes have no claim.
LEMMA TakesUnclaimed ==
  ASSUME TypeOK, StoredUntilEndOrTtl, Shrinks, acked' \subseteq acked, UNCHANGED starts,
         ended \subseteq ended', now' \in Nat, now <= now',
         \A a \in acked' : Claims(a)' => store'[a.loc][a.sid] = store[a.loc][a.sid]
  PROVE  StoredUntilEndOrTtl'
<1> SUFFICES ASSUME NEW a \in acked', Claims(a)' PROVE Honoured(a)'
  BY DEF StoredUntilEndOrTtl, Claims, Honoured
<1>1. a \in acked /\ Deadline(a) \in Int /\ Deadline(a)' = Deadline(a)
  BY AckedTypes DEF Deadline
<1>2. Claims(a)
  BY <1>1 DEF Claims, TypeOK
<1>3. Honoured(a)
  BY <1>1, <1>2, StoredIs
<1> QED BY <1>3 DEF Honoured

LEMMA KeptSave ==
  ASSUME NEW m \in Procs, TypeOK, Coherent, HandlerInv(m), DeadlineInv(m), LoadInv(m), KeptInv,
         Save(m), Op(m) # "clear"
  PROVE  KeptInv'
<1> DEFINE s == Sid(m)
           h == Home(m)
           w == Written(reg[m])
           c == Head(calls[m])
           new == [loc |-> h, sid |-> s, gen |-> reg[m].gen, exp |-> reg[m].exp, key |-> c.key]
<1>1. /\ pc[m] = "save" /\ pc[m] # "idle" /\ reg[m] \in Session /\ Op(m) # "purge"
      /\ UNCHANGED <<now, starts, ended>>
  BY DEF Save, TypeOK, Coherent, BusyThread, Holding, boundVars
<1>2. s \in Sids /\ h \in Locations /\ w \in Session /\ Kept(m, s) \in Session \cup {None}
  BY <1>1, NotPurging, BusyHome, WrittenType
<1>3. w.gen = reg[m].gen /\ w.data = reg[m].data /\ w # None
  BY <1>1, <1>2, NoneAssumption DEF Written, Session
<1>4. /\ store'[h][s] = w
      /\ \A l \in Locations, t \in Sids : ~(l = h /\ t = s) => store'[l][t] = store[l][t]
  BY <1>2 DEF Save, Put, TypeOK
<1>5. calls[m] \in Seq(Calls) /\ calls[m] # <<>>
  BY <1>1, BusyHome
<1>6. 1 \in 1 .. Len(calls[m]) /\ c = calls[m][1]
  BY <1>5
<1>7. ASSUME NEW a \in acked, Claims(a), a.loc = h, a.sid = s
      PROVE  reg[m].gen = a.gen /\ a.key \in reg[m].data
  <2>1. starts[s] = 1 /\ a.gen = 1
    BY <1>7, CopiesOfAcked DEF Claims
  <2>2. Honoured(a)
    BY <1>7, StoredIs DEF KeptInv
  <2>3. Op(m) # "create"
    <3>1. Op(m) = "create" => a.gen < job[m].gen /\ job[m].gen <= starts[s]
      BY <1>1, <1>7 DEF DeadlineInv, Fresh
    <3>2. job[m].gen \in Nat
      BY DEF TypeOK, Job
    <3> QED BY <2>1, <3>1, <3>2
  <2>4. Kept(m, s) # None /\ Kept(m, s).gen = a.gen /\ a.key \in Kept(m, s).data
    BY <1>7, <2>2 DEF Honoured, Kept
  <2>5. reg[m] = Modified(c, Kept(m, s))
    BY <1>1, <2>3, <2>4 DEF LoadInv
  <2>6. Kept(m, s) \in Session /\ c.op # "clear"
    BY <1>2, <2>4 DEF Op
  <2>7. Modified(c, Kept(m, s)).gen = Kept(m, s).gen
    BY <2>6 DEF Modified, Session
  <2>8. Kept(m, s).data \subseteq Modified(c, Kept(m, s)).data
    BY <2>6 DEF Modified, Session
  <2> QED BY <2>4, <2>5, <2>7, <2>8
<1>8. ASSUME NEW a \in acked', Claims(a)' PROVE Honoured(a)'
  <2>1. a \in acked \/ (job[m].kind = "session_store" /\ a = new)
    BY DEF Save
  <2>2. CASE a \in acked
    <3>1. Claims(a) /\ a.loc \in Locations /\ a.sid \in Sids
      BY <1>1, <1>8, <2>2, AckedTypes DEF Claims, Deadline
    <3>2. Honoured(a)
      BY <2>2, <3>1, StoredIs DEF KeptInv
    <3>3. CASE a.loc = h /\ a.sid = s
      BY <1>3, <1>4, <1>7, <2>2, <3>1, <3>3 DEF Honoured
    <3>4. CASE ~(a.loc = h /\ a.sid = s)
      BY <1>4, <3>1, <3>2, <3>4 DEF Honoured
    <3> QED BY <3>3, <3>4
  <2>3. CASE job[m].kind = "session_store" /\ a = new
    <3>1. Op(m) = "store"
      BY <1>6, <2>3 DEF HandlerInv, Fits, Op
    <3>2. c.key \in reg[m].data
      BY <1>1, <3>1 DEF LoadInv
    <3> QED BY <1>3, <1>4, <2>3, <3>2 DEF Honoured
  <2> QED BY <2>1, <2>2, <2>3
<1>9. StoredUntilEndOrTtl'
  BY <1>8 DEF StoredUntilEndOrTtl, Claims, Honoured
<1>10. OnTime'
  <2>1. w.dies > w.exp - Second
    BY <1>1, WrittenOnTime
  <2>2. \A t \in Sids : store'[Redis][t] = store[Redis][t] \/ store'[Redis][t] = w
    BY <1>4 DEF Locations
  <2> QED BY <2>1, <2>2 DEF KeptInv, OnTime
<1> QED BY <1>9, <1>10 DEF KeptInv

\* Deleting by id what is expired, or what the same step enters as ended, takes
\* nothing that still has a claim.
LEMMA KeptDelete ==
  ASSUME NEW p \in Pods, TypeOK, Coherent, DeadlineInv(<<p, "main">>), KeptInv,
         NEW q \in Procs, pc[q] # "idle", NEW s \in Sids, Put(q, s, None),
         acked' = acked, UNCHANGED <<starts, now>>, ended \subseteq ended',
         \A a \in acked : Claims(a) /\ a.sid = s /\ a.loc = Home(q) =>
           \/ Expired(store[Home(q)][s])
           \/ [sid |-> s, gen |-> a.gen] \in ended'
  PROVE  KeptInv'
<1> DEFINE h == Home(q)
<1>1. Shrinks
  BY DeleteShrinks
<1>2. h \in Locations
  BY BusyHome
<1>3. \A l \in Locations, t \in Sids : ~(l = h /\ t = s) => store'[l][t] = store[l][t]
  BY <1>2 DEF Put, TypeOK
<1>4. ASSUME NEW a \in acked, Claims(a)' PROVE store'[a.loc][a.sid] = store[a.loc][a.sid]
  <2>1. Claims(a) /\ a.loc \in Locations /\ a.sid \in Sids /\ [sid |-> a.sid, gen |-> a.gen] \notin ended'
    BY <1>4, AckedTypes DEF Claims, Deadline
  <2>2. CASE a.loc = h /\ a.sid = s
    <3>1. store[h][s] # None
      BY <2>1, <2>2, StoredIs DEF KeptInv, Honoured
    <3>2. store[h][s].exp = a.exp
      BY <2>1, <2>2, <3>1, CopiesOfAcked DEF Claims
    <3>3. Expired(store[h][s])
      BY <2>1, <2>2
    <3>4. now > a.exp /\ now <= Deadline(a) /\ Deadline(a) <= a.exp
      BY <2>1, <3>2, <3>3, AckedTypes DEF Claims, Expired
    <3> QED BY <3>4, AckedTypes DEF TypeOK
  <2>3. CASE ~(a.loc = h /\ a.sid = s)
    BY <1>3, <2>1, <2>3
  <2> QED BY <2>2, <2>3
<1>5. StoredUntilEndOrTtl'
  BY <1>1, <1>4, TakesUnclaimed DEF KeptInv, TypeOK
<1> QED BY <1>1, <1>5, OnTimeShrinks DEF KeptInv

LEMMA KeptReap ==
  ASSUME NEW p \in Pods, TypeOK, Coherent, DeadlineInv(<<p, "main">>), KeptInv,
         NEW q \in Procs, Reap(q)
  PROVE  KeptInv'
<1>1. /\ pc[q] = "reap" /\ pc[q] # "idle" /\ Put(q, reg[q].sid, None) /\ acked' = acked
      /\ UNCHANGED <<starts, now, ended>>
  BY DEF Reap, boundVars, history
<1>2. reg[q] # None /\ reg[q].sid \in Sids /\ Expired(reg[q])
  BY <1>1 DEF Coherent, BusyThread, TypeOK, Session, DeadlineInv, Reaped
<1>3. ASSUME NEW a \in acked, Claims(a), a.sid = reg[q].sid, a.loc = Home(q)
      PROVE  Expired(store[Home(q)][reg[q].sid])
  <2>1. store[a.loc][a.sid] # None
    BY <1>3, StoredIs DEF KeptInv, Honoured
  <2>2. store[a.loc][a.sid].exp = a.exp /\ reg[q].exp = a.exp
    BY <1>2, <1>3, <2>1, CopiesOfAcked DEF Claims
  <2> QED BY <1>2, <1>3, <2>2 DEF Expired
<1> QED BY <1>1, <1>2, <1>3, KeptDelete

LEMMA KeptDropExpired ==
  ASSUME NEW p \in Pods, TypeOK, Coherent, DeadlineInv(<<p, "main">>), LoadInv(<<p, "main">>),
         KeptInv, DropExpired(<<p, "main">>)
  PROVE  KeptInv'
<1> DEFINE m == <<p, "main">>
<1>1. /\ m \in Procs /\ pc[m] = "drop" /\ pc[m] # "idle" /\ Put(m, Sid(m), None)
      /\ acked' = acked /\ UNCHANGED <<starts, now, ended>>
  BY DEF DropExpired, boundVars, history, Procs
<1>2. Sid(m) \in Sids
  BY <1>1, NotPurging DEF Coherent, BusyThread
<1>3. ASSUME NEW a \in acked, Claims(a), a.sid = Sid(m), a.loc = Home(m)
      PROVE  Expired(store[Home(m)][Sid(m)])
  <2>1. store[a.loc][a.sid] # None
    BY <1>3, StoredIs DEF KeptInv, Honoured
  <2> QED BY <1>1, <1>3, <2>1 DEF LoadInv, Kept
<1> QED BY <1>1, <1>2, <1>3, KeptDelete

LEMMA KeptEnd ==
  ASSUME NEW p \in Pods, TypeOK, Coherent, DeadlineInv(<<p, "main">>), KeptInv,
         Delete(<<p, "main">>)
  PROVE  KeptInv'
<1> DEFINE m == <<p, "main">>
<1>1. /\ m \in Procs /\ pc[m] = "delete" /\ pc[m] # "idle" /\ Put(m, Sid(m), None)
      /\ acked' = acked /\ UNCHANGED <<starts, now>>
      /\ ended' = ended \cup {[sid |-> Sid(m), gen |-> reg[m].gen]}
  BY DEF Delete, boundVars, Procs
<1>2. Sid(m) \in Sids
  BY <1>1, NotPurging DEF Coherent, BusyThread, Holding
<1>3. reg[m] # None /\ reg[m].sid = Sid(m)
  BY <1>1 DEF Coherent, BusyThread, Holding, DeadlineInv, HeldLabel
<1>4. ASSUME NEW a \in acked, Claims(a), a.sid = Sid(m)
      PROVE  [sid |-> Sid(m), gen |-> a.gen] \in ended'
  <2>1. reg[m].gen = a.gen
    BY <1>1, <1>3, <1>4, CopiesOfAcked DEF Claims
  <2> QED BY <1>1, <2>1
<1> QED BY <1>1, <1>2, <1>4, KeptDelete

LEMMA KeptTick ==
  ASSUME NEW m, TypeOK, DeadlineInv(m), KeptInv, Tick
  PROVE  KeptInv'
<1>1. Shrinks /\ UNCHANGED <<starts, acked, ended>> /\ now' = now + 1
  BY DEF Tick, Shrinks, TypeOK, boundVars, history
<1>2. \A l \in Locations, s \in Sids :
        /\ l # Redis => store'[l][s] = store[l][s]
        /\ l = Redis /\ store[l][s] # None /\ ~(now + 1 > store[l][s].dies)
             => store'[l][s] = store[l][s]
  BY DEF Tick, TypeOK
<1>3. ASSUME NEW a \in acked, Claims(a)' PROVE store'[a.loc][a.sid] = store[a.loc][a.sid]
  <2>1. /\ a.loc \in Locations /\ a.sid \in Sids /\ Deadline(a) \in Int /\ now \in Nat
        /\ now + 1 <= Deadline(a) /\ Claims(a)
    BY <1>1, <1>3, AckedTypes DEF Claims, Deadline, TypeOK
  <2>2. CASE a.loc # Redis
    BY <1>2, <2>1, <2>2
  <2>3. CASE a.loc = Redis
    <3> DEFINE y == store[Redis][a.sid]
    <3>1. y # None
      BY <2>1, <2>3, StoredIs DEF KeptInv, Honoured
    <3>2. y.exp = a.exp
      BY <2>1, <2>3, <3>1, CopiesOfAcked DEF Claims
    <3>3. y \in Session
      BY <2>1, <2>3, <3>1 DEF TypeOK
    <3>4. y.dies \in Nat
      BY <3>3 DEF Session
    <3>5. y.dies > y.exp - Second
      BY <2>1, <3>1 DEF KeptInv, OnTime
    <3>6. y.dies > Deadline(a)
      BY <2>3, <3>2, <3>5 DEF Deadline
    <3>7. ~(now + 1 > y.dies)
      BY <2>1, <3>4, <3>6
    <3> QED BY <1>2, <2>1, <2>3, <3>1, <3>7
  <2> QED BY <2>2, <2>3
<1>4. StoredUntilEndOrTtl'
  BY <1>1, <1>3, TakesUnclaimed DEF KeptInv, TypeOK
<1> QED BY <1>1, <1>4, OnTimeShrinks DEF KeptInv

LEMMA KeptRequest ==
  ASSUME NEW p \in Pods, TypeOK, DeadlineInv(<<p, "main">>), KeptInv,
         NEW kind \in Kinds \ {"reaper"}, NEW s \in Sids, NEW k \in Keys,
         Request(p, kind, s, k)
  PROVE  KeptInv'
<1>1. UNCHANGED <<store, acked, ended, now>>
  BY DEF Request, Begin, history
<1>2. \A t \in Sids : starts[t] \in Nat /\ starts'[t] \in Nat /\ starts[t] <= starts'[t]
  <2>1. \A t \in Sids : starts[t] \in Nat /\ starts[t] + 1 \in Nat /\ starts[t] <= starts[t] + 1
    BY DEF TypeOK
  <2>2. \A t \in Sids : starts'[t] = starts[t] \/ starts'[t] = starts[t] + 1
    <3>1. starts' = starts \/ starts' = [starts EXCEPT ![s] = starts[s] + 1]
      BY DEF Request
    <3> QED BY <3>1 DEF TypeOK
  <2> QED BY <2>1, <2>2
<1>3. ASSUME NEW a \in acked, Claims(a)' PROVE Honoured(a)'
  <2>1. starts'[a.sid] = 1 /\ a.sid \in Sids
    BY <1>3, AckedTypes DEF Claims
  <2>2. starts[a.sid] <= 1
    BY <1>2, <2>1
  <2>3. starts[a.sid] = 1
    BY <2>2, CopiesOfAcked
  <2>4. Claims(a)
    BY <1>1, <1>3, <2>3 DEF Claims, Deadline
  <2> QED BY <1>1, <2>4, StoredIs DEF KeptInv, Honoured
<1>4. StoredUntilEndOrTtl'
  BY <1>1, <1>3 DEF StoredUntilEndOrTtl, Claims, Honoured
<1> QED BY <1>1, <1>4 DEF KeptInv, OnTime

LEMMA KeptNext ==
  ASSUME NEW p \in Pods, Pods = {p}, Requests \cap {"extend_session", "clear_context"} = {}
  PROVE  ThreadInv /\ HandlerInv(<<p, "main">>) /\ DeadlineInv(<<p, "main">>)
           /\ LoadInv(<<p, "main">>) /\ KeptInv /\ [Next]_vars => KeptInv'
<1> DEFINE m == <<p, "main">>
           r == <<p, "reaper">>
<1> SUFFICES ASSUME TypeOK, Coherent, HandlerInv(m), DeadlineInv(m), LoadInv(m), KeptInv,
                    [Next]_vars
             PROVE  KeptInv'
  BY DEF ThreadInv
<1>0. m \in Procs /\ r \in Procs
  BY DEF Procs
<1>1. ASSUME UNCHANGED <<store, acked, ended, starts, now>> PROVE KeptInv'
  BY <1>1 DEF KeptInv, StoredUntilEndOrTtl, OnTime, Deadline
<1>2. ASSUME NEW kind \in Kinds \ {"reaper"}, NEW s \in Sids, NEW k \in Keys,
             Request(p, kind, s, k)
      PROVE  KeptInv'
  BY <1>2, KeptRequest
<1>3. CASE ThreadStep(m) \/ RedisError(m)
  <2>1. CASE Reap(m)
    BY <1>0, <2>1, KeptReap
  <2>2. CASE DropExpired(m)
    BY <2>2, KeptDropExpired
  <2>3. CASE Delete(m)
    BY <2>3, KeptEnd
  <2>4. CASE Save(m)
    <3>1. pc[m] # "idle"
      BY <2>4 DEF Save
    <3>2. Op(m) # "clear"
      BY <1>0, <3>1, NeverExtends
    <3> QED BY <1>0, <2>4, <3>2, KeptSave
  <2> QED BY <1>1, <1>3, <2>1, <2>2, <2>3, <2>4
          DEF ThreadStep, ListIds, LookAt, Count, Load, SaveMeta, CloseMeta, Metric, RedisError,
              boundVars, history
<1>4. CASE ReaperFires(p) \/ ReaperStep(r) \/ RedisError(r)
  <2>1. CASE Reap(r)
    BY <1>0, <2>1, KeptReap
  <2>2. CASE ~Reap(r)
    BY <1>1, <1>4, <2>2, ReaperStands
  <2> QED BY <2>1, <2>2
<1>5. CASE Tick
  BY <1>5, KeptTick
<1>6. CASE Restart(p)
  <2>1. /\ Shrinks /\ acked' = {a \in acked : a.loc # p} /\ UNCHANGED <<starts, now, ended>>
        /\ \A l \in Locations : l # p => store'[l] = store[l]
    BY <1>6 DEF Restart, Shrinks, TypeOK
  <2>2. \A a \in acked' : store'[a.loc][a.sid] = store[a.loc][a.sid]
    BY <2>1, AckedTypes
  <2>3. acked' \subseteq acked
    BY <2>1
  <2>4. StoredUntilEndOrTtl'
    BY <2>1, <2>2, <2>3, TakesUnclaimed DEF KeptInv, TypeOK
  <2> QED BY <2>1, <2>4, OnTimeShrinks DEF KeptInv
<1>7. CASE UNCHANGED vars
  BY <1>1, <1>7 DEF vars, boundVars, history
<1> QED BY <1>2, <1>3, <1>4, <1>5, <1>6, <1>7, StepCases

\* With one server, in Redis or in memory, whatever its reaper thread, Redis
\* errors and restarts do: what session_store confirmed stays readable until
\* session_end or the TTL, if no client extends or clears the session.
THEOREM ConfirmedWritesAreKept ==
  ASSUME NEW p \in Pods, Pods = {p}, Requests \cap {"extend_session", "clear_context"} = {}
  PROVE  Spec => []StoredUntilEndOrTtl
<1> DEFINE m == <<p, "main">>
           Inv == /\ ThreadInv /\ ServerInv(m) /\ HandlerInv(m) /\ DeadlineInv(m)
                  /\ LoadInv(m) /\ KeptInv
<1>1. Init => Inv
  <2>1. Init => KeptInv
    BY DEF Init, KeptInv, StoredUntilEndOrTtl, OnTime, Locations
  <2> QED BY <2>1, ThreadInvInit, ServerInvInit, HandlerInit, DeadlineInit, LoadInit
<1>2. Inv /\ [Next]_vars => Inv'
  BY ThreadInvNext, ServerInvNext, HandlerNext, DeadlineNext, LoadNext, KeptNext
<1>3. Inv => StoredUntilEndOrTtl
  BY DEF KeptInv
<1> HIDE DEF Inv
<1> QED BY <1>1, <1>2, <1>3, PTL DEF Spec

(***************************************************************************)
(* One server that keeps sessions in memory implements SessionContract     *)
(***************************************************************************)

\* What the event loop may do to a session it looked at: a save writes a new
\* session or one that is still there, unless that one has expired meanwhile.
WriteInv(m) ==
  /\ pc[m] \in {"pgclose", "delete"} => Op(m) = "close"
  /\ pc[m] = "save" /\ Op(m) = "create" => reg[m].exp <= now + Ttl /\ reg[m].data = {}
  /\ pc[m] = "save" /\ Op(m) # "create" /\ Kept(m, Sid(m)) = None => Expired(reg[m])

ReaperJob(p) == job[<<p, "reaper">>].kind = "reaper"

LEMMA ReaperJobNext ==
  ASSUME NEW p \in Pods, Pods = {p}
  PROVE  ThreadInv /\ ReaperJob(p) /\ [Next]_vars => ReaperJob(p)'
<1> DEFINE m == <<p, "main">>
           r == <<p, "reaper">>
<1> SUFFICES ASSUME TypeOK, Coherent, ReaperJob(p), [Next]_vars
             PROVE  job'[r].kind = "reaper"
  BY DEF ThreadInv, ReaperJob
<1>0. m \in Procs /\ r \in Procs /\ m # r /\ job[r].kind = "reaper" /\ Idle.kind = "reaper"
  BY DEF Procs, ReaperJob, Idle
<1>1. ASSUME NEW kind \in Kinds \ {"reaper"}, NEW s \in Sids, NEW k \in Keys,
             Request(p, kind, s, k)
      PROVE  job'[r].kind = "reaper"
  BY <1>0, <1>1 DEF Request, Begin, TypeOK
<1>2. CASE ThreadStep(m) \/ RedisError(m)
  BY <1>0, <1>2, OthersStand DEF Stands
<1>3. CASE ReaperFires(p)
  BY <1>0, <1>3 DEF ReaperFires, Begin, TypeOK
<1>4. CASE ReaperStep(r) \/ RedisError(r)
  <2>1. UNCHANGED job \/ (pc[r] # "idle" /\ (Return(r) \/ Raise(r)))
    BY <1>4 DEF ReaperStep, ListIds, LookAt, Reap, Metric, Count, RedisError, BackendSteps
  <2>2. CASE pc[r] # "idle" /\ (Return(r) \/ Raise(r))
    <3>1. GoesOn(r)
      BY <1>0, <2>2, ReturnGoesOn, RaiseGoesOn
    <3> QED BY <1>0, <3>1 DEF GoesOn
  <2> QED BY <1>0, <2>1, <2>2
<1>5. CASE Tick \/ UNCHANGED vars
  BY <1>0, <1>5 DEF Tick, vars, serverVars
<1>6. CASE Restart(p)
  BY <1>0, <1>6 DEF Restart, Pod
<1> QED BY <1>1, <1>2, <1>3, <1>4, <1>5, <1>6, StepCases

LEMMA WriteMain ==
  ASSUME TypeOK, Coherent, NEW m \in Procs, WriteInv(m), ThreadStep(m) \/ RedisError(m)
  PROVE  WriteInv(m)'
<1>0. pc[m] # "idle"
  BY MainMoves
<1>1. ASSUME pc'[m] \notin {"save", "pgclose", "delete"} PROVE WriteInv(m)'
  BY <1>1 DEF WriteInv
<1>2. ASSUME GoesOn(m) PROVE WriteInv(m)'
  BY <1>1, <1>2 DEF GoesOn, Holding
<1>3. CASE ListIds(m) \/ LookAt(m) \/ Reap(m)
  <2>1. pc'[m] \in {"scan", "reap", "count"}
    BY <1>3 DEF ListIds, LookAt, Reap, Goto, TypeOK
  <2> QED BY <1>1, <2>1
<1>4. CASE Count(m)
  <2>1. CASE Op(m) \in {"purge", "list"}
    BY <1>0, <1>2, <1>4, <2>1, ReturnGoesOn DEF Count
  <2>2. CASE Op(m) \notin {"purge", "list"}
    <3>1. pc'[m] = "load"
      BY <1>4, <2>2 DEF Count, Goto, TypeOK
    <3> QED BY <1>1, <3>1
  <2> QED BY <2>1, <2>2
<1>5. ASSUME Missing(m), UNCHANGED now PROVE WriteInv(m)'
  <2>1. CASE Op(m) = "create"
    <3> DEFINE new == NewSession(Sid(m), job[m].gen)
    <3>1. Hold(m, new, "save")
      BY <1>5, <2>1 DEF Missing
    <3>2. pc'[m] = "save" /\ reg'[m] = new /\ UNCHANGED <<job, calls>>
      BY <3>1, HoldIs
    <3>3. new.exp = now + Ttl /\ new.data = {} /\ now + Ttl \in Nat
      BY TimeAssumption DEF NewSession, TypeOK
    <3>4. reg'[m].exp <= now' + Ttl /\ reg'[m].data = {} /\ Op(m)' = "create"
      BY <1>5, <2>1, <3>2, <3>3 DEF Op
    <3> QED BY <3>2, <3>4 DEF WriteInv
  <2>2. CASE Op(m) # "create"
    BY <1>0, <1>2, <1>5, <2>2, MissingGoesOn
  <2> QED BY <2>1, <2>2
<1>6. CASE Load(m)
  <2> DEFINE x == Kept(m, Sid(m))
  <2>1. pc[m] = "load" /\ UNCHANGED <<now, store, backend>>
    BY <1>6 DEF Load
  <2>4. CASE x = None
    BY <1>5, <1>6, <2>1, <2>4 DEF Load
  <2>5. CASE x # None /\ Expired(x)
    <3>1. Hold(m, x, "drop")
      BY <1>6, <2>5 DEF Load
    <3>2. pc'[m] = "drop"
      BY <3>1, HoldIs
    <3> QED BY <1>1, <3>2
  <2>6. CASE x # None /\ ~Expired(x)
    <3>1. Found(m, x)
      BY <1>6, <2>6 DEF Load
    <3>2. CASE GoesOn(m)
      BY <1>2, <3>2
    <3>3. CASE Op(m) = "close" /\ Hold(m, x, "pgclose")
      <4>1. pc'[m] = "pgclose" /\ UNCHANGED <<job, calls>>
        BY <3>3, HoldIs
      <4> QED BY <3>3, <4>1 DEF WriteInv, Op
    <3>4. CASE /\ Op(m) \notin {"create", "get", "guard", "close"}
               /\ Hold(m, Modified(Head(calls[m]), x), "save")
      <4>1. pc'[m] = "save" /\ UNCHANGED <<job, calls>>
        BY <3>4, HoldIs
      <4>2. Kept(m, Sid(m))' = x
        BY <2>1, <4>1 DEF Kept, Home, Sid
      <4> QED BY <2>6, <3>4, <4>1, <4>2 DEF WriteInv, Op
    <3> QED BY <1>0, <3>1, <3>2, <3>3, <3>4, FoundSplits
  <2> QED BY <2>4, <2>5, <2>6
<1>7. CASE DropExpired(m)
  BY <1>5, <1>7 DEF DropExpired
<1>8. CASE Save(m)
  <2>1. CASE Op(m) = "create"
    <3>1. Hold(m, reg[m], "pgsave")
      BY <1>8, <2>1 DEF Save
    <3>2. pc'[m] = "pgsave"
      BY <3>1, HoldIs
    <3> QED BY <1>1, <3>2
  <2>2. CASE Op(m) # "create"
    BY <1>0, <1>2, <1>8, <2>2, ReturnGoesOn DEF Save
  <2> QED BY <2>1, <2>2
<1>9. CASE CloseMeta(m)
  <2>1. pc[m] = "pgclose" /\ Hold(m, reg[m], "delete")
    BY <1>9 DEF CloseMeta
  <2>2. pc'[m] = "delete" /\ UNCHANGED <<job, calls>>
    BY <2>1, HoldIs
  <2> QED BY <2>1, <2>2 DEF WriteInv, Op
<1>10. CASE SaveMeta(m) \/ Delete(m) \/ Metric(m) \/ RedisError(m)
  BY <1>0, <1>2, <1>10, ReturnGoesOn, RaiseGoesOn DEF SaveMeta, Delete, Metric, RedisError
<1> QED BY <1>3, <1>4, <1>6, <1>7, <1>8, <1>9, <1>10 DEF ThreadStep

\* Steps of other threads and of the clock: of what the event loop holds for a
\* save, a purge may delete the stored copy, which is then past its deadline.
LEMMA WriteStands ==
  ASSUME TypeOK, Coherent, NEW m \in Procs, WriteInv(m), Stands(m),
         pc[m] # "idle" => Home(m)' = Home(m), now' \in Nat, now <= now',
         pc[m] = "save" /\ Op(m) # "create" /\ Kept(m, Sid(m)) # None
           => Kept(m, Sid(m))' # None \/ Expired(reg[m])
  PROVE  WriteInv(m)'
<1>1. CASE pc[m] # "save"
  BY <1>1 DEF WriteInv, Stands, Op
<1>2. CASE pc[m] = "save"
  <2>1. /\ pc'[m] = "save" /\ reg'[m] = reg[m] /\ Op(m)' = Op(m) /\ Sid(m)' = Sid(m)
        /\ calls'[m] = calls[m]
    BY <1>2 DEF Stands, Op, Sid
  <2>2. reg[m] \in Session
    BY <1>2 DEF Coherent, BusyThread, Holding, TypeOK
  <2>3. reg[m].exp \in Nat /\ now \in Nat /\ Ttl \in Nat
    BY <2>2, TimeAssumption DEF Session, TypeOK
  <2>4. Op(m) = "create" => reg'[m].exp <= now' + Ttl /\ reg'[m].data = {}
    <3>1. Op(m) = "create" => reg[m].exp <= now + Ttl /\ reg[m].data = {}
      BY <1>2 DEF WriteInv
    <3> QED BY <2>1, <2>3, <3>1
  <2>5. Op(m) # "create" /\ Kept(m, Sid(m))' = None => Expired(reg[m])
    <3>1. CASE Kept(m, Sid(m)) # None
      BY <1>2, <3>1
    <3>2. CASE Kept(m, Sid(m)) = None
      BY <1>2, <3>2 DEF WriteInv
    <3> QED BY <3>1, <3>2
  <2>6. Expired(reg[m]) => now' > reg[m].exp
    BY <2>3 DEF Expired
  <2> QED BY <1>2, <2>1, <2>4, <2>5, <2>6 DEF WriteInv, Expired
<1> QED BY <1>1, <1>2

LEMMA WriteReap ==
  ASSUME NEW p \in Pods, "extend_session" \notin Requests, TypeOK, Coherent,
         HandlerInv(<<p, "main">>), DeadlineInv(<<p, "main">>), LoadInv(<<p, "main">>),
         \A s \in Sids : starts[s] <= 1,
         NEW r \in Procs, Reap(r), pc[<<p, "main">>] = "save", Op(<<p, "main">>) # "create",
         Kept(<<p, "main">>, Sid(<<p, "main">>)) # None, Stands(<<p, "main">>),
         Home(<<p, "main">>)' = Home(<<p, "main">>),
         Kept(<<p, "main">>, Sid(<<p, "main">>))' = None
  PROVE  Expired(reg[<<p, "main">>])
<1> DEFINE m == <<p, "main">>
           y == Kept(m, Sid(m))
<1>0. m \in Procs /\ pc[m] # "idle" /\ Op(m) # "purge"
  BY DEF Procs, Coherent, BusyThread, Holding
<1>1. Home(m) \in Locations /\ Sid(m) \in Sids /\ y \in Session
  BY <1>0, BusyHome, NotPurging
<1>2. pc[r] = "reap" /\ pc[r] # "idle" /\ Put(r, reg[r].sid, None)
  BY DEF Reap
<1>3. reg[r] # None /\ Expired(reg[r]) /\ Home(r) \in Locations
  BY <1>2, BusyHome DEF Coherent, BusyThread, DeadlineInv, Reaped
<1>4. reg[r].sid \in Sids
  BY <1>3 DEF TypeOK, Session
<1>5. store'[Home(m)][Sid(m)] = None /\ store[Home(m)][Sid(m)] = y
  BY DEF Kept, Stands, Sid
<1>6. Home(r) = Home(m) /\ reg[r].sid = Sid(m)
  BY <1>1, <1>2, <1>3, <1>4, <1>5 DEF Put, TypeOK
<1>7. store[Home(m)][reg[r].sid].exp = reg[r].exp
  BY <1>1, <1>3, <1>4, <1>5, <1>6, OneDeadline
<1>8. y.exp = reg[r].exp
  BY <1>5, <1>6, <1>7
<1>9. reg[m] = Modified(Head(calls[m]), y)
  BY DEF LoadInv
<1>10. Op(m) # "extend"
  BY <1>0, NeverExtends
<1>11. reg[m].exp = y.exp
  BY <1>1, <1>9, <1>10 DEF Modified, Op, Session
<1> QED BY <1>3, <1>8, <1>11 DEF Expired

LEMMA WriteNext ==
  ASSUME NEW p \in Pods, Pods = {p}, "extend_session" \notin Requests, MaxStarts <= 1
  PROVE  ThreadInv /\ HandlerInv(<<p, "main">>) /\ DeadlineInv(<<p, "main">>)
           /\ LoadInv(<<p, "main">>) /\ OwnMemory(p) /\ (\A s \in Sids : starts[s] <= MaxStarts)
           /\ WriteInv(<<p, "main">>) /\ [Next]_vars => WriteInv(<<p, "main">>)'
<1> DEFINE m == <<p, "main">>
           r == <<p, "reaper">>
<1> SUFFICES ASSUME TypeOK, Coherent, HandlerInv(m), DeadlineInv(m), LoadInv(m), OwnMemory(p),
                    \A s \in Sids : starts[s] <= MaxStarts, WriteInv(m), [Next]_vars
             PROVE  WriteInv(m)'
  BY DEF ThreadInv
<1>0. m \in Procs /\ r \in Procs /\ Pod(m) = p
  BY DEF Procs, Pod
<1>1. \A s \in Sids : starts[s] <= 1
  BY BoundsAssumption DEF TypeOK
<1>2. ASSUME NEW kind \in Kinds \ {"reaper"}, NEW s \in Sids, NEW k \in Keys,
             Request(p, kind, s, k)
      PROVE  WriteInv(m)'
  <2>1. Begin(m, kind, s, starts'[s], k)
    BY <1>2 DEF Request
  <2>2. pc'[m] = Entry(Script(kind, k))
    BY <1>0, <2>1 DEF Begin, TypeOK
  <2>3. pc'[m] \notin {"save", "pgclose", "delete"}
    BY <2>2, ScriptCalls, EntryStep DEF Holding
  <2> QED BY <2>3 DEF WriteInv
<1>3. CASE ThreadStep(m) \/ RedisError(m)
  BY <1>0, <1>3, WriteMain
<1>4. CASE ReaperFires(p) \/ ReaperStep(r) \/ RedisError(r)
  <2>1. /\ Stands(m) /\ UNCHANGED now /\ (~Reap(r) => UNCHANGED store)
        /\ pc[m] # "idle" => backend'[p] = backend[p]
    BY <1>4, ReaperStands
  <2>2. pc[m] # "idle" => Home(m)' = Home(m)
    BY <1>0, <2>1 DEF Home
  <2>3. ASSUME pc[m] = "save", Op(m) # "create", Kept(m, Sid(m)) # None
        PROVE  Kept(m, Sid(m))' # None \/ Expired(reg[m])
    <3>1. CASE Reap(r)
      BY <1>0, <1>1, <2>1, <2>2, <2>3, <3>1, WriteReap
    <3>2. CASE ~Reap(r)
      <4>1. Kept(m, Sid(m))' = Kept(m, Sid(m))
        BY <2>1, <2>2, <2>3, <3>2 DEF Kept, Stands, Sid
      <4> QED BY <2>3, <4>1
    <3> QED BY <3>1, <3>2
  <2> QED BY <1>0, <2>1, <2>2, <2>3, WriteStands DEF TypeOK
<1>5. CASE Tick
  <2>1. Stands(m) /\ UNCHANGED backend /\ now' = now + 1
    BY <1>5 DEF Tick, Stands, serverVars
  <2>2. ASSUME pc[m] = "save" PROVE Kept(m, Sid(m))' = Kept(m, Sid(m))
    <3>1. Home(m) = p /\ Home(m) # Redis
      BY <1>0, <2>2, HomeIsMemory
    <3>2. store'[p] = store[p] /\ Home(m)' = p /\ Sid(m)' = Sid(m)
      BY <1>5, <2>1, <3>1 DEF Tick, TypeOK, Locations, Home, Stands, Sid
    <3> QED BY <3>1, <3>2 DEF Kept
  <2> QED BY <1>0, <2>1, <2>2, WriteStands DEF Home, TypeOK
<1>6. CASE UNCHANGED vars
  <2>1. Stands(m) /\ UNCHANGED <<store, backend, now>>
    BY <1>6 DEF Stands, vars, serverVars
  <2>2. Kept(m, Sid(m))' = Kept(m, Sid(m)) /\ Home(m)' = Home(m)
    BY <2>1 DEF Kept, Home, Sid, Stands
  <2> QED BY <1>0, <2>1, <2>2, WriteStands DEF TypeOK
<1>7. CASE Restart(p)
  <2>1. pc'[m] = "idle"
    BY <1>0, <1>7 DEF Restart
  <2> QED BY <2>1 DEF WriteInv
<1> QED BY <1>2, <1>3, <1>4, <1>5, <1>6, <1>7, StepCases

\* The abstract state: what clients see, and whom the event loop is serving.
Seen == [s \in Sids |-> Visible(s)]
Job0(m) == [kind |-> job[m].kind, sid |-> job[m].sid]

ContractInv(p) ==
  /\ ThreadInv /\ ServerInv(<<p, "main">>) /\ HandlerInv(<<p, "main">>)
  /\ DeadlineInv(<<p, "main">>) /\ LoadInv(<<p, "main">>) /\ OwnMemory(p)
  /\ WriteInv(<<p, "main">>) /\ ReaperJob(p) /\ \A s \in Sids : starts[s] <= MaxStarts

LEMMA ServerIs ==
  ASSUME NEW p \in Pods, Pods = {p}
  PROVE  Server = p
BY DEF Server

LEMMA SeenIs ==
  ASSUME NEW p \in Pods, Pods = {p}
  PROVE  /\ \A s \in Sids : Seen[s] = IF store[p][s] = None \/ Expired(store[p][s]) THEN None
                                     ELSE [exp |-> store[p][s].exp, data |-> store[p][s].data]
         /\ Seen = [s \in Sids |-> Seen[s]]
BY ServerIs DEF Seen, Visible

\* A busy event loop serves its request; the reaper serves nobody.
LEMMA AskingIs ==
  ASSUME NEW p \in Pods, Pods = {p}, HandlerInv(<<p, "main">>), ReaperJob(p)
  PROVE  Asking = IF pc[<<p, "main">>] = "idle" THEN {} ELSE {Job0(<<p, "main">>)}
<1> DEFINE m == <<p, "main">>
           r == <<p, "reaper">>
<1>1. Procs = {m, r} /\ m # r
  BY DEF Procs
<1>2. job[r].kind = "reaper"
  BY DEF ReaperJob
<1>3. CASE pc[m] = "idle"
  <2>1. job[m].kind = "reaper"
    BY <1>3 DEF HandlerInv, Idle
  <2> QED BY <1>1, <1>2, <1>3, <2>1 DEF Asking
<1>4. CASE pc[m] # "idle"
  <2>1. job[m].kind # "reaper"
    BY <1>4 DEF HandlerInv
  <2>2. {q \in Procs : job[q].kind # "reaper"} = {m}
    BY <1>1, <1>2, <2>1
  <2> QED BY <1>4, <2>2 DEF Asking, Job0
<1> QED BY <1>3, <1>4

LEMMA RequestWanted ==
  ASSUME TypeOK, Coherent, NEW p \in Pods, HandlerInv(<<p, "main">>),
         "extend_session" \notin Requests, pc[<<p, "main">>] # "idle"
  PROVE  Job0(<<p, "main">>) \in Contract!Wanted
<1> DEFINE m == <<p, "main">>
<1>1. m \in Procs /\ m[2] = "main"
  BY DEF Procs
<1>2. job[m].kind \in Kinds \ {"reaper", "extend_session"} /\ job[m].sid \in Sids
  BY <1>1 DEF TypeOK, Job, HandlerInv, Coherent, BusyThread, Sid
<1> QED BY <1>2 DEF Job0, Contract!Wanted, Contract!RequestKinds, Contract!Writers, Kinds

\* Taking away sessions that are expired, or none, is not seen.
LEMMA SeenKept ==
  ASSUME NEW p \in Pods, Pods = {p}, UNCHANGED now,
         \A s \in Sids : \/ store'[p][s] = store[p][s]
                         \/ /\ store'[p][s] = None
                            /\ store[p][s] = None \/ Expired(store[p][s])
  PROVE  Seen' = Seen
<1>1. \A s \in Sids : Visible(s)' = Visible(s)
  BY ServerIs DEF Visible, Expired
<1> QED BY <1>1 DEF Seen

LEMMA AskingNextIs ==
  ASSUME NEW p \in Pods, Pods = {p}, HandlerInv(<<p, "main">>)', ReaperJob(p)'
  PROVE  Asking' = IF pc'[<<p, "main">>] = "idle" THEN {} ELSE {Job0(<<p, "main">>)'}
<1> DEFINE m == <<p, "main">>
           r == <<p, "reaper">>
<1>1. Procs = {m, r} /\ m # r
  BY DEF Procs
<1>2. job'[r].kind = "reaper"
  BY DEF ReaperJob
<1>3. CASE pc'[m] = "idle"
  <2>1. job'[m].kind = "reaper"
    BY <1>3 DEF HandlerInv, Idle
  <2> QED BY <1>1, <1>2, <1>3, <2>1 DEF Asking
<1>4. CASE pc'[m] # "idle"
  <2>1. job'[m].kind # "reaper"
    BY <1>4 DEF HandlerInv
  <2>2. {q \in Procs : job'[q].kind # "reaper"} = {m}
    BY <1>1, <1>2, <2>1
  <2> QED BY <1>4, <2>2 DEF Asking, Job0
<1> QED BY <1>3, <1>4

\* A step of the handler answers its request or goes on with it.
LEMMA MainAsking ==
  ASSUME NEW p \in Pods, Pods = {p}, TypeOK, Coherent,
         HandlerInv(<<p, "main">>), ReaperJob(p), HandlerInv(<<p, "main">>)', ReaperJob(p)',
         ThreadStep(<<p, "main">>) \/ RedisError(<<p, "main">>)
  PROVE  /\ Job0(<<p, "main">>) \in Asking
         /\ Asking' \in {Asking, Asking \ {Job0(<<p, "main">>)}}
<1> DEFINE m == <<p, "main">>
<1>1. m \in Procs /\ pc[m] # "idle"
  BY MainMoves DEF Procs
<1>2. Asking = {Job0(m)}
  BY <1>1, AskingIs
<1>3. CASE GoesOn(m)
  <2>1. pc'[m] = "idle" \/ job'[m] = job[m]
    BY <1>3 DEF GoesOn
  <2>2. Asking' = {} \/ Asking' = {Job0(m)}
    BY <2>1, AskingNextIs DEF Job0
  <2> QED BY <1>2, <2>2
<1>4. CASE UNCHANGED <<job, calls>> /\ pc'[m] # "idle"
  BY <1>2, <1>4, AskingNextIs DEF Job0
<1> QED BY <1>1, <1>2, <1>3, <1>4, MainMoves

\* Steps that clients see nothing of, except perhaps an answer.
LEMMA QuietStep ==
  ASSUME NEW r \in Contract!Wanted, UNCHANGED now, Seen' = Seen,
         Asking' \in {Asking, Asking \ {r}}
  PROVE  [Contract!Next]_Contract!vars
<1>1. CASE Asking' = Asking
  BY <1>1 DEF Contract!vars, Seen
<1>2. CASE Asking' = Asking \ {r}
  <2>1. Contract!Answer(r)
    BY <1>2 DEF Contract!Answer, Seen
  <2> QED BY <2>1 DEF Contract!Next
<1> QED BY <1>1, <1>2

LEMMA SeenExcept ==
  ASSUME NEW p \in Pods, Pods = {p}, UNCHANGED now, NEW s \in Sids,
         \A t \in Sids : t # s => store'[p][t] = store[p][t]
  PROVE  Seen' = [Seen EXCEPT ![s] = Visible(s)']
<1>1. \A t \in Sids : t # s => Visible(t)' = Visible(t)
  BY ServerIs DEF Visible, Expired
<1> QED BY <1>1 DEF Seen

\* session_end: the session is gone for its clients.
LEMMA DeleteServes ==
  ASSUME NEW p \in Pods, Pods = {p}, "extend_session" \notin Requests, ContractInv(p),
         ContractInv(p)', Delete(<<p, "main">>)
  PROVE  [Contract!Next]_Contract!vars
<1> DEFINE m == <<p, "main">>
           r == Job0(m)
<1>0. /\ TypeOK /\ Coherent /\ HandlerInv(m) /\ ReaperJob(p) /\ OwnMemory(p) /\ WriteInv(m)
      /\ HandlerInv(m)' /\ ReaperJob(p)'
  BY DEF ContractInv, ThreadInv
<1>1. m \in Procs /\ Pod(m) = p /\ pc[m] = "delete" /\ pc[m] # "idle" /\ UNCHANGED now
  BY DEF Procs, Pod, Delete
<1>2. Home(m) = p /\ Sid(m) \in Sids
  BY <1>0, <1>1, HomeIsMemory, NotPurging DEF Coherent, BusyThread, Holding
<1>3. r \in Contract!Wanted /\ r \in Asking /\ Asking' \in {Asking, Asking \ {r}}
  BY <1>0, <1>1, RequestWanted, MainAsking DEF ThreadStep
<1>4. r.kind = "session_end" /\ r.sid = Sid(m)
  <2>1. calls[m] \in Seq(Calls) /\ calls[m] # <<>>
    BY <1>0, <1>1, BusyHome
  <2>2. 1 \in 1 .. Len(calls[m]) /\ Head(calls[m]) = calls[m][1]
    BY <2>1
  <2>3. calls[m][1].op = "close"
    BY <1>0, <1>1, <2>2 DEF WriteInv, Op
  <2>4. job[m].kind = "session_end"
    BY <1>0, <2>2, <2>3 DEF HandlerInv, Fits
  <2> QED BY <2>4 DEF Job0, Sid
<1>5. /\ store'[p][Sid(m)] = None
      /\ \A t \in Sids : t # Sid(m) => store'[p][t] = store[p][t]
  BY <1>0, <1>2 DEF Delete, Put, TypeOK, Locations
<1> DEFINE s == r.sid
<1>6. /\ s \in Sids /\ store'[p][s] = None
      /\ \A t \in Sids : t # s => store'[p][t] = store[p][t]
  BY <1>2, <1>4, <1>5
<1>7. PICK t0 \in Sids : t0 = s
  BY <1>6
<1>8. Visible(t0)' = None
  BY <1>6, <1>7, ServerIs DEF Visible
<1>9. Seen' = [Seen EXCEPT ![t0] = None]
  BY <1>1, <1>6, <1>7, <1>8, SeenExcept
<1>10. Contract!End(r)
  BY <1>1, <1>3, <1>4, <1>7, <1>9 DEF Contract!End, Contract!Serve, Seen
<1> QED BY <1>3, <1>10 DEF Contract!Next

LEMMA SaveIs ==
  ASSUME NEW p \in Pods, Pods = {p}, "extend_session" \notin Requests, ContractInv(p),
         ContractInv(p)', Save(<<p, "main">>)
  PROVE  LET m == <<p, "main">> IN
         /\ m \in Procs /\ pc[m] = "save" /\ Home(m) = p /\ UNCHANGED now
         /\ Job0(m) \in Contract!Wanted /\ Job0(m) \in Asking
         /\ Asking' \in {Asking, Asking \ {Job0(m)}}
         /\ Sid(m) \in Sids /\ reg[m] \in Session
         /\ Head(calls[m]) \in Calls /\ Fits(Head(calls[m]), job[m].kind)
         /\ Seen' = [Seen EXCEPT ![Sid(m)] =
                       IF Expired(reg[m]) THEN None
                       ELSE [exp |-> reg[m].exp, data |-> reg[m].data]]
<1> DEFINE m == <<p, "main">>
           w == Written(reg[m])
<1>0. /\ TypeOK /\ Coherent /\ HandlerInv(m) /\ ReaperJob(p) /\ OwnMemory(p)
      /\ HandlerInv(m)' /\ ReaperJob(p)'
  BY DEF ContractInv, ThreadInv
<1>1. m \in Procs /\ Pod(m) = p /\ pc[m] = "save" /\ pc[m] # "idle" /\ UNCHANGED now
  BY DEF Procs, Pod, Save
<1>2. Home(m) = p /\ Sid(m) \in Sids
  BY <1>0, <1>1, HomeIsMemory, NotPurging DEF Coherent, BusyThread, Holding
<1>3. Job0(m) \in Contract!Wanted /\ Job0(m) \in Asking /\ Asking' \in {Asking, Asking \ {Job0(m)}}
  BY <1>0, <1>1, RequestWanted, MainAsking DEF ThreadStep
<1>4. reg[m] \in Session
  BY <1>0, <1>1 DEF Coherent, BusyThread, Holding, TypeOK
<1>5. Head(calls[m]) \in Calls /\ Fits(Head(calls[m]), job[m].kind)
  <2>1. calls[m] \in Seq(Calls) /\ calls[m] # <<>>
    BY <1>0, <1>1, BusyHome
  <2>2. 1 \in 1 .. Len(calls[m]) /\ Head(calls[m]) = calls[m][1] /\ Head(calls[m]) \in Calls
    BY <2>1
  <2> QED BY <1>0, <2>2 DEF HandlerInv
<1>6. /\ store'[p][Sid(m)] = w
      /\ \A t \in Sids : t # Sid(m) => store'[p][t] = store[p][t]
  BY <1>0, <1>2 DEF Save, Put, TypeOK, Locations
<1>7. w # None /\ w.exp = reg[m].exp /\ w.data = reg[m].data
  <2>1. w.exp = reg[m].exp /\ w.data = reg[m].data
    BY <1>4 DEF Written, Session
  <2>2. w \in Session
    BY <1>0, <1>4, WrittenType
  <2> QED BY <2>1, <2>2, NoneAssumption
<1> DEFINE s == Sid(m)
<1>8. PICK t0 \in Sids : t0 = s
  BY <1>2
<1>9. store'[p][t0] = w
  BY <1>6, <1>8
<1>11. Visible(t0)' = IF Expired(reg[m]) THEN None ELSE [exp |-> reg[m].exp, data |-> reg[m].data]
  <2>1. Visible(t0)' = IF store'[p][t0] = None THEN None
                       ELSE IF now' > store'[p][t0].exp THEN None
                       ELSE [exp |-> store'[p][t0].exp, data |-> store'[p][t0].data]
    BY ServerIs DEF Visible, Expired
  <2> HIDE DEF w
  <2> QED BY <1>1, <1>7, <1>9, <2>1 DEF Expired
<1>12. Seen' = [Seen EXCEPT ![t0] = IF Expired(reg[m]) THEN None
                                    ELSE [exp |-> reg[m].exp, data |-> reg[m].data]]
  BY <1>1, <1>6, <1>8, <1>11, SeenExcept
<1> QED BY <1>1, <1>2, <1>3, <1>4, <1>5, <1>8, <1>12

\* What the contract's step needs of a session that becomes x.
LEMMA Served ==
  ASSUME NEW r \in Contract!Wanted, r \in Asking, Asking' \in {Asking, Asking \ {r}},
         UNCHANGED now, NEW x, Seen' = [Seen EXCEPT ![r.sid] = x]
  PROVE  Contract!Serve(r, x)
BY DEF Contract!Serve, Seen

\* session_start: the id was free, and the new session starts empty.
LEMMA CreateServes ==
  ASSUME NEW p \in Pods, Pods = {p}, "extend_session" \notin Requests, ContractInv(p),
         ContractInv(p)', Save(<<p, "main">>), Op(<<p, "main">>) = "create"
  PROVE  [Contract!Next]_Contract!vars
<1> DEFINE m == <<p, "main">>
           r == Job0(m)
           s == Sid(m)
           x == IF Expired(reg[m]) THEN None ELSE [exp |-> reg[m].exp, data |-> reg[m].data]
<1>1. /\ m \in Procs /\ pc[m] = "save" /\ Home(m) = p /\ UNCHANGED now
      /\ r \in Contract!Wanted /\ r \in Asking /\ Asking' \in {Asking, Asking \ {r}}
      /\ s \in Sids /\ reg[m] \in Session
      /\ Fits(Head(calls[m]), job[m].kind)
      /\ Seen' = [Seen EXCEPT ![s] = x]
  BY SaveIs
<1>2. /\ r.sid = s /\ r.kind = "session_start"
  BY <1>1 DEF Job0, Sid, Fits, Op
<1>3. store[p][s] = None
  BY <1>1 DEF ContractInv, ServerInv, Creating
<1>4. Seen[s] = None /\ Seen = [t \in Sids |-> Seen[t]]
  BY <1>1, <1>3, SeenIs
<1>5. reg[m].exp <= now + Ttl /\ reg[m].data = {} /\ reg[m].exp \in Nat /\ now \in Nat
  BY <1>1 DEF ContractInv, ThreadInv, WriteInv, TypeOK, Session
<1>6. CASE Expired(reg[m])
  <2>1. Seen' = Seen
    BY <1>1, <1>4, <1>6
  <2> QED BY <1>1, <2>1, QuietStep
<1>7. CASE ~Expired(reg[m])
  <2>1. reg[m].exp \in now .. now + Ttl
    BY <1>5, <1>7, TimeAssumption DEF Expired
  <2>2. x = [exp |-> reg[m].exp, data |-> {}]
    BY <1>5, <1>7
  <2>3. Contract!Serve(r, [exp |-> reg[m].exp, data |-> {}])
    BY <1>1, <1>2, <2>2, Served
  <2>4. Contract!Start(r)
    BY <1>2, <1>4, <2>1, <2>3 DEF Contract!Start, Seen
  <2> QED BY <1>1, <2>4 DEF Contract!Next
<1> QED BY <1>6, <1>7

\* The read-modify-write calls: what they save is what is stored now, modified.
LEMMA SaveServes ==
  ASSUME NEW p \in Pods, Pods = {p}, "extend_session" \notin Requests, ContractInv(p),
         ContractInv(p)', Save(<<p, "main">>), Op(<<p, "main">>) # "create"
  PROVE  [Contract!Next]_Contract!vars
<1> DEFINE m == <<p, "main">>
           r == Job0(m)
           s == Sid(m)
           c == Head(calls[m])
           y == store[p][s]
           x == IF Expired(reg[m]) THEN None ELSE [exp |-> reg[m].exp, data |-> reg[m].data]
<1>1. /\ m \in Procs /\ pc[m] = "save" /\ Home(m) = p /\ UNCHANGED now
      /\ r \in Contract!Wanted /\ r \in Asking /\ Asking' \in {Asking, Asking \ {r}}
      /\ s \in Sids /\ reg[m] \in Session
      /\ c \in Calls /\ Fits(c, job[m].kind)
      /\ Seen' = [Seen EXCEPT ![s] = x]
  BY SaveIs
<1>2. r.sid = s /\ r.kind = job[m].kind /\ Kept(m, s) = y /\ c.op = Op(m)
  BY <1>1 DEF Job0, Sid, Kept, Op
<1>3. /\ y # None => reg[m] = Modified(c, y)
      /\ y = None => Expired(reg[m])
  BY <1>1, <1>2 DEF ContractInv, LoadInv, WriteInv
<1>4. y \in Session \cup {None}
  BY <1>1 DEF ContractInv, ThreadInv, TypeOK, Locations
<1>5. c.op # "extend"
  BY <1>1, <1>2, NeverExtends DEF ContractInv, ThreadInv
<1>6. y # None => reg[m].exp = y.exp
  BY <1>3, <1>4, <1>5 DEF Modified, Session
<1>7. Seen[s] = (IF y = None \/ Expired(y) THEN None ELSE [exp |-> y.exp, data |-> y.data])
      /\ Seen = [t \in Sids |-> Seen[t]]
  BY <1>1, SeenIs
<1>8. CASE Expired(reg[m])
  <2>1. y = None \/ Expired(y)
    BY <1>6, <1>8 DEF Expired
  <2>2. Seen' = Seen
    BY <1>1, <1>7, <1>8, <2>1
  <2> QED BY <1>1, <2>2, QuietStep
<1>9. CASE ~Expired(reg[m])
  <2>1. y # None /\ ~Expired(y) /\ y \in Session
    BY <1>3, <1>4, <1>6, <1>9 DEF Expired
  <2>2. Seen[s] = [exp |-> y.exp, data |-> y.data] /\ Seen[s] # None
    <3>1. [exp |-> y.exp, data |-> y.data] # None
      BY <2>1, UnseenAssumption DEF Session
    <3> QED BY <1>7, <2>1, <3>1
  <2>3. x = [exp |-> y.exp, data |-> Modified(c, y).data]
    BY <1>3, <1>6, <1>9, <2>1
  <2>4. CASE c.op \in {"store", "add"}
    <3>1. c.key \in Items
      BY <1>1, <2>4 DEF Calls, Keyed, Ops
    <3>2. x = [Seen[s] EXCEPT !.data = @ \cup {c.key}]
      BY <2>1, <2>2, <2>3, <2>4 DEF Modified, Session
    <3>3. r.kind \in Contract!Writers
      BY <1>1, <1>2, <2>4 DEF Fits, Writing, Contract!Writers
    <3>4. Contract!Serve(r, [Seen[r.sid] EXCEPT !.data = @ \cup {c.key}])
      BY <1>1, <1>2, <3>2, Served
    <3>5. Contract!Write(r)
      BY <1>2, <2>2, <3>1, <3>3, <3>4 DEF Contract!Write, Seen
    <3> QED BY <1>1, <3>5 DEF Contract!Next
  <2>5. CASE c.op = "clear"
    <3>0. Modified(c, y).data = y.data \cap Internal
      BY <2>1, <2>5 DEF Modified, Session
    <3>1. x = [Seen[s] EXCEPT !.data = @ \cap Internal]
      BY <2>2, <2>3, <3>0
    <3>2. r.kind = "clear_context"
      BY <1>1, <1>2, <2>5 DEF Fits
    <3>3. Contract!Serve(r, [Seen[r.sid] EXCEPT !.data = @ \cap Internal])
      BY <1>1, <1>2, <3>1, Served
    <3>4. Contract!Clear(r)
      BY <1>2, <2>2, <3>2, <3>3 DEF Contract!Clear, Seen
    <3> QED BY <1>1, <3>4 DEF Contract!Next
  <2>6. CASE c.op \notin {"store", "add", "clear"}
    <3>1. Modified(c, y) = y
      BY <1>5, <2>6 DEF Modified
    <3>2. x = Seen[s]
      BY <2>2, <2>3, <3>1
    <3>3. Seen' = Seen
      BY <1>1, <1>7, <3>2
    <3> QED BY <1>1, <3>3, QuietStep
  <2> QED BY <2>4, <2>5, <2>6
<1> QED BY <1>8, <1>9

\* A purge, by whichever thread, deletes nothing that clients still see.
LEMMA ReapUnseen ==
  ASSUME NEW p \in Pods, Pods = {p}, ContractInv(p), MaxStarts <= 1,
         NEW q \in Procs, Reap(q)
  PROVE  Seen' = Seen
<1> DEFINE m == <<p, "main">>
           s == reg[q].sid
<1>0. TypeOK /\ Coherent /\ OwnMemory(p) /\ DeadlineInv(m)
  BY DEF ContractInv, ThreadInv
<1>1. pc[q] = "reap" /\ pc[q] # "idle" /\ Pod(q) = p /\ UNCHANGED now /\ Put(q, s, None)
  BY DEF Reap, Procs, Pod
<1>2. Home(q) = p /\ p \in Locations
  BY <1>0, <1>1, HomeIsMemory DEF Locations
<1>3. reg[q] # None /\ Expired(reg[q]) /\ s \in Sids
  BY <1>0, <1>1 DEF Coherent, BusyThread, DeadlineInv, Reaped, TypeOK, Session
<1>4. starts[s] <= 1
  BY <1>0, <1>3, BoundsAssumption DEF ContractInv, TypeOK
<1>5. store[p][s] = None \/ Expired(store[p][s])
  <2>1. store[p][s] # None => store[p][s].exp = reg[q].exp
    BY <1>0, <1>2, <1>3, <1>4, OneDeadline
  <2> QED BY <1>3, <2>1 DEF Expired
<1>6. \A t \in Sids : store'[p][t] = IF t = s THEN None ELSE store[p][t]
  BY <1>0, <1>1, <1>2, <1>3 DEF Put, TypeOK
<1> QED BY <1>1, <1>5, <1>6, SeenKept

LEMMA DropUnseen ==
  ASSUME NEW p \in Pods, Pods = {p}, ContractInv(p), DropExpired(<<p, "main">>)
  PROVE  Seen' = Seen
<1> DEFINE m == <<p, "main">>
           s == Sid(m)
<1>0. TypeOK /\ Coherent /\ OwnMemory(p) /\ LoadInv(m)
  BY DEF ContractInv, ThreadInv
<1>1. /\ m \in Procs /\ Pod(m) = p /\ pc[m] = "drop" /\ pc[m] # "idle" /\ UNCHANGED now
      /\ Put(m, s, None)
  BY DEF DropExpired, Procs, Pod
<1>2. Home(m) = p /\ p \in Locations /\ s \in Sids
  BY <1>0, <1>1, HomeIsMemory, NotPurging DEF Coherent, BusyThread, Locations
<1>3. store[p][s] = None \/ Expired(store[p][s])
  BY <1>0, <1>1, <1>2 DEF LoadInv, Kept
<1>4. \A t \in Sids : store'[p][t] = IF t = s THEN None ELSE store[p][t]
  BY <1>0, <1>1, <1>2 DEF Put, TypeOK
<1> QED BY <1>1, <1>3, <1>4, SeenKept

\* Every step of the event loop is a step of the contract, or is not seen.
LEMMA MainServes ==
  ASSUME NEW p \in Pods, Pods = {p}, "extend_session" \notin Requests, MaxStarts <= 1,
         ContractInv(p), ContractInv(p)', ThreadStep(<<p, "main">>) \/ RedisError(<<p, "main">>)
  PROVE  [Contract!Next]_Contract!vars
<1> DEFINE m == <<p, "main">>
           r == Job0(m)
<1>0. /\ TypeOK /\ Coherent /\ HandlerInv(m) /\ ReaperJob(p)
      /\ HandlerInv(m)' /\ ReaperJob(p)'
  BY DEF ContractInv, ThreadInv
<1>1. m \in Procs /\ pc[m] # "idle"
  BY <1>0, MainMoves DEF Procs
<1>2. r \in Contract!Wanted /\ Asking' \in {Asking, Asking \ {r}}
  BY <1>0, <1>1, RequestWanted, MainAsking
<1>3. ASSUME Seen' = Seen, UNCHANGED now PROVE [Contract!Next]_Contract!vars
  BY <1>2, <1>3, QuietStep
<1>4. CASE Save(m)
  BY <1>4, CreateServes, SaveServes
<1>5. CASE Delete(m)
  BY <1>5, DeleteServes
<1>6. CASE Reap(m)
  <2>1. UNCHANGED now
    BY <1>6 DEF Reap
  <2> QED BY <1>1, <1>3, <1>6, <2>1, ReapUnseen
<1>7. CASE DropExpired(m)
  <2>1. UNCHANGED now
    BY <1>7 DEF DropExpired
  <2> QED BY <1>3, <1>7, <2>1, DropUnseen
<1>8. CASE ListIds(m) \/ LookAt(m) \/ Count(m) \/ Load(m) \/ SaveMeta(m) \/ CloseMeta(m)
             \/ Metric(m) \/ RedisError(m)
  <2>1. UNCHANGED <<now, store>>
    BY <1>8 DEF ListIds, LookAt, Count, Load, SaveMeta, CloseMeta, Metric, RedisError
  <2>2. Seen' = Seen
    BY <2>1, SeenKept
  <2> QED BY <1>3, <2>1, <2>2
<1> QED BY <1>4, <1>5, <1>6, <1>7, <1>8 DEF ThreadStep

\* Nor is the reaper thread seen.
LEMMA ReaperUnseen ==
  ASSUME NEW p \in Pods, Pods = {p}, MaxStarts <= 1, ContractInv(p), ContractInv(p)',
         ReaperFires(p) \/ ReaperStep(<<p, "reaper">>) \/ RedisError(<<p, "reaper">>)
  PROVE  UNCHANGED Contract!vars
<1> DEFINE m == <<p, "main">>
           r == <<p, "reaper">>
<1>0. /\ TypeOK /\ Coherent /\ HandlerInv(m) /\ ReaperJob(p)
      /\ HandlerInv(m)' /\ ReaperJob(p)' /\ r \in Procs
  BY DEF ContractInv, ThreadInv, Procs
<1>1. Stands(m) /\ UNCHANGED now /\ (~Reap(r) => UNCHANGED store)
  BY <1>0, ReaperStands
<1>2. Asking' = Asking
  <2>1. pc'[m] = pc[m] /\ job'[m] = job[m]
    BY <1>1 DEF Stands
  <2>2. Asking = IF pc[m] = "idle" THEN {} ELSE {Job0(m)}
    BY <1>0, AskingIs
  <2>3. Asking' = IF pc'[m] = "idle" THEN {} ELSE {Job0(m)'}
    BY <1>0, AskingNextIs
  <2> QED BY <2>1, <2>2, <2>3 DEF Job0
<1>3. Seen' = Seen
  <2>1. CASE Reap(r)
    BY <1>0, <2>1, ReapUnseen
  <2>2. CASE ~Reap(r)
    BY <1>1, <2>2, SeenKept
  <2> QED BY <2>1, <2>2
<1> QED BY <1>1, <1>2, <1>3 DEF Contract!vars, Seen

LEMMA RequestAsks ==
  ASSUME NEW p \in Pods, Pods = {p}, "extend_session" \notin Requests,
         ContractInv(p), ContractInv(p)',
         NEW kind \in Kinds \ {"reaper"}, NEW s \in Sids, NEW k \in Keys, Request(p, kind, s, k)
  PROVE  [Contract!Next]_Contract!vars
<1> DEFINE m == <<p, "main">>
           r == [kind |-> kind, sid |-> s]
<1>0. /\ TypeOK /\ Coherent /\ HandlerInv(m) /\ ReaperJob(p)
      /\ HandlerInv(m)' /\ ReaperJob(p)' /\ m \in Procs
  BY DEF ContractInv, ThreadInv, Procs
<1>1. kind \in Requests /\ Begin(m, kind, s, starts'[s], k)
  BY DEF Request
<1>2. /\ pc[m] = "idle" /\ UNCHANGED <<now, store>>
      /\ job'[m] = [kind |-> kind, sid |-> s, gen |-> starts'[s]]
  BY <1>0, <1>1 DEF Begin, TypeOK
<1>3. r \in Contract!Wanted
  BY <1>1 DEF Contract!Wanted, Contract!RequestKinds, Contract!Writers, Kinds
<1>4. Asking = {}
  BY <1>0, <1>2, AskingIs
<1>5. Asking' = {} \/ Asking' = {r}
  <2>1. Asking' = IF pc'[m] = "idle" THEN {} ELSE {Job0(m)'}
    BY <1>0, AskingNextIs
  <2>2. Job0(m)' = r
    BY <1>2 DEF Job0
  <2> QED BY <2>1, <2>2
<1>6. Seen' = Seen
  BY <1>2, SeenKept
<1>7. CASE Asking' = {}
  <2>1. Asking' \in {Asking, Asking \ {r}}
    BY <1>4, <1>7
  <2> QED BY <1>2, <1>3, <1>6, <2>1, QuietStep
<1>8. CASE Asking' = {r}
  <2>1. Contract!Ask(r)
    BY <1>2, <1>4, <1>6, <1>8 DEF Contract!Ask, Seen
  <2> QED BY <1>3, <2>1 DEF Contract!Next
<1> QED BY <1>5, <1>7, <1>8

LEMMA TickIsSeen ==
  ASSUME NEW p \in Pods, Pods = {p}, ContractInv(p), Tick
  PROVE  Contract!Tick
<1>0. TypeOK /\ p # Redis /\ p \in Locations
  BY NamesAssumption DEF ContractInv, ThreadInv, Locations
<1>1. now' = now + 1 /\ store'[p] = store[p] /\ UNCHANGED job
  BY <1>0 DEF Tick, TypeOK, serverVars
<1>2. ASSUME NEW s \in Sids
      PROVE  Visible(s)' = IF Visible(s) # None /\ now + 1 > Visible(s).exp THEN None
                           ELSE Visible(s)
  <2> DEFINE y == store[p][s]
  <2>1. Visible(s) = IF y = None THEN None ELSE IF now > y.exp THEN None
                     ELSE [exp |-> y.exp, data |-> y.data]
    BY ServerIs DEF Visible, Expired
  <2>2. Visible(s)' = IF y = None THEN None ELSE IF now + 1 > y.exp THEN None
                      ELSE [exp |-> y.exp, data |-> y.data]
    BY <1>1, ServerIs DEF Visible, Expired
  <2>3. CASE y = None
    BY <2>1, <2>2, <2>3
  <2>4. CASE y # None
    <3>1. y \in Session
      BY <1>0, <2>4 DEF TypeOK
    <3>2. y.exp \in Nat /\ now \in Nat /\ [exp |-> y.exp, data |-> y.data] # None
      BY <1>0, <3>1, UnseenAssumption DEF Session, TypeOK
    <3> QED BY <2>1, <2>2, <2>4, <3>2
  <2> QED BY <2>3, <2>4
<1>3. Asking' = Asking
  BY <1>1 DEF Asking
<1> QED BY <1>1, <1>2, <1>3 DEF Contract!Tick

LEMMA RestartCrashes ==
  ASSUME NEW p \in Pods, Pods = {p}, ContractInv(p), ContractInv(p)', Restart(p)
  PROVE  Contract!Crash
<1> DEFINE m == <<p, "main">>
<1>0. TypeOK /\ HandlerInv(m)' /\ ReaperJob(p)' /\ m \in Procs /\ Pod(m) = p /\ p \in Locations
  BY DEF ContractInv, ThreadInv, Procs, Pod, Locations
<1>1. UNCHANGED now /\ pc'[m] = "idle" /\ \A s \in Sids : store'[p][s] = None
  BY <1>0 DEF Restart, TypeOK
<1>2. Asking' = {}
  BY <1>0, <1>1, AskingNextIs
<1>3. \A s \in Sids : Visible(s)' = None
  BY <1>1, ServerIs DEF Visible
<1> QED BY <1>1, <1>2, <1>3 DEF Contract!Crash

LEMMA ContractNext ==
  ASSUME NEW p \in Pods, Pods = {p}, Homes = {"memory"}, "extend_session" \notin Requests,
         MaxStarts <= 1
  PROVE  ContractInv(p) /\ [Next]_vars => ContractInv(p)'
<1>1. ContractInv(p) /\ [Next]_vars => OwnMemory(p)'
  BY MemoryStays DEF ContractInv, ThreadInv
<1> QED BY <1>1, ThreadInvNext, ServerInvNext, HandlerNext, DeadlineNext, LoadNext, WriteNext,
           ReaperJobNext, StartsBounded
        DEF ContractInv

\* One server that keeps its sessions in memory implements the session service
\* of SessionContract: whatever its threads, its purges and its late saves do, a
\* client sees a session from session_start to session_end or its TTL, and never
\* after.
THEOREM SessionsImplementTheContract ==
  ASSUME NEW p \in Pods, Pods = {p}, Homes = {"memory"}, "extend_session" \notin Requests,
         MaxStarts <= 1
  PROVE  Spec => ImplementsContract
<1> DEFINE m == <<p, "main">>
<1>1. Init => ContractInv(p)
  <2>1. Init => OwnMemory(p)
    BY OwnMemoryInit
  <2>2. Init => \A s \in Sids : starts[s] <= MaxStarts
    BY BoundsAssumption DEF Init
  <2>3. Init => WriteInv(m) /\ ReaperJob(p)
    BY DEF Init, WriteInv, ReaperJob, Idle, Procs
  <2> QED BY <2>1, <2>2, <2>3, ThreadInvInit, ServerInvInit, HandlerInit, DeadlineInit, LoadInit
          DEF ContractInv
<1>2. Init => Contract!Init
  <2> SUFFICES ASSUME Init PROVE Contract!Init
    OBVIOUS
  <2>1. now = 0 /\ \A s \in Sids : store[p][s] = None
    BY DEF Init, Locations
  <2>2. \A s \in Sids : Visible(s) = None
    BY <2>1, ServerIs DEF Visible
  <2>3. Asking = {}
    BY DEF Init, Asking, Idle
  <2> QED BY <2>1, <2>2, <2>3 DEF Contract!Init
<1>3. ContractInv(p) /\ [Next]_vars => ContractInv(p)'
  BY ContractNext
<1>4. ContractInv(p) /\ ContractInv(p)' /\ [Next]_vars => [Contract!Next]_Contract!vars
  <2> SUFFICES ASSUME ContractInv(p), ContractInv(p)', [Next]_vars
               PROVE  [Contract!Next]_Contract!vars
    OBVIOUS
  <2>0. TypeOK /\ Coherent
    BY DEF ContractInv, ThreadInv
  <2>1. ASSUME NEW kind \in Kinds \ {"reaper"}, NEW s \in Sids, NEW k \in Keys,
               Request(p, kind, s, k)
        PROVE  [Contract!Next]_Contract!vars
    BY <2>1, RequestAsks
  <2>2. CASE ReaperFires(p) \/ ReaperStep(<<p, "reaper">>) \/ RedisError(<<p, "reaper">>)
    BY <2>2, ReaperUnseen
  <2>3. CASE ThreadStep(m) \/ RedisError(m)
    BY <2>3, MainServes
  <2>4. CASE Tick
    BY <2>4, TickIsSeen DEF Contract!Next
  <2>5. CASE Restart(p)
    BY <2>5, RestartCrashes DEF Contract!Next
  <2>6. CASE UNCHANGED vars
    <3>1. Seen' = Seen
      BY <2>6, SeenKept DEF vars
    <3>2. Asking' = Asking
      BY <2>6 DEF vars, serverVars, Asking
    <3> QED BY <2>6, <3>1, <3>2 DEF vars, Contract!vars, Seen
  <2> QED BY <2>0, <2>1, <2>2, <2>3, <2>4, <2>5, <2>6, StepCases
<1> QED BY <1>1, <1>2, <1>3, <1>4, PTL DEF Spec, ImplementsContract, Contract!Spec

===============================================================================
