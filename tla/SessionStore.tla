---------------------------- MODULE SessionStore ----------------------------
(***************************************************************************)
(* Working-memory sessions: the session_* tools of mcp_server.py, the      *)
(* adapter _WorkingMemorySessionAdapter, WorkingMemoryManager and its two   *)
(* backends.  Every pod runs two threads: the event loop ("main"), which    *)
(* serves one session tool at a time because the handlers never await, and  *)
(* the APScheduler thread ("reaper"), which purges expired sessions.        *)
(*                                                                         *)
(* One step is one backend command (KEYS, GET, SETEX, DEL), one audit write *)
(* or one gauge update.  A handler is a list of adapter calls; each adapter *)
(* call first purges and then performs its own load / save / delete.        *)
(* A pod stores its sessions in Redis, or in its own memory when Redis did  *)
(* not answer the ping that preceded its first session call.                *)
(***************************************************************************)
EXTENDS Integers, Sequences, FiniteSets

CONSTANTS
  Pods,           \* server processes
  Sids,           \* session ids that clients use
  Keys,           \* metadata keys and context entries that clients store
  Redis,          \* the location every pod with a RedisBackend shares
  None,           \* no session / backend not chosen yet
  Homes,          \* backends the ping may lead to: a subset of {"redis", "memory"}
  Requests,       \* the kinds of request the clients of this instance send
  Second,         \* clock ticks per second
  Ttl,            \* ttl_seconds of a new session, in ticks
  Extra,          \* extra_seconds of extend_session, in ticks
  MaxTime,        \* bound: the clock
  MaxRequests,    \* bound: requests in all
  MaxStarts,      \* bound: session_start requests per session id
  MaxMishaps      \* bound: Redis errors and pod restarts in all

ASSUME TimeAssumption ==
  /\ Second \in Nat \ {0}
  /\ Ttl \in Nat
  /\ Extra \in Nat
ASSUME BoundsAssumption ==
  /\ MaxTime \in Nat
  /\ MaxRequests \in Nat
  /\ MaxStarts \in Nat
  /\ MaxMishaps \in Nat
ASSUME NamesAssumption ==
  /\ Redis \notin Pods
  /\ None \notin Pods \cup Sids \cup {Redis}
  /\ Homes \subseteq {"redis", "memory"}

Internal == {"_task_type", "_started_at", "_last_context"}
Items == Keys \cup Internal
Locations == Pods \cup {Redis}
Procs == Pods \X {"main", "reaper"}
Pod(pr) == pr[1]

Kinds == {"session_start", "session_store", "session_retrieve", "session_end",
          "build_context", "extend_session", "add_context", "clear_context",
          "list_active_sessions", "reaper"}

\* A stored session.  gen tells two sessions with one id apart (created_at);
\* exp is expires_at, dies the instant at which Redis drops the key.
Session == [sid : Sids, gen : Nat, exp : Nat, dies : Nat, data : SUBSET Items]

ASSUME NoneAssumption == None \notin Session

Ops == {"purge", "list", "create", "store", "retrieve", "get", "guard",
        "close", "add", "clear", "extend", "inc", "dec"}
Keyed == {"store", "retrieve", "add"}
Call(op, k) == [op |-> op, key |-> k]
Calls == [op : Keyed, key : Items] \cup [op : Ops \ Keyed, key : {"-"}]
Job == [kind : Kinds, sid : Sids \cup {None}, gen : Nat]
Idle == [kind |-> "reaper", sid |-> None, gen |-> 0]

VARIABLES
  now,       \* the clock
  store,     \* store[l][s]: the session kept under id s at location l, or None
  backend,   \* backend[p]: the location pod p keeps sessions at, None before first use
  gauge,     \* gauge[p]: ACTIVE_SESSIONS of pod p
  meta,      \* meta[s]: the sessions_meta row of s: "none", "open" or "closed"
  pc,        \* pc[pr]: the next step of thread pr
  job,       \* job[pr]: the request thread pr serves
  calls,     \* calls[pr]: the adapter calls it still has to make
  pend,      \* pend[pr]: ids its purge has listed and not looked at
  purged,    \* purged[pr]: sessions its purge has deleted
  reg,       \* reg[pr]: the session object it holds
  starts,    \* starts[s]: session_start requests sent for s
  issued,    \* requests sent
  mishaps,   \* Redis errors and restarts so far
  acked,     \* writes session_store has confirmed (history)
  ended      \* sessions session_end has closed (history)

serverVars == <<pc, job, calls, pend, purged, reg>>
boundVars == <<starts, issued, mishaps>>
history == <<acked, ended>>
vars == <<now, store, backend, gauge, meta, serverVars, boundVars, history>>

Steps == {"idle", "keys", "scan", "reap", "count", "load", "drop", "save",
          "pgsave", "pgclose", "delete", "metric"}

(***************************************************************************)
(* Sessions and requests                                                   *)
(***************************************************************************)

\* Variant: a session counts as expired at its deadline, not after it.
ExpiredAtDeadline(x) == now >= x.exp
Expired(x) == now > x.exp

\* RedisBackend.save: SETEX with max(1, int(remaining_seconds)).
Seconds(x) == LET whole == (x.exp - now) \div Second
              IN IF whole < 1 THEN 1 ELSE whole
Written(x) == [x EXCEPT !.dies = now + Seconds(x) * Second]

NewSession(s, g) ==
  [sid |-> s, gen |-> g, exp |-> now + Ttl, dies |-> now, data |-> {}]

\* Variant: clear_context clears the metadata as well.
ModifiedClearsAll(c, x) ==
  CASE c.op \in {"store", "add"} -> [x EXCEPT !.data = @ \cup {c.key}]
    [] c.op = "clear"            -> [x EXCEPT !.data = {}]
    [] OTHER                     -> x

\* The modification between load and save of the read-modify-write calls.
Modified(c, x) ==
  CASE c.op \in {"store", "add"} -> [x EXCEPT !.data = @ \cup {c.key}]
    [] c.op = "clear"            -> [x EXCEPT !.data = @ \cap Internal]
    [] c.op = "extend"           -> [x EXCEPT !.exp = @ + Extra]
    [] OTHER                     -> x

\* The adapter calls a handler makes, in order.
Script(kind, k) ==
  CASE kind = "session_start" ->
         <<Call("create", "-"), Call("store", "_task_type"),
           Call("store", "_started_at"), Call("inc", "-")>>
    [] kind = "session_store" -> <<Call("store", k)>>
    [] kind = "session_retrieve" -> <<Call("retrieve", k)>>
    [] kind = "session_end" ->
         <<Call("retrieve", "_task_type"), Call("retrieve", "_started_at"),
           Call("close", "-"), Call("dec", "-")>>
    [] kind = "build_context" ->
         <<Call("get", "-"), Call("guard", "-"), Call("store", "_last_context"),
           Call("store", "_last_context"), Call("retrieve", "_task_type")>>
    [] kind = "extend_session" -> <<Call("extend", "-")>>
    [] kind = "add_context" -> <<Call("add", k)>>
    [] kind = "clear_context" -> <<Call("clear", "-")>>
    [] kind = "list_active_sessions" -> <<Call("list", "-")>>
    [] OTHER -> <<Call("purge", "-")>>

\* What is left of a handler after its next call raised: session_start and
\* session_end swallow the exceptions of their bookkeeping calls.
Recover(kind, cs) ==
  CASE kind = "session_start" /\ Head(cs).op = "store" -> <<Call("inc", "-")>>
    [] kind = "session_end" /\ Head(cs).op = "retrieve" -> Tail(cs)
    [] OTHER -> <<>>

\* Calls on the manager itself go straight to the backend; adapter calls purge.
Direct == {"add", "clear", "extend"}
Entry(cs) ==
  IF cs = <<>> THEN "idle"
  ELSE IF Head(cs).op \in {"inc", "dec"} THEN "metric"
  ELSE IF Head(cs).op \in Direct THEN "load"
  ELSE "keys"

Op(pr) == Head(calls[pr]).op
Sid(pr) == job[pr].sid
Home(pr) == backend[Pod(pr)]
Kept(pr, s) == store[Home(pr)][s]
Put(pr, s, x) == store' = [store EXCEPT ![Home(pr)][s] = x]
Goto(pr, step) == pc' = [pc EXCEPT ![pr] = step]

\* Thread pr goes on with the calls cs, or ends its handler.
Resume(pr, cs) ==
  /\ calls' = [calls EXCEPT ![pr] = cs]
  /\ pc' = [pc EXCEPT ![pr] = Entry(cs)]
  /\ reg' = [reg EXCEPT ![pr] = None]
  /\ pend' = [pend EXCEPT ![pr] = {}]
  /\ purged' = [purged EXCEPT ![pr] = 0]
  /\ job' = IF cs = <<>> THEN [job EXCEPT ![pr] = Idle] ELSE job
Return(pr) == Resume(pr, Tail(calls[pr]))
Raise(pr) == Resume(pr, Recover(job[pr].kind, calls[pr]))

\* Thread pr keeps the object x and goes on at step.
Hold(pr, x, step) ==
  /\ reg' = [reg EXCEPT ![pr] = x]
  /\ Goto(pr, step)
  /\ UNCHANGED <<job, calls, pend, purged>>

Init ==
  /\ now = 0
  /\ store = [l \in Locations |-> [s \in Sids |-> None]]
  /\ backend = [p \in Pods |-> None]
  /\ gauge = [p \in Pods |-> 0]
  /\ meta = [s \in Sids |-> "none"]
  /\ pc = [pr \in Procs |-> "idle"]
  /\ job = [pr \in Procs |-> Idle]
  /\ calls = [pr \in Procs |-> <<>>]
  /\ pend = [pr \in Procs |-> {}]
  /\ purged = [pr \in Procs |-> 0]
  /\ reg = [pr \in Procs |-> None]
  /\ starts = [s \in Sids |-> 0]
  /\ issued = 0
  /\ mishaps = 0
  /\ acked = {}
  /\ ended = {}

(***************************************************************************)
(* Requests                                                                *)
(***************************************************************************)

\* _get_session_manager: the first use of a pod fixes its backend for good.
ChooseBackend(p) ==
  IF backend[p] # None THEN UNCHANGED backend
  ELSE \E h \in Homes :
         backend' = [backend EXCEPT ![p] = IF h = "redis" THEN Redis ELSE p]

Begin(pr, kind, s, g, k) ==
  /\ pc[pr] = "idle"
  /\ ChooseBackend(Pod(pr))
  /\ job' = [job EXCEPT ![pr] = [kind |-> kind, sid |-> s, gen |-> g]]
  /\ calls' = [calls EXCEPT ![pr] = Script(kind, k)]
  /\ pc' = [pc EXCEPT ![pr] = Entry(Script(kind, k))]
  /\ UNCHANGED <<now, store, gauge, meta, pend, purged, reg, mishaps, history>>

Request(p, kind, s, k) ==
  /\ kind \in Requests
  /\ issued < MaxRequests
  /\ issued' = issued + 1
  /\ IF kind = "session_start"
     THEN /\ starts[s] < MaxStarts
          /\ starts' = [starts EXCEPT ![s] = @ + 1]
     ELSE UNCHANGED starts
  /\ Begin(<<p, "main">>, kind, s, starts'[s], k)

ReaperFires(p) ==
  /\ Begin(<<p, "reaper">>, "reaper", None, 0, "-")
  /\ UNCHANGED <<starts, issued>>

(***************************************************************************)
(* purge_expired_sessions / list_active_sessions                           *)
(***************************************************************************)

ListIds(pr) ==
  /\ pc[pr] = "keys"
  /\ pend' = [pend EXCEPT ![pr] = {s \in Sids : Kept(pr, s) # None}]
  /\ Goto(pr, IF pend'[pr] = {} THEN "count" ELSE "scan")
  /\ UNCHANGED <<now, store, backend, gauge, meta, job, calls, purged, reg,
                 boundVars, history>>

\* Variants: the purge deletes a session on its last instant, or never.
LookAtEarly(pr) ==
  /\ pc[pr] = "scan"
  /\ \E s \in pend[pr] :
       LET x == Kept(pr, s) IN
       /\ pend' = [pend EXCEPT ![pr] = @ \ {s}]
       /\ IF x # None /\ now >= x.exp
          THEN reg' = [reg EXCEPT ![pr] = x] /\ Goto(pr, "reap")
          ELSE Goto(pr, IF pend'[pr] = {} THEN "count" ELSE "scan") /\ UNCHANGED reg
  /\ UNCHANGED <<now, store, backend, gauge, meta, job, calls, purged,
                 boundVars, history>>
LookAtNothing(pr) ==
  /\ pc[pr] = "scan"
  /\ pend' = [pend EXCEPT ![pr] = {}]
  /\ Goto(pr, "count")
  /\ UNCHANGED <<now, store, backend, gauge, meta, job, calls, purged, reg,
                 boundVars, history>>

LookAt(pr) ==
  /\ pc[pr] = "scan"
  /\ \E s \in pend[pr] :
       LET x == Kept(pr, s) IN
       /\ pend' = [pend EXCEPT ![pr] = @ \ {s}]
       /\ IF x # None /\ Expired(x)
          THEN /\ reg' = [reg EXCEPT ![pr] = x]
               /\ Goto(pr, "reap")
          ELSE /\ Goto(pr, IF pend'[pr] = {} THEN "count" ELSE "scan")
               /\ UNCHANGED reg
  /\ UNCHANGED <<now, store, backend, gauge, meta, job, calls, purged,
                 boundVars, history>>

Reap(pr) ==
  /\ pc[pr] = "reap"
  /\ Put(pr, reg[pr].sid, None)
  /\ purged' = [purged EXCEPT ![pr] = @ + 1]
  /\ reg' = [reg EXCEPT ![pr] = None]
  /\ Goto(pr, IF pend[pr] = {} THEN "count" ELSE "scan")
  /\ UNCHANGED <<now, backend, gauge, meta, job, calls, pend, boundVars, history>>

\* _purge takes the purged sessions off the gauge; listing does not.
Count(pr) ==
  /\ pc[pr] = "count"
  /\ gauge' = IF Op(pr) = "list" THEN gauge
              ELSE [gauge EXCEPT ![Pod(pr)] = @ - purged[pr]]
  /\ IF Op(pr) \in {"purge", "list"}
     THEN Return(pr)
     ELSE /\ Goto(pr, "load")
          /\ purged' = [purged EXCEPT ![pr] = 0]
          /\ UNCHANGED <<job, calls, pend, reg>>
  /\ UNCHANGED <<now, store, backend, meta, boundVars, history>>

(***************************************************************************)
(* load, and what a call does with the answer                              *)
(***************************************************************************)

\* There is no such session.
Missing(pr) ==
  CASE Op(pr) = "create" -> Hold(pr, NewSession(Sid(pr), job[pr].gen), "save")
    [] Op(pr) \in {"get", "close", "extend"} -> Return(pr)
    [] Op(pr) = "guard" -> Resume(pr, <<Call("retrieve", "_task_type")>>)
    [] OTHER -> Raise(pr)

\* Variant: create does not look whether the session exists.
FoundUnchecked(pr, x) ==
  CASE Op(pr) = "create" -> Hold(pr, NewSession(Sid(pr), job[pr].gen), "save")
    [] Op(pr) = "close" -> Hold(pr, x, "pgclose")
    [] OTHER -> Return(pr)
Found(pr, x) ==
  CASE Op(pr) = "create" -> Raise(pr)
    [] Op(pr) \in {"get", "guard"} -> Return(pr)
    [] Op(pr) = "close" -> Hold(pr, x, "pgclose")
    [] OTHER -> Hold(pr, Modified(Head(calls[pr]), x), "save")

Load(pr) ==
  /\ pc[pr] = "load"
  /\ LET x == Kept(pr, Sid(pr)) IN
     IF x = None THEN Missing(pr)
     ELSE IF Expired(x) THEN Hold(pr, x, "drop")
     ELSE Found(pr, x)
  /\ UNCHANGED <<now, store, backend, gauge, meta, boundVars, history>>

\* An expired session is deleted and then treated as missing.
DropExpired(pr) ==
  /\ pc[pr] = "drop"
  /\ Put(pr, Sid(pr), None)
  /\ Missing(pr)
  /\ UNCHANGED <<now, backend, gauge, meta, boundVars, history>>

Save(pr) ==
  /\ pc[pr] = "save"
  /\ Put(pr, Sid(pr), Written(reg[pr]))
  /\ IF Op(pr) = "create"
     THEN Hold(pr, reg[pr], "pgsave")
     ELSE Return(pr)
  /\ acked' = IF job[pr].kind = "session_store"
              THEN acked \cup {[loc |-> Home(pr), sid |-> Sid(pr), gen |-> reg[pr].gen,
                                exp |-> reg[pr].exp, key |-> Head(calls[pr]).key]}
              ELSE acked
  /\ UNCHANGED <<now, backend, gauge, meta, boundVars, ended>>

\* save_session_meta: ON CONFLICT leaves closed_at alone.
SaveMeta(pr) ==
  /\ pc[pr] = "pgsave"
  /\ meta' = [meta EXCEPT ![Sid(pr)] = IF @ = "none" THEN "open" ELSE @]
  /\ Return(pr)
  /\ UNCHANGED <<now, store, backend, gauge, boundVars, history>>

\* Variant: the handler returns once the audit row is written.
CloseMetaOnly(pr) ==
  /\ pc[pr] = "pgclose"
  /\ meta' = [meta EXCEPT ![Sid(pr)] = IF @ = "none" THEN @ ELSE "closed"]
  /\ Return(pr)
  /\ UNCHANGED <<now, store, backend, gauge, boundVars, history>>

CloseMeta(pr) ==
  /\ pc[pr] = "pgclose"
  /\ meta' = [meta EXCEPT ![Sid(pr)] = IF @ = "none" THEN @ ELSE "closed"]
  /\ Hold(pr, reg[pr], "delete")
  /\ UNCHANGED <<now, store, backend, gauge, boundVars, history>>

\* Variant: session_end reports the session closed and leaves it stored.
DeleteForgotten(pr) ==
  /\ pc[pr] = "delete"
  /\ ended' = ended \cup {[sid |-> Sid(pr), gen |-> reg[pr].gen]}
  /\ Return(pr)
  /\ UNCHANGED <<now, store, backend, gauge, meta, boundVars, acked>>

Delete(pr) ==
  /\ pc[pr] = "delete"
  /\ Put(pr, Sid(pr), None)
  /\ ended' = ended \cup {[sid |-> Sid(pr), gen |-> reg[pr].gen]}
  /\ Return(pr)
  /\ UNCHANGED <<now, backend, gauge, meta, boundVars, acked>>

\* ACTIVE_SESSIONS.inc() of session_start, .dec() of session_end.
Metric(pr) ==
  /\ pc[pr] = "metric"
  /\ gauge' = [gauge EXCEPT ![Pod(pr)] = IF Op(pr) = "inc" THEN @ + 1 ELSE @ - 1]
  /\ Return(pr)
  /\ UNCHANGED <<now, store, backend, meta, boundVars, history>>

(***************************************************************************)
(* The environment: the clock, Redis expiry and errors, pod restarts       *)
(***************************************************************************)

Tick ==
  /\ now < MaxTime
  /\ now' = now + 1
  /\ store' = [store EXCEPT ![Redis] =
                 [s \in Sids |-> IF @[s] # None /\ now + 1 > @[s].dies
                                 THEN None ELSE @[s]]]
  /\ UNCHANGED <<backend, gauge, meta, serverVars, boundVars, history>>

BackendSteps == {"keys", "scan", "reap", "load", "drop", "save", "delete"}

\* A Redis command raises; sessions this purge has deleted stay uncounted.
RedisError(pr) ==
  /\ mishaps < MaxMishaps
  /\ mishaps' = mishaps + 1
  /\ pc[pr] \in BackendSteps
  /\ Home(pr) = Redis
  /\ Raise(pr)
  /\ UNCHANGED <<now, store, backend, gauge, meta, starts, issued, history>>

\* The process dies between two steps: its memory is gone, Redis is not.
Restart(p) ==
  LET own(pr) == Pod(pr) = p IN
  /\ mishaps < MaxMishaps
  /\ mishaps' = mishaps + 1
  /\ store' = [store EXCEPT ![p] = [s \in Sids |-> None]]
  /\ backend' = [backend EXCEPT ![p] = None]
  /\ gauge' = [gauge EXCEPT ![p] = 0]
  /\ pc' = [pr \in Procs |-> IF own(pr) THEN "idle" ELSE pc[pr]]
  /\ job' = [pr \in Procs |-> IF own(pr) THEN Idle ELSE job[pr]]
  /\ calls' = [pr \in Procs |-> IF own(pr) THEN <<>> ELSE calls[pr]]
  /\ pend' = [pr \in Procs |-> IF own(pr) THEN {} ELSE pend[pr]]
  /\ purged' = [pr \in Procs |-> IF own(pr) THEN 0 ELSE purged[pr]]
  /\ reg' = [pr \in Procs |-> IF own(pr) THEN None ELSE reg[pr]]
  /\ acked' = {a \in acked : a.loc # p}
  /\ UNCHANGED <<now, meta, starts, issued, ended>>

ThreadStep(pr) ==
  \/ ListIds(pr)
  \/ LookAt(pr)
  \/ Reap(pr)
  \/ Count(pr)
  \/ Load(pr)
  \/ DropExpired(pr)
  \/ Save(pr)
  \/ SaveMeta(pr)
  \/ CloseMeta(pr)
  \/ Delete(pr)
  \/ Metric(pr)

Next ==
  \/ \E p \in Pods, kind \in Kinds \ {"reaper"}, s \in Sids, k \in Keys :
       Request(p, kind, s, k)
  \/ \E p \in Pods : ReaperFires(p)
  \/ \E pr \in Procs : ThreadStep(pr)
  \/ Tick
  \/ \E pr \in Procs : RedisError(pr)
  \/ \E p \in Pods : Restart(p)

Spec == Init /\ [][Next]_vars

\* Threads run, the interval trigger of the reaper keeps firing, time passes.
Fairness ==
  /\ WF_vars(Tick)
  /\ \A pr \in Procs : WF_vars(ThreadStep(pr))
  /\ \A p \in Pods : WF_vars(ReaperFires(p))
FairSpec == Spec /\ Fairness

(***************************************************************************)
(* Properties                                                              *)
(***************************************************************************)

Write == [loc : Locations, sid : Sids, gen : Nat, exp : Nat, key : Items \cup {"-"}]

\* Type correctness of every variable.
TypeOK ==
  /\ now \in Nat
  /\ store \in [Locations -> [Sids -> Session \cup {None}]]
  /\ backend \in [Pods -> Locations \cup {None}]
  /\ gauge \in [Pods -> Int]
  /\ meta \in [Sids -> {"none", "open", "closed"}]
  /\ pc \in [Procs -> Steps]
  /\ job \in [Procs -> Job]
  /\ calls \in [Procs -> Seq(Calls)]
  /\ pend \in [Procs -> SUBSET Sids]
  /\ purged \in [Procs -> Nat]
  /\ reg \in [Procs -> Session \cup {None}]
  /\ starts \in [Sids -> Nat]
  /\ issued \in Nat
  /\ mishaps \in Nat
  /\ acked \subseteq Write
  /\ ended \subseteq [sid : Sids, gen : Nat]

\* Every busy thread has a backend, a call to make and the object it needs;
\* the reaper thread only ever purges.
Holding == {"save", "pgsave", "pgclose", "delete"}
BusyThread(pr) ==
  /\ backend[Pod(pr)] # None
  /\ calls[pr] # <<>>
  /\ pr[2] = "main" => Sid(pr) \in Sids
  /\ pc[pr] \in Holding \cup {"reap"} => reg[pr] # None
  /\ pc[pr] \in Holding \cup {"load", "drop"} => Op(pr) # "purge"
ReaperPurges(pr) ==
  pr[2] = "reaper" => \A i \in 1 .. Len(calls[pr]) : calls[pr][i].op = "purge"
Coherent == \A pr \in Procs : (pc[pr] # "idle" => BusyThread(pr)) /\ ReaperPurges(pr)

\* The instant up to which a session must survive: Redis truncates the TTL to
\* whole seconds, so its key may go up to one second early.
Deadline(a) == IF a.loc = Redis THEN a.exp - Second ELSE a.exp

\* What session_store confirmed stays readable until session_end closes the
\* session or its TTL runs out (session_store: "Data persists until session_end
\* is called or TTL expires"), as long as the id is not started again.
StoredUntilEndOrTtl ==
  \A a \in acked :
    starts[a.sid] = 1 /\ [sid |-> a.sid, gen |-> a.gen] \notin ended /\ now <= Deadline(a) =>
      /\ store[a.loc][a.sid] # None
      /\ store[a.loc][a.sid].gen = a.gen
      /\ a.key \in store[a.loc][a.sid].data

\* A session that session_end closed is never stored again (session_end:
\* "Frees all session data"): no late save may bring it back.
EndedStaysEnded ==
  \A l \in Locations, s \in Sids :
    store[l][s] # None => [sid |-> s, gen |-> store[l][s].gen] \notin ended

\* The steps that may take away the live session x: its own session_end; a purge
\* that looked at the id before it was started again or extended, since it deletes
\* by id; a restart, of a session in the pod's memory; and Redis, up to a second
\* early.
MayTake(l, s, x) ==
  \/ \E pr \in Procs : Home(pr) = l /\ Sid(pr) = s /\ Delete(pr) /\ reg[pr].gen = x.gen
  \/ \E pr \in Procs : /\ Home(pr) = l /\ Reap(pr) /\ reg[pr].sid = s
                       /\ <<reg[pr].gen, reg[pr].exp>> # <<x.gen, x.exp>>
  \/ l \in Pods /\ Restart(l)
  \/ l = Redis /\ Tick /\ now' > x.exp - Second

\* A session lasts while it is live: no session_start replaces it by a new one
\* (adapter.create raises "already exists"), no load takes it for expired, no purge
\* deletes it by a look at an earlier state (purge_expired_sessions: "Delete all
\* sessions that have passed their TTL") and no session_end meant for another does.
LiveSessionsLast ==
  [][\A l \in Locations, s \in Sids :
       LET x == store[l][s] IN
       x # None /\ ~Expired(x) =>
         IF store'[l][s] = None THEN MayTake(l, s, x) ELSE store'[l][s].gen = x.gen]_vars

\* The audit row of a session is marked closed only once the session is gone,
\* the closing handler itself excepted.
ClosedRowMeansGone ==
  \A l \in Locations, s \in Sids :
    meta[s] = "closed" /\ store[l][s] # None =>
      \E pr \in Procs : pc[pr] = "delete" /\ Sid(pr) = s

\* Every expired session is eventually removed, although no client asks for it.
ExpiredSessionsGo ==
  \A l \in Locations, s \in Sids :
    (store[l][s] # None /\ Expired(store[l][s])) ~> (store[l][s] = None)
=============================================================================
