-------------------------- MODULE SessionContract --------------------------
(***************************************************************************)
(* What the session tools promise to a client of one server, without        *)
(* threads, purges, loads or saves: a session is live from its start until  *)
(* its end is asked for or its TTL runs out, it is never seen afterwards,   *)
(* and its content changes only by the requests that are being served.      *)
(***************************************************************************)
EXTENDS Integers

CONSTANTS Sids, Items, Internal, Ttl, None

Writers == {"session_start", "session_store", "build_context", "add_context"}
RequestKinds == Writers \cup {"session_retrieve", "session_end", "clear_context",
                              "list_active_sessions"}
Wanted == [kind : RequestKinds, sid : Sids]

VARIABLES
  now,     \* the clock
  live,    \* live[s]: the live session of id s, or None
  asking   \* the requests being served
vars == <<now, live, asking>>

Init ==
  /\ now = 0
  /\ live = [s \in Sids |-> None]
  /\ asking = {}

Ask(r) ==
  /\ asking' = asking \cup {r}
  /\ UNCHANGED <<now, live>>

Answer(r) ==
  /\ asking' = asking \ {r}
  /\ UNCHANGED <<now, live>>

\* The session of request r becomes x, and r is answered now or later.
Serve(r, x) ==
  /\ r \in asking
  /\ live' = [live EXCEPT ![r.sid] = x]
  /\ asking' \in {asking, asking \ {r}}
  /\ UNCHANGED now

\* A start takes a free id; its TTL counts from a moment not after this one.
Start(r) ==
  /\ r.kind = "session_start"
  /\ live[r.sid] = None
  /\ \E e \in now .. now + Ttl : Serve(r, [exp |-> e, data |-> {}])

Write(r) ==
  /\ r.kind \in Writers
  /\ live[r.sid] # None
  /\ \E k \in Items : Serve(r, [live[r.sid] EXCEPT !.data = @ \cup {k}])

Clear(r) ==
  /\ r.kind = "clear_context"
  /\ live[r.sid] # None
  /\ Serve(r, [live[r.sid] EXCEPT !.data = @ \cap Internal])

End(r) ==
  /\ r.kind = "session_end"
  /\ Serve(r, None)

Tick ==
  /\ now' = now + 1
  /\ live' = [s \in Sids |-> IF live[s] # None /\ now + 1 > live[s].exp
                             THEN None ELSE live[s]]
  /\ UNCHANGED asking

\* InMemoryBackend: "Sessions are lost when the process exits."
Crash ==
  /\ live' = [s \in Sids |-> None]
  /\ asking' = {}
  /\ UNCHANGED now

Next ==
  \/ \E r \in Wanted : Ask(r) \/ Answer(r) \/ Start(r) \/ Write(r) \/ Clear(r) \/ End(r)
  \/ Tick
  \/ Crash

Spec == Init /\ [][Next]_vars
=============================================================================
