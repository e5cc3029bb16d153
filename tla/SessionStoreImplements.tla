----------------------- MODULE SessionStoreImplements -----------------------
(***************************************************************************)
(* One server whose sessions are in its own memory keeps the promise of     *)
(* SessionContract, although its reaper thread runs between any two steps.  *)
(* An expired session that a late save puts back is not visible to clients: *)
(* every load checks the deadline.                                          *)
(***************************************************************************)
EXTENDS SessionStore

\* None is not what a client sees of a session either.
ASSUME UnseenAssumption == None \notin [exp : Nat, data : SUBSET Items]

Server == CHOOSE p \in Pods : TRUE

Visible(s) ==
  LET x == store[Server][s] IN
  IF x = None THEN None
  ELSE IF Expired(x) THEN None
  ELSE [exp |-> x.exp, data |-> x.data]

Asking == {[kind |-> job[pr].kind, sid |-> job[pr].sid] :
             pr \in {q \in Procs : job[q].kind # "reaper"}}

Contract == INSTANCE SessionContract
              WITH live <- [s \in Sids |-> Visible(s)], asking <- Asking

\* The session tools of one server implement the abstract session service:
\* a session is live from session_start to session_end or its TTL, never after.
ImplementsContract == Contract!Spec
=============================================================================
