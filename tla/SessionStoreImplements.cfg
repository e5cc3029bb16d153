SPECIFICATION FairSpec
CONSTANTS
  Pods = {p1}
  Sids = {s1}
  Keys = {k1, k2}
  Redis = Redis
  None = None
  Homes = {"memory"}
  Requests = {"session_start", "session_store", "build_context", "add_context", "clear_context", "list_active_sessions", "session_end", "session_retrieve"}
  Second = 1
  Ttl = 2
  Extra = 1
  MaxTime = 4
  MaxRequests = 3
  MaxStarts = 1
  MaxMishaps = 1

INVARIANTS ClosedRowMeansGone
PROPERTIES ImplementsContract ExpiredSessionsGo
