SPECIFICATION Spec
CONSTANTS
  Pods = {p1}
  Sids = {s1, s2}
  Keys = {k1}
  Redis = Redis
  None = None
  Homes = {"memory", "redis"}
  Requests = {"session_start", "session_store", "session_retrieve", "session_end", "build_context"}
  Second = 2
  Ttl = 3
  Extra = 1
  MaxTime = 5
  MaxRequests = 3
  MaxStarts = 2
  MaxMishaps = 1
SYMMETRY Interchangeable
INVARIANTS StoredUntilEndOrTtl EndedStaysEnded
PROPERTIES LiveSessionsLast
