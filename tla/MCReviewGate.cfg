SPECIFICATION Spec
CONSTANTS
  Whole = 10
  None = None
  Null = Null
  Responses = {r1}
  Reported = {"t1", "t2"}
  Reports <- SomeReports
  Threads = {th1, th2}
  Reviewed <- SomeSignals
  Decisions = {"APPROVE", "REJECT", "ESCALATE", "LGTM"}
  Builders = {"server", "injected"}
  MaxRequests = 3
  MaxMishaps = 1
SYMMETRY Interchangeable
CHECK_DEADLOCK FALSE
INVARIANTS RoutingIsCautious ReviewsHaveEvidence FeedbackIsKept
