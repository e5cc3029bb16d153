SPECIFICATION Spec
CONSTANTS
  Whole = 10
  None = None
  Null = Null
  Responses = {r1}
  Reported = {"t1", "t2"}
  Reports <- SomeReports
  Threads = {th1}
  Reviewed <- SomeSignals
  Decisions = {"APPROVE", "REJECT"}
  Builders = {"server"}
  MaxRequests = 1
  MaxMishaps = 0
CHECK_DEADLOCK FALSE
INVARIANT ApprovalsAreLearned
