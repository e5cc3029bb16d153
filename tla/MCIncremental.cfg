SPECIFICATION IncSpec
CONSTANTS
  Paths = {"a.c", "b.c"}
  Contents <- MayHold
  NoFile = "absent"
  NoHash = ""
  NoCommit = NoCommit
  Nothing = Nothing
  MaxEdits = 2
  MaxCommits = 1
  MaxTroubles = 1
INVARIANT DifferingIsReported
PROPERTY DifferingIsProcessed
CHECK_DEADLOCK FALSE
