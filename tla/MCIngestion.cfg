SPECIFICATION Spec
CONSTANTS
  Threads = {"t", "u"}
  Batchers = {"t"}
  Modules = {"ADC", "CAN"}
  Files = {"a.c", "b.c"}
  Functions = {"f", "g", "h"}
  FilesOf <- InModule
  Found <- Stands
  Threshold = 2
  MaxWorkers = 2
  None = "none"
  MaxCalls = 2
  MaxFailures = 1
INVARIANTS CountedIsStored WrittenIsAnnounced CompletedBatchIsOver
PROPERTY JobsEnd
CHECK_DEADLOCK FALSE
