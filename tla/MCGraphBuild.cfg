SPECIFICATION Spec
CONSTANTS
  Modules = {"ADC"}
  Projects = {"A3G"}
  Functions = {"f", "g"}
  Registers = {"R"}
  SourceFiles = {"a.c", "b.c"}
  SfrFiles = {"r.h"}
  ModuleOf <- OfModule
  ProjectOf <- OfProject
  Uses <- Body
  Contents <- MayHold
  NoFile = NoFile
  NoNode = NoNode
  NoHash = NoHash
  MayForce = TRUE
  MaxEdits = 2
  MaxCrashes = 1
INVARIANTS NoLeftovers SkippedIsComplete
CHECK_DEADLOCK FALSE
