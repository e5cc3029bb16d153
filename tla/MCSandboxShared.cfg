SPECIFICATION FairSpec
CONSTANTS
  Sids = {s1}
  Uploads = {u1, u2}
  Names = {"f", "g", "h"}
  Modules = {"M", "N", "unknown"}
  Targets = {"M", "unknown"}
  Unknown = "unknown"
  Files = {"a.c", "b.c", "n.c"}
  None = None
  ProdIds <- GraphIds
  ProdFile <- GraphFile
  ProdCalls <- GraphCalls
  Batches <- Edits
  Depths = {0, 1}
  MaxChunks = 2
  MaxDepth = 2
  MaxStarts = 2
  MaxClears = 1
  MaxExpiries = 1
CHECK_DEADLOCK FALSE

INVARIANTS DestroyedStaysHidden SandboxOfLiveSession AnsweredIsLoaded SearchHasTheUpload UploadedCallsAreFound EditsStand CallsAreCurrent
PROPERTIES UploadsAnswered
