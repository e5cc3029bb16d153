SPECIFICATION FairSpec
CONSTANTS
  Sids = {s1}
  Uploads = {u1}
  Names = {"f", "g"}
  Modules = {"M", "N", "unknown"}
  Targets = {"M"}
  Unknown = "unknown"
  Files = {"a.c", "b.c", "n.c"}
  None = None
  ProdIds <- GraphIds
  ProdFile <- GraphFile
  ProdCalls <- GraphCalls
  Batches <- CallDropped
  Depths = {0, 1}
  MaxChunks = 2
  MaxDepth = 2
  MaxStarts = 1
  MaxClears = 0
  MaxExpiries = 0
CHECK_DEADLOCK FALSE
INVARIANT StalePathsAreNotFollowed
