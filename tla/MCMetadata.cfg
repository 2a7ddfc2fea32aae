SPECIFICATION MetadataSpec
CONSTANTS
  Scopes = {"left"}
  Listed = {"p", "q"}
  CountLimit = 2
  CountQueueCap = 1
  CountWorkers = 1
  CountCacheCap = 1
  Viewports <- EachView
  MaxRequests = 2
  MaxContexts = 2
  MaxRevisions = 2
  Sorters = {10}
  ExecutorRefuses = TRUE
  ThumbScopes = {"s1", "s2"}
  Files = {"f"}
  ThumbWorkers = {"t1"}
  BatchMax = 2
  ThumbCacheCap = 1
  MaxThumbRev = 2
  MaxCalls = 3
  Folders = {"p", "q"}
  SizeWorkers = {"w"}
  Batches = {"b"}
  SizeCap = 2
  MaxJobs = 3
  Items = {"one", "two"}
  HomePaths = {"home/f", "home/d/f"}
  FarPaths = {"far/f"}
  TrashNames = {"f", "f 2"}
  FileName <- OneName
  Look <- AllAlike
  Placements <- TwoPlaces
  TrashCalls = {"c1", "c2"}
  DeleteBatches <- SomeBatches
  Selections <- SomeNames
  MaxStays = 2
INVARIANTS CountInv ThumbInv SizeInv TrashInv
CHECK_DEADLOCK FALSE
