SPECIFICATION Spec
CONSTANTS
  NumWays = 1
  Policy = "random"
  BlockSize = 1
  Val = {0, 1}
  NumSets = 2
  NumBlocks = 4
  UsedBlocks = 3
  MemSize <- MCMemSize
  Reqs <- MCReqs
  MissPenalty = 1
  WritePolicies = {"WriteBackWriteAllocate", "WriteThroughNoWriteAllocate"}
  Prefetchers = {"NextLine"}
INVARIANTS RefillSticks LowRequestsInBounds
PROPERTIES ImplementsMem Served PrefetchEnds
CHECK_DEADLOCK TRUE
