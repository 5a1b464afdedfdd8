SPECIFICATION Spec
CONSTANTS
  NumWays = 1
  Policy = "random"
  BlockSize = 1
  Val = {0, 1}
  NumSets = 2
  NumBlocks = 4
  UsedBlocks = 4
  MemSize <- MCMemSize
  Reqs <- MCReqs
  MissPenalty = 1
  WritePolicies = {"WriteBackWriteAllocate"}
  Prefetchers = {"NextLine"}
INVARIANT LowRequestsInBounds

CHECK_DEADLOCK TRUE
