SPECIFICATION CountingSpec
CONSTANTS
  NumWays = 1
  Policy = "random"
  BlockSize = 1
  Val = {0, 1}
  NumSets = 2
  NumBlocks = 4
  UsedBlocks = 3
  MemSize <- MCMemSize
  Reqs <- MCReqs
  MissPenalty = 0
  MaxLookups = 8
  WritePolicies = {"WriteBackWriteAllocate"}
  Prefetchers = {"NextLine"}
INVARIANT IssuedPrefetchesGoBelow
CHECK_DEADLOCK FALSE
