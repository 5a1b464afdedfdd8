SPECIFICATION Spec
CONSTANTS
  NumWays = 1
  Policy = "fifo"
  BlockSize = 2
  Val = {0, 1}
  NumSets = 1
  NumBlocks = 2
  UsedBlocks = 2
  MemSize <- MCMemSize
  Reqs <- MCReqs
  MissPenalty = 0
  WritePolicies = {"WriteBackNoWriteAllocate"}
  Prefetchers = {"Null"}

PROPERTY NoLostWrite
CHECK_DEADLOCK TRUE
