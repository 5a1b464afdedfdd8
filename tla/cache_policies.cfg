SPECIFICATION Spec
CONSTANTS
  NumWays = 2
  Policy = "fifo"
  BlockSize = 2
  Val = {0, 1}
  NumSets = 1
  NumBlocks = 3
  UsedBlocks = 3
  MemSize <- MCMemSize
  Reqs <- MCReqs
  MissPenalty = 0
  WritePolicies = {"WriteBackWriteAllocate", "WriteThroughWriteAllocate", "WriteThroughNoWriteAllocate"}
  Prefetchers = {"Null"}
INVARIANTS TypeOK UniqueTags CleanLinesAgree VictimsAreHeld
PROPERTIES NoLostWrite ImplementsMem
CHECK_DEADLOCK TRUE
