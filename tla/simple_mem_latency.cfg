SPECIFICATION Spec
CONSTANTS
  MemSize = 4
  Val = {0, 1}
  Reqs <- MCReqs
  Latency = 15
  MaxRequests = 1
PROPERTY DocumentedLatency
CHECK_DEADLOCK FALSE
