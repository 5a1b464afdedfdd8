SPECIFICATION Spec
CONSTANTS
  MemSize = 4
  Val = {0, 1}
  Reqs <- MCReqs
  Latency = 2
  MaxRequests = 3
INVARIANT TypeOK
PROPERTIES ImplementsMem FlatLatency Served
CHECK_DEADLOCK FALSE
