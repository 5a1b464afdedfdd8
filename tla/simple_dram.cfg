SPECIFICATION Spec
CONSTANTS
  MemSize = 4
  Val = {0, 1}
  Reqs <- MCReqs
  RowSize = 2
  tRCD = 2
  tCL = 3
  tRP = 4
  MaxRequests = 3
INVARIANTS TypeOK CountsExact CasMatchesRequest
PROPERTIES ImplementsMem ExactLatency Served
CHECK_DEADLOCK FALSE
