SPECIFICATION Spec
CONSTANTS
  NumWays = 4
  Policies = {"fifo", "random", "plru"}
INVARIANTS TypeOK FifoQueueIsOrder PlruSparesNewest PlruWalk AlwaysAVictim EveryWayInTurn
