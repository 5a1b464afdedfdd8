SPECIFICATION Spec
CONSTANTS
  NumBlocks = 5
  Val = {0, 1}
  Image <- MCImage
  NumWays <- MCNumWays
  Configs <- MCConfigs
  MissPenalty = 1
  MemLatency = 1
INVARIANTS
  TypeOK
  AnswersCurrent
  NothingLost
  BoundedOvertaking
PROPERTIES
  Served
