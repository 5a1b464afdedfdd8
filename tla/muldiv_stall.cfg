CONSTANTS
  ByteBits = 1
  RegBits = 2
  A0 = 3
  Setups <- MCSetups
  ILatencies = {0, 2}
  DLatencies = {0, 2}
  Prefetching = {"dcache"}
SPECIFICATION Spec
PROPERTIES DocumentedStall
