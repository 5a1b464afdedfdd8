---------------------------- MODULE MCSimpleDram ----------------------------
EXTENDS SimpleDram, MCMainMemory

MCReqs == MCRequests(MemSize, Val)
=============================================================================
