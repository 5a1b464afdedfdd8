----------------------------- MODULE MCSimpleMem -----------------------------
EXTENDS SimpleMem, MCMainMemory

MCReqs == MCRequests(MemSize, Val)
=============================================================================
