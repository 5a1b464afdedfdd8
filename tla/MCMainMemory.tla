---------------------------- MODULE MCMainMemory ----------------------------
(* The requests the two main memories are checked with: loads and stores of  *)
(* one and two bytes anywhere in the memory.                                 *)
EXTENDS Integers

MCRequests(size, values) ==
    UNION {
        {[op |-> "Load", addr |-> a, len |-> n] : a \in 0 .. (size - n)} \cup
        {[op |-> "Store", addr |-> a, len |-> n, data |-> d] :
            a \in 0 .. (size - n), d \in [0 .. (n - 1) -> values]} : n \in {1, 2}}
=============================================================================
