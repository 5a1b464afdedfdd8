--------------------------- MODULE MCGeneralCache ---------------------------
(* GeneralCache on small instances: word-sized bytes, blocks of BlockSize    *)
(* bytes, a memory of NumBlocks blocks of which the caller uses the first    *)
(* UsedBlocks, single-byte and whole-block requests.                         *)
EXTENDS GeneralCacheInvariant

CONSTANTS NumBlocks, UsedBlocks

MCMemSize == NumBlocks * BlockSize

MCAddrs == 0 .. (UsedBlocks * BlockSize - 1)

MCBlocks == {a \in MCAddrs : a % BlockSize = 0}

(* Single-byte loads and stores of every value, and whole-block requests as  *)
(* a cache above makes them, the stores with one pattern of data.            *)
MCReqs ==
    {[op |-> "Load", addr |-> a, len |-> 1] : a \in MCAddrs} \cup
    {[op |-> "Store", addr |-> a, len |-> 1, data |-> [i \in {0} |-> v]] :
        a \in MCAddrs, v \in Val} \cup
    {[op |-> "Store", addr |-> a, len |-> BlockSize,
      data |-> [i \in 0 .. (BlockSize - 1) |-> i % 2]] : a \in MCBlocks}
=============================================================================
