-------------------------- MODULE MCMemoryHierarchy --------------------------
(* Direct-mapped caches over five blocks, in the configurations that differ  *)
(* in who waits for whom.                                                    *)
EXTENDS MemoryHierarchyInvariant

WB == "WriteBackWriteAllocate"
WT == "WriteThroughWriteAllocate"
NWA == "WriteThroughNoWriteAllocate"

Levels(l1i, l1d, l2) ==
    [c \in Names |-> CASE c = "L1I" -> l1i [] c = "L1D" -> l1d [] c = "L2" -> l2]

MCNumWays == Levels(1, 1, 1)

MCImage == [b \in Blocks |-> b % 2]

Config(l1i, l1d, l2, prefetching, code, data_blocks) ==
    [write_policy |-> Levels(l1i, l1d, l2), prefetching |-> prefetching,
     code |-> code, data |-> data_blocks]

(* Two code blocks or two data blocks evict each other in a cache of one     *)
(* way.  The block behind the last one the stages use is only prefetched.    *)
(* In the last configuration every cache prefetches, as the command line has *)
(* it: there L1I prefetches the data block too, a copy that nobody fetches.  *)
MCConfigs ==
    { Config(WB, WB, WB, {}, {0, 1}, {2, 3}),
      Config(WB, WB, WT, {"L1D"}, {0, 1}, {2, 3}),
      Config(WB, WT, NWA, {}, {0, 1}, {2, 3}),
      Config(WB, NWA, WB, {"L1I"}, {0, 1}, {2}),
      Config(WB, NWA, WB, {"L2"}, {0, 1}, {2}),
      Config(WB, WB, WB, {"L2"}, {0}, {1, 2}),
      Config(WB, WB, WB, Names, {0}, {1}) }

(* The hypothesis of the theorems about the hierarchy. *)
ASSUME PrefetchRoomHolds == PrefetchRoom
=============================================================================
