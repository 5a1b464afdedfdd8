------------------------------ MODULE CacheSet ------------------------------
(* One set of a cache, GeneralCacheSetUnit (cache_set.rs): its arrays and    *)
(* its replacement policy, as operators from a set unit to a set unit.       *)
EXTENDS ReplacementPolicy

CONSTANTS BlockSize,  \* bytes per block
          Val         \* what a byte may hold

ASSUME BlockSizeAssumption == BlockSize \in Nat \ {0}
ASSUME ValAssumption == 0 \in Val

Offsets == 0 .. (BlockSize - 1)

Blocks == [Offsets -> Val]

SetUnits == [valid_array : [Ways -> BOOLEAN], tag_array : [Ways -> Nat],
             dirty_array : [Ways -> BOOLEAN], data_array : [Ways -> Blocks],
             rp : RPStates]

NewSetUnit == [valid_array |-> [w \in Ways |-> FALSE],
               tag_array   |-> [w \in Ways |-> 0],
               dirty_array |-> [w \in Ways |-> FALSE],
               data_array  |-> [w \in Ways |-> [o \in Offsets |-> 0]],
               rp          |-> NewRP]

Holds(u, w, tag) == u.valid_array[w] /\ u.tag_array[w] = tag

(* tag_compare, the Ok case: the first way that holds the tag. *)
HitWay(u, tag) == First({w \in Ways : Holds(u, w, tag)})

(* Defect: the scan stops one way early. *)
IsHitShortScan(u, tag) == \E w \in Ways \ {NumWays - 1} : Holds(u, w, tag)

IsHit(u, tag) == \E w \in Ways : Holds(u, w, tag)

(* Defect: the dirty bit of the wrong way is tested. *)
MissTestsWayZero(u) ==
    {[need_write_back |-> e.full /\ u.dirty_array[0],
      way             |-> e.way,
      unit            |-> [u EXCEPT !.rp = e.rp]] : e \in Evict(u.rp)}

(* tag_compare, the Err case: the policy is asked for a victim at once, and  *)
(* has given it up whatever the cache does next.  need_write_back looks at   *)
(* the dirty bit only when the policy says that the set is full.             *)
MissOutcomes(u) ==
    {[need_write_back |-> e.full /\ u.dirty_array[e.way],
      way             |-> e.way,
      unit            |-> [u EXCEPT !.rp = e.rp]] : e \in Evict(u.rp)}

(* read_block: the data is data_array[w]; reading promotes the way. *)
TouchBlock(u, w) == [u EXCEPT !.rp = Promote(u.rp, w)]

(* Defect: a store that does not set the dirty bit. *)
WriteBlockNotDirty(u, w, block) == [u EXCEPT !.data_array[w] = block]

WriteBlock(u, w, block) ==
    [u EXCEPT !.data_array[w] = block, !.dirty_array[w] = TRUE, !.rp = Promote(u.rp, w)]

WriteBlockClean(u, w, block) ==
    [u EXCEPT !.data_array[w] = block, !.rp = Promote(u.rp, w)]

(* Defect: a refill that leaves the old tag in place. *)
InsertBlockOldTag(u, w, tag, block) ==
    [u EXCEPT !.data_array[w] = block, !.valid_array[w] = TRUE,
              !.dirty_array[w] = FALSE, !.rp = Insert(u.rp, w)]

(* Defect: a refill that tells the policy but not the set. *)
InsertBlockNotValid(u, w, tag, block) ==
    [u EXCEPT !.data_array[w] = block, !.tag_array[w] = tag,
              !.dirty_array[w] = FALSE, !.rp = Insert(u.rp, w)]

InsertBlock(u, w, tag, block) ==
    [u EXCEPT !.data_array[w] = block, !.valid_array[w] = TRUE, !.tag_array[w] = tag,
              !.dirty_array[w] = FALSE, !.rp = Insert(u.rp, w)]
=============================================================================
