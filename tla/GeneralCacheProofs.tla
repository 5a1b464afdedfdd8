------------------------- MODULE GeneralCacheProofs -------------------------
(* The cache never caches a block twice, its clean lines agree with the      *)
(* device below, and no acknowledged store is lost by an eviction, for every *)
(* geometry, replacement policy, prefetcher and miss penalty, and for every  *)
(* write policy but write-back without write-allocate.                       *)
EXTENDS GeneralCacheInvariant, TLAPS

-----------------------------------------------------------------------------
(* The replacement policies, for every associativity: what the cache set     *)
(* relies on, and that pseudo-LRU spares the way used last.                  *)

(* The state of a new policy, with no valid way, is well formed (new). *)
LEMMA NewRPType == NewRP \in RPStates /\ \A w \in Ways : ~NewRP.valid[w]
  BY DEF NewRP, RPStates

(* promote keeps the state well formed and leaves the valid bits alone. *)
LEMMA PromoteType ==
  ASSUME NEW rp \in RPStates, NEW w \in Ways
  PROVE  Promote(rp, w) \in RPStates /\ Promote(rp, w).valid = rp.valid
<1>1. PromoteTree(rp.tree, w) \in [Nodes -> BOOLEAN]
  BY DEF RPStates, PromoteTree
<1> QED  BY <1>1 DEF Promote, RPStates

(* insert keeps the state well formed and marks exactly one way valid. *)
LEMMA InsertType ==
  ASSUME NEW rp \in RPStates, NEW w \in Ways
  PROVE  /\ Insert(rp, w) \in RPStates
         /\ Insert(rp, w).valid = [rp.valid EXCEPT ![w] = TRUE]
<1>1. PromoteTree(rp.tree, w) \in [Nodes -> BOOLEAN]
  BY DEF RPStates, PromoteTree
<1>2. <<w>> \o rp.queue \in Seq(Ways)
  BY DEF RPStates
<1>3. [rp.valid EXCEPT ![w] = TRUE] \in [Ways -> BOOLEAN]
  BY DEF RPStates
<1> QED  BY <1>1, <1>2, <1>3, PolicyAssumption DEF Insert, RPStates

(* A victim that evict takes from a full set is a way of the set. *)
LEMMA VictimsType ==
  ASSUME NEW rp \in RPStates
  PROVE  Victims(rp) \subseteq Ways
<1>1. CASE Policy = "fifo"
  BY <1>1 DEF Victims, RPStates
<1>2. CASE Policy = "random"
  BY <1>2 DEF Victims
<1>3. CASE Policy = "plru"
  BY <1>3 DEF Victims
<1> QED  BY <1>1, <1>2, <1>3, PolicyAssumption

LEMMA RemoveVictimType ==
  ASSUME NEW rp \in RPStates, NEW w \in Victims(rp)
  PROVE  /\ RemoveVictim(rp, w) \in RPStates
         /\ RemoveVictim(rp, w).valid = [rp.valid EXCEPT ![w] = FALSE]
<1>1. [rp.valid EXCEPT ![w] = FALSE] \in [Ways -> BOOLEAN]
  BY DEF RPStates
<1>2. CASE Policy = "fifo"
  <2>1. Len(rp.queue) \in Nat /\ rp.queue \in Seq(Ways)
    BY DEF RPStates
  <2>2. Len(rp.queue) # 0
    BY <1>2 DEF Victims
  <2>3. SubSeq(rp.queue, 1, Len(rp.queue) - 1) \in Seq(Ways)
    BY <2>1, <2>2
  <2> QED  BY <1>1, <1>2, <2>3 DEF RemoveVictim, RPStates
<1>3. CASE Policy # "fifo"
  BY <1>1, <1>3 DEF RemoveVictim, RPStates
<1> QED  BY <1>2, <1>3

(* What evict returns under every policy: a way of the set that is no longer *)
(* valid afterwards; "not full" means that this way was already invalid and  *)
(* nothing changed, "full" that every way was valid.                         *)
THEOREM EvictContract ==
  ASSUME NEW rp \in RPStates, NEW e \in Evict(rp)
  PROVE  /\ e.way \in Ways
         /\ e.full \in BOOLEAN
         /\ e.rp \in RPStates
         /\ e.rp.valid = [rp.valid EXCEPT ![e.way] = FALSE]
         /\ e.full => \A w \in Ways : rp.valid[w]
         /\ ~e.full => ~rp.valid[e.way] /\ e.rp = rp
<1>1. CASE \E w \in Ways : ~rp.valid[w]
  <2>1. PICK w \in First({v \in Ways : ~rp.valid[v]}) :
                e = [full |-> FALSE, way |-> w, rp |-> rp]
    BY <1>1 DEF Evict
  <2>2. w \in Ways /\ ~rp.valid[w]
    BY DEF First
  <2>3. rp.valid = [rp.valid EXCEPT ![w] = FALSE]
    BY <2>2 DEF RPStates
  <2> QED  BY <2>1, <2>2, <2>3
<1>2. CASE \A w \in Ways : rp.valid[w]
  <2>1. PICK w \in Victims(rp) :
                e = [full |-> TRUE, way |-> w, rp |-> RemoveVictim(rp, w)]
    BY <1>2 DEF Evict
  <2> QED  BY <1>2, <2>1, VictimsType, RemoveVictimType
<1> QED  BY <1>1, <1>2

(* After an access to a way the pseudo-LRU tree points away from it: with    *)
(* more than one way, the way used last is not the next victim.              *)
THEOREM PlruSparesAccessed ==
  ASSUME NEW rp \in RPStates, NEW w \in Ways,
         Policy = "plru", NumWays > 1
  PROVE  w \notin Victims(Promote(rp, w)) /\ w \notin Victims(Insert(rp, w))
<1> DEFINE t == PromoteTree(rp.tree, w)
           n == ((w + NumWays) \div 2) - 1
<1>1. n \in Nodes /\ (UnderLeft(n, w) \/ UnderRight(n, w))
  <2>1. w \in Nat /\ NumWays \in Nat /\ w < NumWays
    BY NumWaysAssumption DEF Ways
  <2>2. n \in 0 .. (NumWays - 2)
    BY <2>1
  <2>3. (w + NumWays) \div (2^0) = w + NumWays /\ 0 \in 0 .. NumWays
    BY <2>1
  <2>4. w + NumWays = 2 * (n + 1) \/ w + NumWays = 2 * (n + 1) + 1
    BY <2>1
  <2> QED  BY <2>2, <2>3, <2>4 DEF Nodes, UnderLeft, UnderRight, Below
<1>2. UnderLeft(n, w) => ~t[n]
  BY <1>1 DEF PromoteTree
<1>3. ~PointsAt(t, w)
  <2>1. UnderRight(n, w) /\ ~UnderLeft(n, w) => t[n]
    BY <1>1 DEF PromoteTree
  <2> QED  BY <1>1, <1>2, <2>1 DEF PointsAt
<1>4. Promote(rp, w).tree = t /\ Insert(rp, w).tree = t
  BY DEF Promote, Insert, RPStates
<1> QED  BY <1>3, <1>4 DEF Victims

-----------------------------------------------------------------------------
(* Addresses.  Every address is its tag, index and offset put together. *)

(* The parts that addr_transfer cuts an address into are in range. *)
LEMMA AddrParts ==
  ASSUME NEW a \in Nat
  PROVE  /\ Offset(a) \in Offsets /\ Index(a) \in Indices /\ Tag(a) \in Nat
         /\ a = BlockAddr(Tag(a), Index(a)) + Offset(a)
         /\ Align(a) = BlockAddr(Tag(a), Index(a))
<1> DEFINE q == a \div BlockSize
<1>1. /\ a = (BlockSize * q) + (a % BlockSize)
      /\ a % BlockSize \in 0 .. (BlockSize - 1)
      /\ q \in Nat
  BY BlockSizeAssumption
<1>2. /\ q = (NumSets * (q \div NumSets)) + (q % NumSets)
      /\ q % NumSets \in 0 .. (NumSets - 1)
      /\ q \div NumSets \in Nat
  BY <1>1, GeometryAssumption
<1>3. Offset(a) = a % BlockSize /\ Index(a) = q % NumSets /\ Tag(a) = q \div NumSets
  BY DEF Offset, Index, Tag
<1> HIDE DEF q
<1>4. Offset(a) \in Offsets /\ Index(a) \in Indices /\ Tag(a) \in Nat
  BY <1>1, <1>2, <1>3 DEF Offsets, Indices
<1>5. (q \div NumSets) * NumSets + (q % NumSets) = q
  BY <1>1, <1>2, GeometryAssumption
<1>6. BlockAddr(Tag(a), Index(a)) = q * BlockSize
  BY <1>3, <1>5 DEF BlockAddr
<1>7. q * BlockSize = BlockSize * q /\ q * BlockSize \in Nat
  BY <1>1, BlockSizeAssumption
<1>8. a = q * BlockSize + Offset(a)
  BY <1>1, <1>3, <1>7
<1>9. Align(a) = q * BlockSize
  BY <1>4, <1>7, <1>8, BlockSizeAssumption DEF Align, Offsets
<1> QED  BY <1>4, <1>6, <1>8, <1>9

(* An address put together from a tag, an index and an offset has them. *)
LEMMA AddrJoin ==
  ASSUME NEW t \in Nat, NEW i \in Indices, NEW o \in Offsets
  PROVE  /\ BlockAddr(t, i) \in Nat
         /\ Offset(BlockAddr(t, i) + o) = o
         /\ Index(BlockAddr(t, i) + o) = i
         /\ Tag(BlockAddr(t, i) + o) = t
<1> DEFINE q == t * NumSets + i
<1>1. q \in Nat /\ q \div NumSets = t /\ q % NumSets = i
  BY GeometryAssumption DEF Indices
<1> HIDE DEF q
<1>2. q * BlockSize \in Nat /\ (q * BlockSize + o) \div BlockSize = q
      /\ (q * BlockSize + o) % BlockSize = o
  BY <1>1, BlockSizeAssumption DEF Offsets
<1>3. BlockAddr(t, i) = q * BlockSize
  BY DEF BlockAddr, q
<1> QED  BY <1>1, <1>2, <1>3 DEF Offset, Index, Tag

(* The start of a block is an address. *)
LEMMA AlignIsAddr ==
  ASSUME NEW a \in Nat
  PROVE  Align(a) \in Nat /\ Offset(Align(a)) = 0 /\ Offset(Align(a) + BlockSize) = 0
<1>1. 0 \in Offsets
  BY BlockSizeAssumption DEF Offsets
<1>2. /\ Index(a) \in Indices /\ Tag(a) \in Nat
      /\ Align(a) = BlockAddr(Tag(a), Index(a))
  BY AddrParts
<1>3. Align(a) \in Nat /\ Offset(Align(a) + 0) = 0
  BY <1>1, <1>2, AddrJoin
<1>4. ASSUME NEW x \in Nat, x % BlockSize = 0
      PROVE  (x + BlockSize) % BlockSize = 0
  <2> DEFINE q == x \div BlockSize
  <2>1. x = (BlockSize * q) + (x % BlockSize) /\ q \in Nat
    BY BlockSizeAssumption
  <2> HIDE DEF q
  <2>2. x + BlockSize = (q + 1) * BlockSize
    BY <1>4, <2>1, BlockSizeAssumption
  <2>3. ((q + 1) * BlockSize + 0) % BlockSize = 0
    BY <2>1, BlockSizeAssumption
  <2> QED  BY <2>1, <2>2, <2>3, BlockSizeAssumption
<1> QED  BY <1>3, <1>4 DEF Offset

(* The bytes from BlockAddr(t, i) on are those with this tag and index. *)
LEMMA BlockBytes ==
  ASSUME NEW t \in Nat, NEW i \in Indices, NEW a \in Nat
  PROVE  /\ (a \in BlockAddr(t, i) .. (BlockAddr(t, i) + BlockSize - 1))
              <=> (Tag(a) = t /\ Index(a) = i)
         /\ Tag(a) = t /\ Index(a) = i => a - BlockAddr(t, i) = Offset(a)
<1>1. ASSUME Tag(a) = t, Index(a) = i
      PROVE  /\ a \in BlockAddr(t, i) .. (BlockAddr(t, i) + BlockSize - 1)
             /\ a - BlockAddr(t, i) = Offset(a)
  <2>1. a = BlockAddr(t, i) + Offset(a) /\ Offset(a) \in Offsets
    BY <1>1, AddrParts
  <2>2. BlockAddr(t, i) \in Nat
    BY AddrJoin, BlockSizeAssumption DEF Offsets
  <2> QED  BY <2>1, <2>2, BlockSizeAssumption DEF Offsets
<1>2. ASSUME a \in BlockAddr(t, i) .. (BlockAddr(t, i) + BlockSize - 1)
      PROVE  Tag(a) = t /\ Index(a) = i
  <2>1. BlockAddr(t, i) \in Nat
    BY AddrJoin, BlockSizeAssumption DEF Offsets
  <2>2. a - BlockAddr(t, i) \in Offsets
    BY <1>2, <2>1, BlockSizeAssumption DEF Offsets
  <2>3. a = BlockAddr(t, i) + (a - BlockAddr(t, i))
    BY <1>2, <2>1
  <2> QED  BY <2>2, <2>3, AddrJoin
<1> QED  BY <1>1, <1>2

(* The bytes of a request in one block have its tag and index. *)
LEMMA RequestBytes ==
  ASSUME NEW r, ReqOK(r), NEW a \in Nat, a \in Low!Bytes(r)
  PROVE  /\ Tag(a) = Tag(r.addr) /\ Index(a) = Index(r.addr)
         /\ Offset(a) = Offset(r.addr) + (a - r.addr)
<1>1. r.addr \in Nat /\ r.len \in Nat /\ Offset(r.addr) + r.len <= BlockSize
  BY DEF ReqOK, InOneBlock
<1>2. /\ Offset(r.addr) \in Offsets /\ Index(r.addr) \in Indices /\ Tag(r.addr) \in Nat
      /\ r.addr = BlockAddr(Tag(r.addr), Index(r.addr)) + Offset(r.addr)
  BY <1>1, AddrParts
<1>3. BlockAddr(Tag(r.addr), Index(r.addr)) \in Nat
  BY <1>2, AddrJoin
<1> DEFINE o == Offset(r.addr) + (a - r.addr)
<1>4. a - r.addr \in 0 .. (r.len - 1)
  BY <1>1 DEF Low!Bytes
<1>5. o \in Offsets
  BY <1>1, <1>2, <1>4, BlockSizeAssumption DEF Offsets
<1>6. a = BlockAddr(Tag(r.addr), Index(r.addr)) + o
  BY <1>1, <1>2, <1>3, BlockSizeAssumption DEF Offsets
<1> HIDE DEF o
<1> QED  BY <1>2, <1>5, <1>6, AddrJoin DEF o

-----------------------------------------------------------------------------
(* Cache sets. *)

(* read_block keeps a set well formed and leaves its lines alone. *)
LEMMA TouchBlockOp ==
  ASSUME NEW u \in SetUnits, NEW w \in Ways
  PROVE  /\ TouchBlock(u, w) \in SetUnits
         /\ TouchBlock(u, w).valid_array = u.valid_array
         /\ TouchBlock(u, w).tag_array = u.tag_array
         /\ TouchBlock(u, w).dirty_array = u.dirty_array
         /\ TouchBlock(u, w).data_array = u.data_array
         /\ TouchBlock(u, w).rp.valid = u.rp.valid
<1>1. u.rp \in RPStates
  BY DEF SetUnits
<1>2. Promote(u.rp, w) \in RPStates /\ Promote(u.rp, w).valid = u.rp.valid
  BY <1>1, PromoteType
<1> QED  BY <1>2 DEF SetUnits, TouchBlock

(* write_block changes the data of one way and makes it dirty. *)
LEMMA WriteBlockOp ==
  ASSUME NEW u \in SetUnits, NEW w \in Ways, NEW b \in Blocks
  PROVE  /\ WriteBlock(u, w, b) \in SetUnits
         /\ WriteBlock(u, w, b).valid_array = u.valid_array
         /\ WriteBlock(u, w, b).tag_array = u.tag_array
         /\ WriteBlock(u, w, b).dirty_array = [u.dirty_array EXCEPT ![w] = TRUE]
         /\ WriteBlock(u, w, b).data_array = [u.data_array EXCEPT ![w] = b]
         /\ WriteBlock(u, w, b).rp.valid = u.rp.valid
<1>1. u.rp \in RPStates
  BY DEF SetUnits
<1>2. Promote(u.rp, w) \in RPStates /\ Promote(u.rp, w).valid = u.rp.valid
  BY <1>1, PromoteType
<1> QED  BY <1>2 DEF SetUnits, WriteBlock

(* write_block_clean changes the data of one way only. *)
LEMMA WriteBlockCleanOp ==
  ASSUME NEW u \in SetUnits, NEW w \in Ways, NEW b \in Blocks
  PROVE  /\ WriteBlockClean(u, w, b) \in SetUnits
         /\ WriteBlockClean(u, w, b).valid_array = u.valid_array
         /\ WriteBlockClean(u, w, b).tag_array = u.tag_array
         /\ WriteBlockClean(u, w, b).dirty_array = u.dirty_array
         /\ WriteBlockClean(u, w, b).data_array = [u.data_array EXCEPT ![w] = b]
         /\ WriteBlockClean(u, w, b).rp.valid = u.rp.valid
<1>1. u.rp \in RPStates
  BY DEF SetUnits
<1>2. Promote(u.rp, w) \in RPStates /\ Promote(u.rp, w).valid = u.rp.valid
  BY <1>1, PromoteType
<1> QED  BY <1>2 DEF SetUnits, WriteBlockClean

(* insert_block puts a clean line into one way, for the set and its policy. *)
LEMMA InsertBlockOp ==
  ASSUME NEW u \in SetUnits, NEW w \in Ways, NEW t \in Nat, NEW b \in Blocks
  PROVE  /\ InsertBlock(u, w, t, b) \in SetUnits
         /\ InsertBlock(u, w, t, b).valid_array = [u.valid_array EXCEPT ![w] = TRUE]
         /\ InsertBlock(u, w, t, b).tag_array = [u.tag_array EXCEPT ![w] = t]
         /\ InsertBlock(u, w, t, b).dirty_array = [u.dirty_array EXCEPT ![w] = FALSE]
         /\ InsertBlock(u, w, t, b).data_array = [u.data_array EXCEPT ![w] = b]
         /\ InsertBlock(u, w, t, b).rp.valid = [u.rp.valid EXCEPT ![w] = TRUE]
<1>1. u.rp \in RPStates
  BY DEF SetUnits
<1>2. /\ Insert(u.rp, w) \in RPStates
      /\ Insert(u.rp, w).valid = [u.rp.valid EXCEPT ![w] = TRUE]
  BY <1>1, InsertType
<1> QED  BY <1>2 DEF SetUnits, InsertBlock

(* A miss names a way of the set and changes nothing but the policy, which   *)
(* gives that way up; the line is dirty only if a write-back is asked for or *)
(* the policy did not hold the way to be valid.                              *)
LEMMA MissContract ==
  ASSUME NEW u \in SetUnits, NEW m \in MissOutcomes(u)
  PROVE  /\ m.way \in Ways
         /\ m.unit \in SetUnits
         /\ m.unit.valid_array = u.valid_array
         /\ m.unit.tag_array = u.tag_array
         /\ m.unit.dirty_array = u.dirty_array
         /\ m.unit.data_array = u.data_array
         /\ m.unit.rp.valid = [u.rp.valid EXCEPT ![m.way] = FALSE]
         /\ m.need_write_back => u.rp.valid[m.way] /\ u.dirty_array[m.way]
         /\ ~m.need_write_back /\ u.dirty_array[m.way] => ~u.rp.valid[m.way]
<1>1. PICK e \in Evict(u.rp) :
          m = [need_write_back |-> e.full /\ u.dirty_array[e.way],
               way |-> e.way, unit |-> [u EXCEPT !.rp = e.rp]]
  BY DEF MissOutcomes
<1>2. u.rp \in RPStates
  BY DEF SetUnits
<1>3. /\ e.way \in Ways
      /\ e.full \in BOOLEAN
      /\ e.rp \in RPStates
      /\ e.rp.valid = [u.rp.valid EXCEPT ![e.way] = FALSE]
      /\ e.full => \A w \in Ways : u.rp.valid[w]
      /\ ~e.full => ~u.rp.valid[e.way]
  BY <1>2, EvictContract
<1>4. [u EXCEPT !.rp = e.rp] \in SetUnits
  BY <1>3 DEF SetUnits
<1> QED  BY <1>1, <1>3, <1>4 DEF SetUnits

-----------------------------------------------------------------------------
(* Steps that leave every line alone. *)

SameLines ==
    \A i \in Indices :
        /\ set'[i].valid_array = set[i].valid_array
        /\ set'[i].tag_array = set[i].tag_array
        /\ set'[i].dirty_array = set[i].dirty_array
        /\ set'[i].data_array = set[i].data_array

(* What a caller can see of the lines does not change in such a step. *)
LEMMA SameLinesSeen ==
  ASSUME SameLines
  PROVE  /\ \A a \in Nat, w \in Ways :
               /\ HeldIn(a, w)' <=> HeldIn(a, w)
               /\ Dirty(a, w)' = Dirty(a, w)
               /\ Byte(a, w)' = Byte(a, w)
         /\ UniqueTags => UniqueTags'
<1>1. \A a \in Nat : Index(a) \in Indices
  BY AddrParts
<1>2. \A a \in Nat, w \in Ways :
               /\ HeldIn(a, w)' <=> HeldIn(a, w)
               /\ Dirty(a, w)' = Dirty(a, w)
               /\ Byte(a, w)' = Byte(a, w)
  BY <1>1 DEF SameLines, HeldIn, Dirty, Byte, Holds
<1>3. UniqueTags => UniqueTags'
  BY DEF SameLines, UniqueTags
<1> QED  BY <1>2, <1>3

(* Such a step drops nothing. *)
LEMMA SameLinesKeep ==
  ASSUME SameLines
  PROVE  DropsOnlyWritten
<1>1. \A a \in Addr : a \in Nat
  BY DEF Addr
<1> QED  BY <1>1, SameLinesSeen DEF DropsOnlyWritten

(* Replacing one set by one with the same lines is such a step. *)
LEMMA SameLinesUpdate ==
  ASSUME set \in [Indices -> SetUnits], NEW i \in Indices, NEW u,
         set' = [set EXCEPT ![i] = u],
         u.valid_array = set[i].valid_array, u.tag_array = set[i].tag_array,
         u.dirty_array = set[i].dirty_array, u.data_array = set[i].data_array
  PROVE  SameLines
  BY DEF SameLines

(* A policy that gives one way up changes no other valid bit. *)
LEMMA GivenUp ==
  ASSUME set \in [Indices -> SetUnits], NEW i \in Indices, NEW w \in Ways,
         set'[i].rp.valid = [set[i].rp.valid EXCEPT ![w] = FALSE],
         \A j \in Indices \ {i} : set'[j] = set[j]
  PROVE  \A j \in Indices, v \in Ways :
            /\ set'[j].rp.valid[v] => set[j].rp.valid[v]
            /\ set[j].rp.valid[v] => set'[j].rp.valid[v] \/ (j = i /\ v = w)
<1>1. \A v \in Ways : /\ set'[i].rp.valid[v] => set[i].rp.valid[v]
                      /\ set[i].rp.valid[v] => set'[i].rp.valid[v] \/ v = w
  <2>1. set[i].rp.valid \in [Ways -> BOOLEAN]
    BY DEF SetUnits, RPStates
  <2> QED  BY <2>1
<1> SUFFICES ASSUME NEW j \in Indices, NEW v \in Ways
             PROVE  /\ set'[j].rp.valid[v] => set[j].rp.valid[v]
                    /\ set[j].rp.valid[v] => set'[j].rp.valid[v] \/ (j = i /\ v = w)
  OBVIOUS
<1>3. CASE j = i
  <2>1. /\ set'[i].rp.valid[v] => set[i].rp.valid[v]
        /\ set[i].rp.valid[v] => set'[i].rp.valid[v] \/ v = w
    BY <1>1
  <2> QED  BY <1>3, <2>1, Zenon
<1>4. CASE j # i
  <2>1. set'[j] = set[j]
    BY <1>4
  <2> QED  BY <2>1, Zenon
<1> QED  BY <1>3, <1>4

-----------------------------------------------------------------------------
(* The Lookup arm preserves the invariant, along each of its six ways. *)

LookupContext(r) ==
    /\ IndInv
    /\ SafePolicies
    /\ ReqOK(r)
    /\ fsm \in {"Idle", "Lookup"}
    /\ prefetch_in_flight => r.op = "Load"
    /\ UNCHANGED <<configVars, lowVars>>

(* What holds when a lookup starts: no transaction is open, the clean lines  *)
(* agree with the device below and the policy knows every dirty line.        *)
LEMMA LookupStart ==
  ASSUME NEW r, LookupContext(r)
  PROVE  /\ Index(r.addr) \in Indices /\ Tag(r.addr) \in Nat
         /\ set \in [Indices -> SetUnits] /\ set[Index(r.addr)] \in SetUnits
         /\ transaction.state = "None" /\ low_phase = "free"
         /\ \A a \in Addr : \A w \in Ways :
               HeldIn(a, w) /\ ~Dirty(a, w) => Byte(a, w) = low_mem[a]
         /\ \A i \in Indices : \A w \in Ways :
               set[i].dirty_array[w] => ~is_write_through /\ set[i].valid_array[w]
         /\ ~is_write_through =>
               \A i \in Indices : \A w \in Ways :
                   set[i].valid_array[w] <=> set[i].rp.valid[w]
<1>1. r.addr \in Nat
  BY DEF LookupContext, ReqOK
<1>2. Index(r.addr) \in Indices /\ Tag(r.addr) \in Nat
  BY <1>1, AddrParts
<1>3. set \in [Indices -> SetUnits]
  BY DEF LookupContext, IndInv, TypeOK
<1>4. transaction.state = "None" /\ low_phase = "free"
  BY DEF LookupContext, IndInv, ControlInv, LowInv, TypeOK, Replacing, Storing
<1>5. \A a \in Addr : \A w \in Ways :
               HeldIn(a, w) /\ ~Dirty(a, w) => Byte(a, w) = low_mem[a]
  BY DEF LookupContext, IndInv, CleanLinesAgree
<1>6. \A i \in Indices : \A w \in Ways :
               set[i].dirty_array[w] => ~is_write_through /\ set[i].valid_array[w]
  BY DEF LookupContext, IndInv, DirtyInv
<1>7. ~is_write_through =>
               \A i \in Indices : \A w \in Ways :
                   set[i].valid_array[w] <=> set[i].rp.valid[w]
  <2>1. ~Replacing
    BY DEF LookupContext, Replacing
  <2>2. \A i \in Indices : \A w \in Ways :
            set[i].valid_array[w] \in BOOLEAN /\ set[i].rp.valid[w] \in BOOLEAN
    BY <1>3 DEF SetUnits, RPStates
  <2> QED  BY <2>1, <2>2 DEF LookupContext, IndInv, KnownInv, VictimsAreHeld
<1> QED  BY <1>2, <1>3, <1>4, <1>5, <1>6, <1>7

(* The prefetcher's hooks: a hit ends a prefetch, a miss leaves it running,  *)
(* and what is queued is the start of a block.                               *)
LEMMA HooksStep ==
  ASSUME NEW r, LookupContext(r), NEW hit \in BOOLEAN, PrefetchHooks(r, hit)
  PROVE  /\ prefetch_in_flight' = (prefetch_in_flight /\ ~hit)
         /\ prefetch_queue' \in Seq(Nat)
         /\ QueueInv'
<1>1. /\ r.addr \in Nat /\ prefetch_queue \in Seq(Nat) /\ prefetch_in_flight \in BOOLEAN
      /\ QueueInv
  BY DEF LookupContext, ReqOK, IndInv, TypeOK
<1>2. \A a \in Predict(r.addr) : a \in Nat /\ Offset(a) = 0
  <2>1. Align(r.addr) \in Nat /\ Offset(Align(r.addr) + BlockSize) = 0
    BY <1>1, AlignIsAddr
  <2> QED  BY <2>1, BlockSizeAssumption DEF Predict
<1>3. prefetch_in_flight' = (prefetch_in_flight /\ ~hit)
  BY <1>1 DEF PrefetchHooks
<1>4. \/ prefetch_queue' = prefetch_queue
      \/ \E a \in Predict(r.addr) : prefetch_queue' = Append(prefetch_queue, a)
  BY DEF PrefetchHooks
<1>5. CASE prefetch_queue' = prefetch_queue
  BY <1>1, <1>3, <1>5 DEF QueueInv
<1>6. CASE \E a \in Predict(r.addr) : prefetch_queue' = Append(prefetch_queue, a)
  <2>1. PICK a \in Predict(r.addr) : prefetch_queue' = Append(prefetch_queue, a)
    BY <1>6
  <2>2. prefetch_queue' \in Seq(Nat)
    BY <1>1, <1>2, <2>1
  <2>3. \A n \in 1 .. Len(prefetch_queue') :
           prefetch_queue'[n] = IF n <= Len(prefetch_queue) THEN prefetch_queue[n] ELSE a
    BY <1>1, <2>1
  <2>4. QueueInv'
    BY <1>1, <1>2, <2>1, <2>3 DEF QueueInv
  <2> QED  BY <1>3, <2>2, <2>4
<1> QED  BY <1>4, <1>5, <1>6

(* A lookup that leaves the lines alone keeps the facts about the lines. *)
LEMMA SameLinesLookup ==
  ASSUME NEW r, LookupContext(r), SameLines
  PROVE  DirtyInv' /\ UniqueTags' /\ CleanLinesAgree'
<1>1. Addr \subseteq Nat
  BY DEF Addr
<1>2. UNCHANGED <<low_mem, write_policy>>
  BY DEF LookupContext, configVars, lowVars
<1>3. UniqueTags'
  BY SameLinesSeen DEF LookupContext, IndInv
<1>4. CleanLinesAgree'
  BY <1>1, <1>2, LookupStart, SameLinesSeen DEF CleanLinesAgree
<1>5. DirtyInv'
  BY <1>2, LookupStart DEF DirtyInv, SameLines, is_write_through
<1> QED  BY <1>3, <1>4, <1>5

(* The type invariant after a lookup, from the parts that a lookup assigns. *)
LEMMA LookupTypes ==
  ASSUME NEW r, LookupContext(r),
         set' \in [Indices -> SetUnits], fsm' \in States, counter' = 0,
         evict_way' \in Ways \/ evict_way' = evict_way,
         transaction' = transaction \/ transaction'.state = "Sending",
         caller'.state \in {"none", "waiting", "done"},
         prefetch_queue' \in Seq(Nat), prefetch_in_flight' \in BOOLEAN
  PROVE  TypeOK'
<1>1. UNCHANGED <<write_policy, prefetcher, low_mem, low_phase>>
  BY DEF LookupContext, configVars, lowVars
<1>2. TypeOK
  BY DEF LookupContext, IndInv
<1>3. transaction'.state \in {"None", "Sending", "Waiting"}
  BY <1>2 DEF TypeOK
<1>4. counter' \in 0 .. MissPenalty
  BY GeometryAssumption
<1>5. low_phase' \in Low!Phases /\ low_mem' \in [Addr -> Val]
  BY <1>1, <1>2 DEF TypeOK
<1> QED  BY <1>1, <1>2, <1>3, <1>4, <1>5 DEF TypeOK

(* A load that hits: the lines stay, the state machine is idle again. *)
LEMMA HitLoadStep ==
  ASSUME NEW r, LookupContext(r), NEW w \in Ways, HitLoad(r, w), PrefetchHooks(r, TRUE)
  PROVE  IndInv' /\ DropsOnlyWritten
<1> DEFINE i == Index(r.addr)
<1>1. /\ i \in Indices /\ set \in [Indices -> SetUnits] /\ set[i] \in SetUnits
      /\ transaction.state = "None" /\ low_phase = "free"
  BY LookupStart
<1>2. prefetch_in_flight' = FALSE /\ prefetch_queue' \in Seq(Nat) /\ QueueInv'
  BY HooksStep
<1>3. /\ set' = [set EXCEPT ![i] = TouchBlock(set[i], w)]
      /\ fsm' = "Idle" /\ counter' = 0
      /\ UNCHANGED <<transaction, evict_way, low_phase, low_mem, write_policy, prefetcher>>
      /\ caller' = caller \/ caller' = Done(Slice(set[i].data_array[w], r))
  BY DEF HitLoad, Goto, LookupContext, configVars, lowVars
<1> HIDE DEF i
<1>4. /\ TouchBlock(set[i], w) \in SetUnits
      /\ TouchBlock(set[i], w).valid_array = set[i].valid_array
      /\ TouchBlock(set[i], w).tag_array = set[i].tag_array
      /\ TouchBlock(set[i], w).dirty_array = set[i].dirty_array
      /\ TouchBlock(set[i], w).data_array = set[i].data_array
      /\ TouchBlock(set[i], w).rp.valid = set[i].rp.valid
  BY <1>1, TouchBlockOp
<1>5. SameLines
  BY <1>1, <1>3, <1>4, SameLinesUpdate
<1>6. set' \in [Indices -> SetUnits] /\ \A j \in Indices : set'[j].rp.valid = set[j].rp.valid
  BY <1>1, <1>3, <1>4
<1>7. TypeOK'
  <2>1. caller'.state \in {"none", "waiting", "done"}
    BY <1>3 DEF LookupContext, IndInv, TypeOK, Done
  <2> QED  BY <1>2, <1>3, <1>6, <2>1, LookupTypes DEF States
<1>8. ControlInv'
  BY <1>1, <1>2, <1>3 DEF ControlInv, Replacing, Storing
<1>9. LowInv'
  BY <1>1, <1>3 DEF LowInv
<1>10. MissInv' /\ VictimInv' /\ ThroughInv'
  BY <1>3 DEF MissInv, VictimInv, ThroughInv, Replacing
<1>11. KnownInv'
  BY <1>3, <1>5, <1>6, LookupStart DEF KnownInv, SameLines, is_write_through
<1>12. VictimsAreHeld'
  BY <1>5, <1>6 DEF LookupContext, IndInv, VictimsAreHeld, SameLines
<1> QED  BY <1>2, <1>5, <1>7, <1>8, <1>9, <1>10, <1>11, <1>12, SameLinesLookup,
         SameLinesKeep DEF IndInv

(* A store that is written around the cache: only the policy changes. *)
LEMMA MissAroundStep ==
  ASSUME NEW r, LookupContext(r), NEW m \in MissOutcomes(set[Index(r.addr)]),
         ~IsHit(set[Index(r.addr)], Tag(r.addr)),
         MissAround(r, m), PrefetchHooks(r, FALSE)
  PROVE  IndInv' /\ DropsOnlyWritten
<1> DEFINE i == Index(r.addr)
<1>1. /\ i \in Indices /\ set \in [Indices -> SetUnits] /\ set[i] \in SetUnits
      /\ transaction.state = "None" /\ low_phase = "free"
  BY LookupStart
<1>2. prefetch_in_flight' = FALSE /\ prefetch_queue' \in Seq(Nat) /\ QueueInv'
  BY HooksStep DEF LookupContext, MissAround
<1>3. /\ r.op = "Store" /\ is_no_write_allocate
      /\ set' = [set EXCEPT ![i] = m.unit]
      /\ fsm' = "WriteAround" /\ cur' = r /\ counter' = 0
      /\ transaction' = [state |-> "Sending", req |-> r]
      /\ UNCHANGED <<evict_way, low_phase, low_mem, write_policy, prefetcher>>
      /\ caller' = Waiting(r)
  BY DEF MissAround, NewTransaction, Goto, LookupContext, configVars, lowVars
<1>4. /\ m.unit \in SetUnits /\ m.way \in Ways
      /\ m.unit.valid_array = set[i].valid_array
      /\ m.unit.tag_array = set[i].tag_array
      /\ m.unit.dirty_array = set[i].dirty_array
      /\ m.unit.data_array = set[i].data_array
      /\ m.unit.rp.valid = [set[i].rp.valid EXCEPT ![m.way] = FALSE]
  BY <1>1, MissContract
<1>5. is_write_through
  BY <1>3 DEF LookupContext, SafePolicies, IndInv, TypeOK, is_write_through, is_no_write_allocate
<1>6. \A v \in Ways : ~Holds(set[i], v, Tag(r.addr))
  BY DEF IsHit
<1> HIDE DEF i
<1>7. SameLines
  BY <1>1, <1>3, <1>4, SameLinesUpdate
<1>8. set' \in [Indices -> SetUnits]
  BY <1>1, <1>3, <1>4
<1>9. TypeOK'
  <2>1. caller'.state = "waiting" /\ transaction'.state = "Sending"
    BY <1>3 DEF Waiting
  <2> QED  BY <1>2, <1>3, <1>8, <2>1, LookupTypes DEF States
<1>10. ControlInv'
  BY <1>1, <1>2, <1>3 DEF LookupContext, ControlInv, Replacing, Storing, is_no_write_allocate
<1>11. LowInv'
  BY <1>1, <1>3 DEF LowInv
<1>12. MissInv'
  BY <1>1, <1>3, <1>6, <1>7 DEF MissInv, Holds, SameLines, i
<1>13. VictimInv' /\ ThroughInv'
  BY <1>3 DEF VictimInv, ThroughInv
<1>14. KnownInv'
  BY <1>3, <1>5 DEF KnownInv, is_write_through
<1>15. VictimsAreHeld'
  <2>1. \A j \in Indices, v \in Ways : set'[j].rp.valid[v] => set[j].rp.valid[v]
    BY <1>1, <1>3, <1>4 DEF SetUnits, RPStates
  <2> QED  BY <1>7, <2>1 DEF LookupContext, IndInv, VictimsAreHeld, SameLines
<1> QED  BY <1>2, <1>7, <1>9, <1>10, <1>11, <1>12, <1>13, <1>14, <1>15, SameLinesLookup,
         SameLinesKeep DEF IndInv

(* A miss that must write its victim back: the lines stay, the policy gives  *)
(* the victim up.                                                            *)
LEMMA MissWriteBackStep ==
  ASSUME NEW r, LookupContext(r), NEW m \in MissOutcomes(set[Index(r.addr)]),
         ~IsHit(set[Index(r.addr)], Tag(r.addr)),
         MissWriteBack(r, m), PrefetchHooks(r, FALSE)
  PROVE  IndInv' /\ DropsOnlyWritten
<1> DEFINE i == Index(r.addr)
<1>1. /\ i \in Indices /\ set \in [Indices -> SetUnits] /\ set[i] \in SetUnits
      /\ transaction.state = "None" /\ low_phase = "free"
  BY LookupStart
<1>2. /\ prefetch_in_flight' = prefetch_in_flight
      /\ prefetch_queue' \in Seq(Nat) /\ QueueInv'
      /\ prefetch_in_flight \in BOOLEAN /\ ReqOK(r)
      /\ prefetch_in_flight => r.op = "Load"
  BY HooksStep DEF LookupContext, IndInv, TypeOK
<1>3. /\ set' = [set EXCEPT ![i] = TouchBlock(m.unit, m.way)]
      /\ m.need_write_back
      /\ fsm' = "WriteBack" /\ cur' = r /\ counter' = 0
      /\ transaction' = [state |-> "Sending",
                          req |-> Low!Store(BlockAddr(set[i].tag_array[m.way], i), BlockSize,
                                            set[i].data_array[m.way])]
      /\ evict_way' = m.way
      /\ UNCHANGED <<low_phase, low_mem, write_policy, prefetcher>>
      /\ caller' = caller \/ caller' = Waiting(r)
  BY DEF MissWriteBack, NewTransaction, Goto, LookupContext, configVars, lowVars
<1> DEFINE u == TouchBlock(m.unit, m.way)
<1>4. /\ m.way \in Ways /\ u \in SetUnits
      /\ u.valid_array = set[i].valid_array
      /\ u.tag_array = set[i].tag_array
      /\ u.dirty_array = set[i].dirty_array
      /\ u.data_array = set[i].data_array
      /\ u.rp.valid = [set[i].rp.valid EXCEPT ![m.way] = FALSE]
      /\ set[i].rp.valid[m.way] /\ set[i].dirty_array[m.way]
  <2>1. /\ m.way \in Ways /\ m.unit \in SetUnits
        /\ m.unit.valid_array = set[i].valid_array
        /\ m.unit.tag_array = set[i].tag_array
        /\ m.unit.dirty_array = set[i].dirty_array
        /\ m.unit.data_array = set[i].data_array
        /\ m.unit.rp.valid = [set[i].rp.valid EXCEPT ![m.way] = FALSE]
        /\ set[i].rp.valid[m.way] /\ set[i].dirty_array[m.way]
    BY <1>1, <1>3, MissContract
  <2> QED  BY <2>1, TouchBlockOp
<1>5. ~is_write_through /\ set[i].valid_array[m.way]
  BY <1>1, <1>4, LookupStart
<1>6. \A v \in Ways : ~Holds(set[i], v, Tag(r.addr))
  BY DEF IsHit
<1> HIDE DEF i, u
<1>7. set' = [set EXCEPT ![i] = u]
  BY <1>3 DEF u
<1>8. SameLines
  BY <1>1, <1>4, <1>7, SameLinesUpdate
<1>9. set' \in [Indices -> SetUnits]
  BY <1>1, <1>4, <1>7
<1>10. TypeOK'
  <2>1. caller'.state \in {"none", "waiting", "done"} /\ transaction'.state = "Sending"
    BY <1>3 DEF LookupContext, IndInv, TypeOK, Waiting
  <2> QED  BY <1>2, <1>3, <1>4, <1>9, <2>1, LookupTypes DEF States
<1>11. ControlInv'
  <2>1. /\ set'[Index(r.addr)].valid_array[m.way]
        /\ set'[Index(r.addr)].tag_array = set[i].tag_array
        /\ set'[Index(r.addr)].data_array = set[i].data_array
    BY <1>1, <1>5, <1>8 DEF SameLines, i
  <2> QED  BY <1>2, <1>3, <2>1 DEF ControlInv, Replacing, Storing, i
<1>12. LowInv'
  BY <1>1, <1>3 DEF LowInv
<1>13. MissInv'
  BY <1>1, <1>3, <1>6, <1>8 DEF MissInv, Holds, SameLines, i
<1>14. VictimInv' /\ ThroughInv'
  BY <1>3 DEF VictimInv, ThroughInv
<1>15. \A j \in Indices, v \in Ways :
          /\ set'[j].rp.valid[v] => set[j].rp.valid[v]
          /\ set[j].rp.valid[v] => set'[j].rp.valid[v] \/ (j = i /\ v = m.way)
  <2>1. /\ set'[i].rp.valid = [set[i].rp.valid EXCEPT ![m.way] = FALSE]
        /\ \A j \in Indices \ {i} : set'[j] = set[j]
    BY <1>1, <1>4, <1>7
  <2> QED  BY <1>1, <1>4, <2>1, GivenUp
<1>16. KnownInv'
  <2>1. Replacing' /\ Index(cur.addr)' = i /\ evict_way' = m.way
    BY <1>3 DEF Replacing, i
  <2> QED  BY <1>3, <1>5, <1>8, <1>15, <2>1, LookupStart
           DEF KnownInv, SameLines, is_write_through
<1>17. VictimsAreHeld'
  BY <1>8, <1>15 DEF LookupContext, IndInv, VictimsAreHeld, SameLines
<1> QED  BY <1>2, <1>8, <1>10, <1>11, <1>12, <1>13, <1>14, <1>16, <1>17, SameLinesLookup,
         SameLinesKeep
         DEF IndInv

(* A miss whose victim needs no write-back: the lines stay, and the victim,  *)
(* if it is valid, agrees with the device below.                             *)
LEMMA MissAllocateStep ==
  ASSUME NEW r, LookupContext(r), NEW m \in MissOutcomes(set[Index(r.addr)]),
         ~IsHit(set[Index(r.addr)], Tag(r.addr)),
         MissAllocate(r, m), PrefetchHooks(r, FALSE)
  PROVE  IndInv' /\ DropsOnlyWritten
<1> DEFINE i == Index(r.addr)
<1>1. /\ i \in Indices /\ set \in [Indices -> SetUnits] /\ set[i] \in SetUnits
      /\ transaction.state = "None" /\ low_phase = "free"
  BY LookupStart
<1>2. /\ prefetch_in_flight' = prefetch_in_flight
      /\ prefetch_queue' \in Seq(Nat) /\ QueueInv'
      /\ prefetch_in_flight \in BOOLEAN /\ ReqOK(r)
      /\ prefetch_in_flight => r.op = "Load"
  BY HooksStep DEF LookupContext, IndInv, TypeOK
<1>3. /\ set' = [set EXCEPT ![i] = m.unit]
      /\ ~m.need_write_back
      /\ fsm' = "Allocate" /\ cur' = r /\ counter' = 0
      /\ transaction' = [state |-> "Sending",
                          req |-> Low!Load(BlockAddr(Tag(r.addr), i), BlockSize)]
      /\ evict_way' = m.way
      /\ UNCHANGED <<low_phase, low_mem, write_policy, prefetcher>>
      /\ caller' = caller \/ caller' = Waiting(r)
  BY DEF MissAllocate, NewTransaction, Goto, LookupContext, configVars, lowVars
<1>4. /\ m.way \in Ways /\ m.unit \in SetUnits
      /\ m.unit.valid_array = set[i].valid_array
      /\ m.unit.tag_array = set[i].tag_array
      /\ m.unit.dirty_array = set[i].dirty_array
      /\ m.unit.data_array = set[i].data_array
      /\ m.unit.rp.valid = [set[i].rp.valid EXCEPT ![m.way] = FALSE]
      /\ set[i].dirty_array[m.way] => ~set[i].rp.valid[m.way]
  BY <1>1, <1>3, MissContract
<1>5. ~set[i].dirty_array[m.way]
  BY <1>1, <1>4, LookupStart
<1>6. \A v \in Ways : ~Holds(set[i], v, Tag(r.addr))
  BY DEF IsHit
<1>7. Align(r.addr) = BlockAddr(Tag(r.addr), i)
  BY <1>2, AddrParts DEF ReqOK
<1> HIDE DEF i
<1>8. SameLines
  BY <1>1, <1>3, <1>4, SameLinesUpdate
<1>9. set' \in [Indices -> SetUnits]
  BY <1>1, <1>3, <1>4
<1>10. TypeOK'
  <2>1. caller'.state \in {"none", "waiting", "done"} /\ transaction'.state = "Sending"
    BY <1>3 DEF LookupContext, IndInv, TypeOK, Waiting
  <2> QED  BY <1>2, <1>3, <1>4, <1>9, <2>1, LookupTypes DEF States
<1>11. ControlInv'
  BY <1>2, <1>3, <1>7 DEF ControlInv, Replacing, Storing, AllocateReq
<1>12. LowInv'
  BY <1>1, <1>3 DEF LowInv
<1>13. MissInv'
  BY <1>1, <1>3, <1>6, <1>8 DEF MissInv, Holds, SameLines, i
<1>14. VictimInv'
  <2>1. \A a \in Addr : Index(a) = i /\ HeldIn(a, m.way) => Byte(a, m.way) = low_mem[a]
    BY <1>4, <1>5, LookupStart DEF Dirty
  <2>2. Index(cur.addr)' = i
    BY <1>3 DEF i
  <2>3. \A a \in Addr : a \in Nat
    BY DEF Addr
  <2> QED  BY <1>3, <1>4, <1>8, <2>1, <2>2, <2>3, SameLinesSeen DEF VictimInv
<1>15. ThroughInv'
  BY <1>3 DEF ThroughInv
<1>16. \A j \in Indices, v \in Ways :
          /\ set'[j].rp.valid[v] => set[j].rp.valid[v]
          /\ set[j].rp.valid[v] => set'[j].rp.valid[v] \/ (j = i /\ v = m.way)
  <2>1. /\ set'[i].rp.valid = [set[i].rp.valid EXCEPT ![m.way] = FALSE]
        /\ \A j \in Indices \ {i} : set'[j] = set[j]
    BY <1>1, <1>3, <1>4
  <2> QED  BY <1>1, <1>4, <2>1, GivenUp
<1>17. KnownInv'
  <2>1. Replacing' /\ Index(cur.addr)' = i /\ evict_way' = m.way
    BY <1>3 DEF Replacing, i
  <2> QED  BY <1>3, <1>8, <1>16, <2>1, LookupStart
           DEF KnownInv, SameLines, is_write_through
<1>18. VictimsAreHeld'
  BY <1>8, <1>16 DEF LookupContext, IndInv, VictimsAreHeld, SameLines
<1> QED  BY <1>2, <1>8, <1>10, <1>11, <1>12, <1>13, <1>14, <1>15, <1>17, <1>18, SameLinesLookup,
         SameLinesKeep
         DEF IndInv

(* A store replaces its own bytes of the block and no others. *)
LEMMA MergeByte ==
  ASSUME NEW r, ReqOK(r), r.op = "Store", NEW b \in Blocks
  PROVE  /\ Merge(b, r) \in Blocks
         /\ \A a \in Nat :
               Tag(a) = Tag(r.addr) /\ Index(a) = Index(r.addr) =>
                 Merge(b, r)[Offset(a)] = IF a \in Low!Bytes(r) THEN r.data[a - r.addr]
                                          ELSE b[Offset(a)]
<1>1. /\ r.addr \in Nat /\ r.len \in Nat /\ Offset(r.addr) + r.len <= BlockSize
      /\ r.data \in [0 .. (r.len - 1) -> Val]
  BY DEF ReqOK, InOneBlock
<1>0. \A a \in Nat : Offset(a) \in Offsets /\ Offset(a) \in Nat
  <2>1. Offsets \subseteq Nat
    BY DEF Offsets
  <2> QED  BY <2>1, AddrParts
<1>2. Offset(r.addr) \in Nat
  BY <1>0, <1>1
<1>3. Merge(b, r) \in Blocks
  <2>1. ASSUME NEW o \in Offsets, o \in Offset(r.addr) .. (Offset(r.addr) + r.len - 1)
        PROVE  r.data[o - Offset(r.addr)] \in Val
    <3>1. o - Offset(r.addr) \in 0 .. (r.len - 1)
      BY <1>1, <1>2, <2>1
    <3> QED  BY <1>1, <3>1
  <2>2. \A o \in Offsets : b[o] \in Val
    BY DEF Blocks
  <2> QED  BY <2>1, <2>2 DEF Merge, Blocks
<1>4. ASSUME NEW a \in Nat, Tag(a) = Tag(r.addr), Index(a) = Index(r.addr)
      PROVE  Merge(b, r)[Offset(a)] = IF a \in Low!Bytes(r) THEN r.data[a - r.addr]
                                      ELSE b[Offset(a)]
  <2> DEFINE base == BlockAddr(Tag(r.addr), Index(r.addr))
  <2>1. /\ Offset(a) \in Offsets /\ Offset(a) \in Nat
        /\ a = base + Offset(a) /\ r.addr = base + Offset(r.addr)
    BY <1>0, <1>1, <1>4, AddrParts
  <2>2. base \in Nat
    BY <1>1, AddrParts, AddrJoin
  <2> HIDE DEF base
  <2>3. a - r.addr = Offset(a) - Offset(r.addr)
    BY <1>2, <2>1, <2>2
  <2>4. a \in Low!Bytes(r) <=> Offset(a) \in Offset(r.addr) .. (Offset(r.addr) + r.len - 1)
    BY <1>1, <1>2, <2>1, <2>2 DEF Low!Bytes
  <2> QED  BY <2>1, <2>3, <2>4 DEF Merge
<1> QED  BY <1>3, <1>4

(* What a caller sees after a store into the way that holds its block. *)
LEMMA StoreSeen ==
  ASSUME IndInv, NEW r, ReqOK(r), r.op = "Store", NEW w \in Ways, NEW u,
         Holds(set[Index(r.addr)], w, Tag(r.addr)),
         set' = [set EXCEPT ![Index(r.addr)] = u],
         u.valid_array = set[Index(r.addr)].valid_array,
         u.tag_array = set[Index(r.addr)].tag_array,
         u.data_array = [set[Index(r.addr)].data_array EXCEPT
                            ![w] = Merge(set[Index(r.addr)].data_array[w], r)]
  PROVE  /\ UniqueTags'
         /\ \A a \in Nat, v \in Ways :
               /\ HeldIn(a, v)' <=> HeldIn(a, v)
               /\ HeldIn(a, v) =>
                     Byte(a, v)' = IF a \in Low!Bytes(r) THEN r.data[a - r.addr] ELSE Byte(a, v)
<1> DEFINE i == Index(r.addr)
<1>1. i \in Indices /\ r.addr \in Nat
  BY AddrParts DEF ReqOK
<1>2. set \in [Indices -> SetUnits]
  BY DEF IndInv, TypeOK
<1>3. /\ \A j \in Indices : /\ set'[j].valid_array = set[j].valid_array
                             /\ set'[j].tag_array = set[j].tag_array
      /\ \A j \in Indices \ {i} : set'[j] = set[j]
      /\ set'[i].data_array = [set[i].data_array EXCEPT ![w] = Merge(set[i].data_array[w], r)]
  BY <1>1, <1>2
<1>4. UniqueTags'
  BY <1>3 DEF IndInv, UniqueTags
<1>5. \A a \in Nat : Index(a) \in Indices
  BY AddrParts
<1>6. ASSUME NEW a \in Nat, NEW v \in Ways
      PROVE  HeldIn(a, v)' <=> HeldIn(a, v)
  BY <1>3, <1>5 DEF HeldIn, Holds
<1>7. ASSUME NEW a \in Nat, NEW v \in Ways, HeldIn(a, v)
      PROVE  Byte(a, v)' = IF a \in Low!Bytes(r) THEN r.data[a - r.addr] ELSE Byte(a, v)
  <2>1. /\ set[i].data_array \in [Ways -> Blocks]
        /\ set[i].data_array[w] \in Blocks
    BY <1>1, <1>2 DEF SetUnits
  <2>2. CASE Index(a) = i /\ Tag(a) = Tag(r.addr)
    <3>1. v = w
      BY <1>1, <1>7, <2>2 DEF HeldIn, Holds, IndInv, UniqueTags
    <3>2. Byte(a, v)' = Merge(set[i].data_array[w], r)[Offset(a)]
      BY <1>3, <2>1, <2>2, <3>1 DEF Byte
    <3>3. Byte(a, v) = set[i].data_array[w][Offset(a)]
      BY <2>2, <3>1 DEF Byte
    <3> QED  BY <2>1, <2>2, <3>2, <3>3, MergeByte
  <2>3. CASE ~(Index(a) = i /\ Tag(a) = Tag(r.addr))
    <3>1. a \notin Low!Bytes(r)
      BY <2>3, RequestBytes
    <3>2. Index(a) = i => v # w
      BY <1>7, <2>3 DEF HeldIn, Holds
    <3>3. Byte(a, v)' = Byte(a, v)
      <4>1. CASE Index(a) = i
        BY <1>3, <2>1, <3>2, <4>1 DEF Byte
      <4>2. CASE Index(a) # i
        BY <1>3, <1>5, <4>2 DEF Byte
      <4> QED  BY <4>1, <4>2
    <3> QED  BY <3>1, <3>3
  <2> QED  BY <2>2, <2>3
<1> QED  BY <1>4, <1>6, <1>7

(* A write-back store that hits: its bytes change and the line is dirty. *)
LEMMA HitStoreBackStep ==
  ASSUME NEW r, LookupContext(r), NEW w \in Ways,
         Holds(set[Index(r.addr)], w, Tag(r.addr)),
         HitStoreBack(r, w), PrefetchHooks(r, TRUE)
  PROVE  IndInv' /\ DropsOnlyWritten
<1> DEFINE i == Index(r.addr)
<1> DEFINE b == Merge(set[i].data_array[w], r)
<1>1. /\ i \in Indices /\ set \in [Indices -> SetUnits] /\ set[i] \in SetUnits
      /\ transaction.state = "None" /\ low_phase = "free"
      /\ ReqOK(r) /\ r.addr \in Nat /\ IndInv
  BY LookupStart DEF LookupContext, ReqOK
<1>2. prefetch_in_flight' = FALSE /\ prefetch_queue' \in Seq(Nat) /\ QueueInv'
  BY HooksStep
<1>3. /\ r.op = "Store" /\ ~is_write_through
      /\ set' = [set EXCEPT ![i] = WriteBlock(set[i], w, b)]
      /\ fsm' = "Idle" /\ counter' = 0
      /\ UNCHANGED <<transaction, evict_way, low_phase, low_mem, write_policy, prefetcher>>
      /\ caller' = Done(<<>>)
  BY DEF HitStoreBack, Goto, LookupContext, configVars, lowVars
<1>4. b \in Blocks
  BY <1>1, <1>3, MergeByte DEF SetUnits
<1> HIDE DEF i, b
<1>5. /\ WriteBlock(set[i], w, b) \in SetUnits
      /\ WriteBlock(set[i], w, b).valid_array = set[i].valid_array
      /\ WriteBlock(set[i], w, b).tag_array = set[i].tag_array
      /\ WriteBlock(set[i], w, b).dirty_array = [set[i].dirty_array EXCEPT ![w] = TRUE]
      /\ WriteBlock(set[i], w, b).data_array = [set[i].data_array EXCEPT ![w] = b]
      /\ WriteBlock(set[i], w, b).rp.valid = set[i].rp.valid
  <2>1. set[i] \in SetUnits /\ w \in Ways /\ b \in Blocks
    BY <1>1, <1>4
  <2> QED  BY ONLY <2>1, WriteBlockOp, Zenon
<1>6. /\ set' \in [Indices -> SetUnits]
      /\ \A j \in Indices : set'[j].valid_array = set[j].valid_array
                            /\ set'[j].rp.valid = set[j].rp.valid
      /\ \A j \in Indices \ {i} : set'[j] = set[j]
      /\ set'[i].dirty_array = [set[i].dirty_array EXCEPT ![w] = TRUE]
  BY <1>1, <1>3, <1>5
<1>7. \A j \in Indices, v \in Ways :
         /\ set'[j].dirty_array[v] => set[j].dirty_array[v] \/ (j = i /\ v = w)
         /\ ~set'[j].dirty_array[v] => ~set[j].dirty_array[v] /\ ~(j = i /\ v = w)
  <2> SUFFICES ASSUME NEW j \in Indices, NEW v \in Ways
               PROVE  /\ set'[j].dirty_array[v] => set[j].dirty_array[v] \/ (j = i /\ v = w)
                      /\ ~set'[j].dirty_array[v] =>
                            ~set[j].dirty_array[v] /\ ~(j = i /\ v = w)
    OBVIOUS
  <2>1. set[i].dirty_array \in [Ways -> BOOLEAN]
    BY <1>1 DEF SetUnits
  <2>2. /\ set'[i].dirty_array[v] => set[i].dirty_array[v] \/ v = w
        /\ ~set'[i].dirty_array[v] => ~set[i].dirty_array[v] /\ v # w
    BY <1>6, <2>1
  <2>3. CASE j = i
    BY <2>2, <2>3, Zenon
  <2>4. CASE j # i
    <3>1. set'[j] = set[j]
      BY <1>6, <2>4
    <3> QED  BY <2>4, <3>1, Zenon
  <2> QED  BY <2>3, <2>4
<1>8. /\ UniqueTags'
      /\ \A a \in Nat, v \in Ways :
            /\ HeldIn(a, v)' <=> HeldIn(a, v)
            /\ HeldIn(a, v) =>
                  Byte(a, v)' = IF a \in Low!Bytes(r) THEN r.data[a - r.addr] ELSE Byte(a, v)
  BY <1>1, <1>3, <1>5, StoreSeen DEF i, b
<1>9. TypeOK'
  <2>1. caller'.state = "done"
    BY <1>3 DEF Done
  <2> QED  BY <1>2, <1>3, <1>6, <2>1, LookupTypes DEF States
<1>10. ControlInv'
  BY <1>1, <1>2, <1>3 DEF ControlInv, Replacing, Storing
<1>11. LowInv'
  BY <1>1, <1>3 DEF LowInv
<1>12. MissInv' /\ VictimInv' /\ ThroughInv'
  BY <1>3 DEF MissInv, VictimInv, ThroughInv, Replacing
<1>13. KnownInv'
  BY <1>3, <1>6, LookupStart DEF KnownInv, is_write_through
<1>14. VictimsAreHeld'
  BY <1>1, <1>6 DEF IndInv, VictimsAreHeld
<1>15. DirtyInv'
  <2>1. set[i].valid_array[w]
    BY DEF Holds, i
  <2> QED  BY <1>3, <1>6, <1>7, <2>1, LookupStart DEF DirtyInv, is_write_through
<1>16. CleanLinesAgree'
  <2> SUFFICES ASSUME NEW a \in Addr, NEW v \in Ways, HeldIn(a, v)', ~Dirty(a, v)'
               PROVE  Byte(a, v)' = low_mem'[a]
    BY DEF CleanLinesAgree
  <2>1. a \in Nat /\ Index(a) \in Indices /\ HeldIn(a, v)
    <3>1. a \in Nat
      BY DEF Addr
    <3> QED  BY <1>8, <3>1, AddrParts
  <2>2. ~Dirty(a, v) /\ ~(Index(a) = i /\ v = w)
    BY <1>7, <2>1 DEF Dirty
  <2>3. a \notin Low!Bytes(r)
    <3> SUFFICES ASSUME a \in Low!Bytes(r) PROVE FALSE
      OBVIOUS
    <3>1. Tag(a) = Tag(r.addr) /\ Index(a) = i
      BY <1>1, <2>1, RequestBytes DEF i
    <3> QED  BY <1>1, <2>1, <2>2, <3>1 DEF IndInv, UniqueTags, HeldIn, Holds, i
  <2>4. Byte(a, v) = low_mem[a]
    BY <2>1, <2>2, LookupStart
  <2> QED  BY <1>3, <1>8, <2>1, <2>3, <2>4
<1>17. DropsOnlyWritten
  <2>1. \A a \in Addr : a \in Nat /\ Index(a) \in Indices
    BY AddrParts DEF Addr
  <2> QED  BY <1>7, <1>8, <2>1 DEF DropsOnlyWritten, Dirty
<1> QED  BY <1>2, <1>8, <1>9, <1>10, <1>11, <1>12, <1>13, <1>14, <1>15, <1>16, <1>17 DEF IndInv

(* A write-through store that hits: its bytes change, and are sent below. *)
LEMMA HitStoreThroughStep ==
  ASSUME NEW r, LookupContext(r), NEW w \in Ways,
         Holds(set[Index(r.addr)], w, Tag(r.addr)),
         HitStoreThrough(r, w), PrefetchHooks(r, TRUE)
  PROVE  IndInv' /\ DropsOnlyWritten
<1> DEFINE i == Index(r.addr)
<1> DEFINE b == Merge(set[i].data_array[w], r)
<1>1. /\ i \in Indices /\ set \in [Indices -> SetUnits] /\ set[i] \in SetUnits
      /\ transaction.state = "None" /\ low_phase = "free"
      /\ ReqOK(r) /\ r.addr \in Nat /\ IndInv
  BY LookupStart DEF LookupContext, ReqOK
<1>2. prefetch_in_flight' = FALSE /\ prefetch_queue' \in Seq(Nat) /\ QueueInv'
  BY HooksStep
<1>3. /\ r.op = "Store" /\ is_write_through
      /\ set' = [set EXCEPT ![i] = WriteBlockClean(set[i], w, b)]
      /\ fsm' = "WriteThroughCommit" /\ cur' = r /\ counter' = 0
      /\ transaction' = [state |-> "Sending", req |-> r]
      /\ UNCHANGED <<evict_way, low_phase, low_mem, write_policy, prefetcher>>
      /\ caller' = Waiting(r)
  BY DEF HitStoreThrough, NewTransaction, Goto, LookupContext, configVars, lowVars
<1>4. b \in Blocks
  BY <1>1, <1>3, MergeByte DEF SetUnits
<1> HIDE DEF i, b
<1>5. /\ WriteBlockClean(set[i], w, b) \in SetUnits
      /\ WriteBlockClean(set[i], w, b).valid_array = set[i].valid_array
      /\ WriteBlockClean(set[i], w, b).tag_array = set[i].tag_array
      /\ WriteBlockClean(set[i], w, b).dirty_array = set[i].dirty_array
      /\ WriteBlockClean(set[i], w, b).data_array = [set[i].data_array EXCEPT ![w] = b]
      /\ WriteBlockClean(set[i], w, b).rp.valid = set[i].rp.valid
  BY <1>1, <1>4, WriteBlockCleanOp
<1>6. /\ set' \in [Indices -> SetUnits]
      /\ \A j \in Indices : /\ set'[j].valid_array = set[j].valid_array
                             /\ set'[j].dirty_array = set[j].dirty_array
                             /\ set'[j].rp.valid = set[j].rp.valid
  BY <1>1, <1>3, <1>5
<1>7. /\ UniqueTags'
      /\ \A a \in Nat, v \in Ways :
            /\ HeldIn(a, v)' <=> HeldIn(a, v)
            /\ HeldIn(a, v) =>
                  Byte(a, v)' = IF a \in Low!Bytes(r) THEN r.data[a - r.addr] ELSE Byte(a, v)
  BY <1>1, <1>3, <1>5, StoreSeen DEF i, b
<1>8. TypeOK'
  <2>1. caller'.state = "waiting" /\ transaction'.state = "Sending"
    BY <1>3 DEF Waiting
  <2> QED  BY <1>2, <1>3, <1>6, <2>1, LookupTypes DEF States
<1>9. ControlInv'
  BY <1>1, <1>2, <1>3 DEF ControlInv, Replacing, Storing, is_write_through
<1>10. LowInv'
  BY <1>1, <1>3 DEF LowInv
<1>11. MissInv' /\ VictimInv'
  BY <1>3 DEF MissInv, VictimInv, Replacing
<1>12. ThroughInv'
  BY <1>3, <1>7 DEF ThroughInv, Addr
<1>13. KnownInv'
  BY <1>3 DEF KnownInv, is_write_through
<1>14. VictimsAreHeld'
  BY <1>1, <1>6 DEF IndInv, VictimsAreHeld
<1>15. DirtyInv'
  BY <1>3, <1>6, LookupStart DEF DirtyInv, is_write_through
<1>16. CleanLinesAgree'
  <2> SUFFICES ASSUME NEW a \in Addr, NEW v \in Ways, HeldIn(a, v)', ~Dirty(a, v)'
               PROVE  \/ Byte(a, v)' = low_mem'[a]
                      \/ fsm' = "WriteThroughCommit" /\ a \in Low!Bytes(cur')
    BY DEF CleanLinesAgree
  <2>1. a \in Nat /\ Index(a) \in Indices /\ HeldIn(a, v)
    <3>1. a \in Nat
      BY DEF Addr
    <3> QED  BY <1>7, <3>1, AddrParts
  <2>2. Byte(a, v) = low_mem[a]
    BY <1>6, <2>1, LookupStart DEF Dirty
  <2> QED  BY <1>3, <1>7, <2>1, <2>2
<1>17. DropsOnlyWritten
  <2>1. \A a \in Addr : a \in Nat /\ Index(a) \in Indices
    BY AddrParts DEF Addr
  <2> QED  BY <1>6, <1>7, <2>1 DEF DropsOnlyWritten, Dirty
<1> QED  BY <1>2, <1>7, <1>8, <1>9, <1>10, <1>11, <1>12, <1>13, <1>14, <1>15, <1>16, <1>17 DEF IndInv

(* Every way through the Lookup arm preserves the invariant. *)
LEMMA LookupStep ==
  ASSUME NEW r, LookupContext(r), Lookup(r)
  PROVE  IndInv' /\ DropsOnlyWritten
<1> DEFINE u == set[Index(r.addr)]
<1>1. CASE IsHit(u, Tag(r.addr))
  <2>1. PICK w \in HitWay(u, Tag(r.addr)) :
           HitLoad(r, w) \/ HitStoreThrough(r, w) \/ HitStoreBack(r, w)
    BY <1>1 DEF Lookup
  <2>2. PrefetchHooks(r, TRUE)
    BY <1>1 DEF Lookup, PrefetchHooks
  <2>3. w \in Ways /\ Holds(u, w, Tag(r.addr))
    BY DEF HitWay, First
  <2> QED  BY <2>1, <2>2, <2>3, HitLoadStep, HitStoreThroughStep, HitStoreBackStep
<1>2. CASE ~IsHit(u, Tag(r.addr))
  <2>1. PICK m \in MissOutcomes(u) :
           MissAround(r, m) \/ MissWriteBack(r, m) \/ MissAllocate(r, m)
    BY <1>2 DEF Lookup
  <2>2. PrefetchHooks(r, FALSE)
    BY <1>2 DEF Lookup, PrefetchHooks
  <2> QED  BY <1>2, <2>1, <2>2, MissAroundStep, MissWriteBackStep, MissAllocateStep
<1> QED  BY <1>1, <1>2

-----------------------------------------------------------------------------
(* The other steps preserve the invariant. *)

(* A request that the caller may make is in one block of the memory. *)
LEMMA RequestIsOK ==
  ASSUME NEW r \in Reqs
  PROVE  ReqOK(r) /\ Low!InBounds(r) /\ r.addr \in Addr /\ r.addr \in Nat
<1>1. /\ r.addr \in Addr /\ r.len \in Nat \ {0} /\ InOneBlock(r) /\ Low!InBounds(r)
      /\ \/ r = Low!Load(r.addr, r.len)
         \/ r = Low!Store(r.addr, r.len, r.data) /\ r.data \in [0 .. (r.len - 1) -> Val]
  BY ReqsAssumption
<1>2. r.addr \in Nat
  BY <1>1 DEF Addr
<1>3. r.op = "Load" \/ (r.op = "Store" /\ r.data \in [0 .. (r.len - 1) -> Val])
  BY <1>1 DEF Low!Load, Low!Store
<1> QED  BY <1>1, <1>2, <1>3 DEF ReqOK

LEMMA TryRegisterReqStep ==
  ASSUME IndInv, SafePolicies, NEW r \in Reqs, TryRegisterReq(r)
  PROVE  IndInv' /\ DropsOnlyWritten
<1>1. ReqOK(r)
  BY RequestIsOK
<1>2. ~prefetch_in_flight
  BY DEF IndInv, ControlInv, TryRegisterReq
<1>3. LookupContext(r)
  BY <1>1, <1>2 DEF LookupContext, TryRegisterReq
<1> QED  BY <1>3, LookupStep DEF TryRegisterReq

LEMMA TickLookupStep ==
  ASSUME IndInv, SafePolicies, TickLookup
  PROVE  IndInv' /\ DropsOnlyWritten
<1>1. ReqOK(cur) /\ (prefetch_in_flight => cur.op = "Load")
  BY DEF IndInv, ControlInv, TickLookup
<1>2. LookupContext(cur)
  BY <1>1 DEF LookupContext, TickLookup
<1> QED  BY <1>2, LookupStep DEF TickLookup

(* Steps that leave the cache sets and the device below alone. *)
LEMMA Undisturbed ==
  ASSUME UNCHANGED set
  PROVE  /\ SameLines /\ DropsOnlyWritten
         /\ UniqueTags => UniqueTags'
         /\ VictimsAreHeld => VictimsAreHeld'
         /\ UNCHANGED write_policy /\ DirtyInv => DirtyInv'
<1>1. SameLines
  BY DEF SameLines
<1>2. UniqueTags => UniqueTags'
  BY <1>1, SameLinesSeen
<1>3. VictimsAreHeld => VictimsAreHeld'
  BY DEF VictimsAreHeld
<1>4. UNCHANGED write_policy /\ DirtyInv => DirtyInv'
  BY DEF DirtyInv, is_write_through
<1> QED  BY <1>1, <1>2, <1>3, <1>4, SameLinesKeep

LEMMA CollectDoneStep ==
  ASSUME IndInv, CollectDone
  PROVE  IndInv' /\ DropsOnlyWritten
<1>1. /\ caller' = NoCall
      /\ UNCHANGED <<set, fsm, cur, transaction, evict_way, counter, prefetch_queue,
                     prefetch_in_flight, write_policy, prefetcher,
                     low_mem, low_pending, low_phase, low_buf>>
  BY DEF CollectDone, configVars, lowVars
<1>2. TypeOK'
  BY <1>1 DEF IndInv, TypeOK, NoCall
<1>3. ControlInv' /\ QueueInv'
  BY <1>1 DEF IndInv, ControlInv, QueueInv, Replacing, Storing, is_write_through,
              is_no_write_allocate
<1>4. LowInv'
  BY <1>1 DEF IndInv, LowInv
<1>5. MissInv' /\ VictimInv' /\ ThroughInv'
  BY <1>1 DEF IndInv, MissInv, VictimInv, ThroughInv, Replacing, HeldIn, Byte
<1>6. KnownInv' /\ CleanLinesAgree'
  BY <1>1 DEF IndInv, KnownInv, CleanLinesAgree, Replacing, is_write_through, HeldIn, Byte, Dirty
<1> QED  BY <1>1, <1>2, <1>3, <1>4, <1>5, <1>6, Undisturbed DEF IndInv

LEMMA TickIssuePrefetchStep ==
  ASSUME IndInv, TickIssuePrefetch
  PROVE  IndInv' /\ DropsOnlyWritten
<1> DEFINE a == Head(prefetch_queue)
<1>1. /\ fsm = "Idle" /\ fsm' = "Lookup" /\ counter' = 0
      /\ cur' = Low!Load(a, BlockSize)
      /\ prefetch_in_flight' = TRUE
      /\ prefetch_queue # <<>> /\ prefetch_queue' = Tail(prefetch_queue)
      /\ UNCHANGED <<set, transaction, evict_way, caller, write_policy, prefetcher,
                     low_mem, low_pending, low_phase, low_buf>>
  BY DEF TickIssuePrefetch, Goto, configVars, lowVars
<1>2. /\ prefetch_queue \in Seq(Nat)
      /\ \A n \in 1 .. Len(prefetch_queue) : Offset(prefetch_queue[n]) = 0
  BY DEF IndInv, TypeOK, QueueInv
<1>3. /\ a \in Nat /\ Offset(a) = 0
      /\ prefetch_queue' \in Seq(Nat)
      /\ Len(prefetch_queue') = Len(prefetch_queue) - 1
      /\ \A n \in 1 .. Len(prefetch_queue') : prefetch_queue'[n] = prefetch_queue[n + 1]
  BY <1>1, <1>2
<1> HIDE DEF a
<1>4. QueueInv'
  <2>1. \A n \in 1 .. Len(prefetch_queue') : n + 1 \in 1 .. Len(prefetch_queue)
    BY <1>2, <1>3
  <2> QED  BY <1>2, <1>3, <2>1 DEF QueueInv
<1>5. ReqOK(cur')
  BY <1>1, <1>3, BlockSizeAssumption DEF ReqOK, InOneBlock, Low!Load
<1>6. cur'.op = "Load"
  BY <1>1 DEF Low!Load
<1>7. TypeOK'
  BY <1>1, <1>3, GeometryAssumption DEF IndInv, TypeOK, States
<1>8. ControlInv'
  BY <1>1, <1>5, <1>6 DEF IndInv, ControlInv, Replacing, Storing
<1>9. LowInv'
  BY <1>1 DEF IndInv, LowInv
<1>10. MissInv' /\ VictimInv' /\ ThroughInv'
  BY <1>1 DEF MissInv, VictimInv, ThroughInv, Replacing
<1>11. KnownInv' /\ CleanLinesAgree'
  BY <1>1 DEF IndInv, KnownInv, CleanLinesAgree, Replacing, is_write_through, HeldIn, Byte, Dirty
<1> QED  BY <1>1, <1>4, <1>7, <1>8, <1>9, <1>10, <1>11, Undisturbed DEF IndInv

LEMMA TickPenaltyStep ==
  ASSUME IndInv, TickPenalty
  PROVE  IndInv' /\ DropsOnlyWritten
<1>1. /\ fsm = "AdditionalMissPenalty" /\ fsm' \in {"AdditionalMissPenalty", "Lookup"}
      /\ UNCHANGED <<set, cur, transaction, evict_way, caller, prefetch_queue, prefetch_in_flight,
                     write_policy, prefetcher, low_mem, low_pending, low_phase, low_buf>>
  BY DEF TickPenalty, Goto, configVars, lowVars
<1>2. counter' \in 0 .. MissPenalty
  BY GeometryAssumption DEF IndInv, TypeOK, TickPenalty, Goto
<1>3. TypeOK'
  BY <1>1, <1>2 DEF IndInv, TypeOK, States
<1>4. ControlInv' /\ QueueInv'
  BY <1>1 DEF IndInv, ControlInv, QueueInv, Replacing, Storing
<1>5. LowInv'
  BY <1>1 DEF IndInv, LowInv
<1>6. MissInv' /\ VictimInv' /\ ThroughInv'
  BY <1>1 DEF MissInv, VictimInv, ThroughInv, Replacing
<1>7. KnownInv' /\ CleanLinesAgree'
  BY <1>1 DEF IndInv, KnownInv, CleanLinesAgree, Replacing, is_write_through, HeldIn, Byte, Dirty
<1> QED  BY <1>1, <1>3, <1>4, <1>5, <1>6, <1>7, Undisturbed DEF IndInv

-----------------------------------------------------------------------------
(* The device below takes a request and lets it take effect. *)

(* The victim's write-back covers the bytes of the victim's block. *)
LEMMA WriteBackBytes ==
  ASSUME IndInv, fsm = "WriteBack", NEW a \in Addr
  PROVE  /\ transaction.req.op = "Store"
         /\ Index(a) = Index(cur.addr) /\ HeldIn(a, evict_way) =>
               /\ a \in Low!Bytes(transaction.req)
               /\ transaction.req.data[a - transaction.req.addr] = Byte(a, evict_way)
         /\ a \in Low!Bytes(transaction.req) =>
               Index(a) = Index(cur.addr) /\ HeldIn(a, evict_way)
<1> DEFINE i == Index(cur.addr)
           u == set[i]
           t == u.tag_array[evict_way]
<1>1. /\ u.valid_array[evict_way]
      /\ transaction.req = Low!Store(BlockAddr(t, i), BlockSize, u.data_array[evict_way])
      /\ cur.addr \in Nat
  BY DEF IndInv, ControlInv, ReqOK
<1>2. i \in Indices
  BY <1>1, AddrParts
<1>3. t \in Nat
  BY <1>2 DEF IndInv, TypeOK, SetUnits
<1>4. a \in Nat
  BY DEF Addr
<1>5. HeldIn(a, evict_way) /\ Index(a) = i <=> Tag(a) = t /\ Index(a) = i
  BY <1>1 DEF HeldIn, Holds
<1>6. /\ transaction.req.op = "Store" /\ transaction.req.addr = BlockAddr(t, i)
      /\ transaction.req.len = BlockSize /\ transaction.req.data = u.data_array[evict_way]
  BY <1>1 DEF Low!Store
<1> HIDE DEF t, i
<1>7. /\ a \in Low!Bytes(transaction.req) <=> Tag(a) = t /\ Index(a) = i
      /\ Tag(a) = t /\ Index(a) = i => a - transaction.req.addr = Offset(a)
  BY <1>2, <1>3, <1>4, <1>6, BlockBytes DEF Low!Bytes
<1> QED  BY <1>5, <1>6, <1>7 DEF Byte, i

(* The invariant after the request below took effect. *)
LEMMA EffectStep ==
  ASSUME IndInv, Replacing \/ Storing, Low!InBounds(transaction.req),
         low_mem' = Low!Apply(low_mem, transaction.req),
         UNCHANGED <<set, fsm, cur, evict_way>>
  PROVE  /\ low_mem' \in [Addr -> Val]
         /\ CleanLinesAgree' /\ VictimInv' /\ ThroughInv'
         /\ transaction.req.op = "Store" =>
               \A a \in Low!Bytes(transaction.req) :
                   low_mem'[a] = transaction.req.data[a - transaction.req.addr]
         /\ transaction.req.op = "Load" => low_mem' = low_mem
<1> DEFINE q == transaction.req
<1>1. low_mem \in [Addr -> Val]
  BY DEF IndInv, TypeOK
<1>2. \/ q.op = "Load" /\ fsm = "Allocate"
      \/ /\ q.op = "Store" /\ q.addr \in Nat /\ q.len \in Nat
         /\ q.data \in [0 .. (q.len - 1) -> Val]
         /\ fsm \in {"WriteBack", "WriteThroughCommit", "WriteAround"}
  <2>1. CASE fsm = "Allocate"
    BY <2>1 DEF IndInv, ControlInv, AllocateReq, Low!Load
  <2>2. CASE Storing
    BY <2>2 DEF IndInv, ControlInv, ReqOK, Storing
  <2>3. CASE fsm = "WriteBack"
    <3>1. Index(cur.addr) \in Indices
      BY <2>3, AddrParts DEF IndInv, ControlInv, ReqOK
    <3>2. /\ set[Index(cur.addr)].tag_array[evict_way] \in Nat
          /\ set[Index(cur.addr)].data_array[evict_way] \in Blocks
      BY <3>1 DEF IndInv, TypeOK, SetUnits
    <3>3. BlockAddr(set[Index(cur.addr)].tag_array[evict_way], Index(cur.addr)) \in Nat
      BY <3>1, <3>2, AddrJoin, BlockSizeAssumption DEF Offsets
    <3> QED  BY <2>3, <3>2, <3>3, BlockSizeAssumption
             DEF IndInv, ControlInv, Low!Store, Blocks, Offsets
  <2> QED  BY <2>1, <2>2, <2>3 DEF Replacing, Storing
<1>3. CASE q.op = "Load"
  <2>1. low_mem' = low_mem
    BY <1>3 DEF Low!Apply
  <2> QED  BY <1>1, <1>3, <2>1 DEF IndInv, CleanLinesAgree, VictimInv, ThroughInv,
                                   HeldIn, Dirty, Byte
<1>4. CASE q.op = "Store"
  <2>1. /\ q.addr \in Nat /\ q.len \in Nat /\ q.data \in [0 .. (q.len - 1) -> Val]
        /\ fsm \in {"WriteBack", "WriteThroughCommit", "WriteAround"}
    BY <1>2, <1>4
  <2>2. low_mem' = [a \in Addr |-> IF a \in Low!Bytes(q) THEN q.data[a - q.addr] ELSE low_mem[a]]
    BY <1>1, <1>4 DEF Low!Apply
  <2>3. \A a \in Low!Bytes(q) : a \in Addr /\ a - q.addr \in 0 .. (q.len - 1)
    BY <2>1, GeometryAssumption DEF Low!Bytes, Low!InBounds, Addr
  <2>4. low_mem' \in [Addr -> Val]
    <3>1. \A a \in Addr : low_mem[a] \in Val
      BY <1>1
    <3>2. \A a \in Low!Bytes(q) : q.data[a - q.addr] \in Val
      BY <2>1, <2>3
    <3> QED  BY <2>2, <3>1, <3>2
  <2>5. \A a \in Low!Bytes(q) : low_mem'[a] = q.data[a - q.addr]
    BY <2>2, <2>3
  <2>6. ThroughInv' /\ VictimInv'
    BY <2>1 DEF IndInv, ThroughInv, VictimInv, HeldIn, Byte
  <2>7. CleanLinesAgree'
    <3> SUFFICES ASSUME NEW a \in Addr, NEW w \in Ways, HeldIn(a, w), ~Dirty(a, w),
                        ~(fsm = "WriteThroughCommit" /\ a \in Low!Bytes(cur))
                 PROVE  Byte(a, w) = low_mem'[a]
      BY DEF CleanLinesAgree, HeldIn, Dirty, Byte
    <3>1. Byte(a, w) = low_mem[a]
      BY DEF IndInv, CleanLinesAgree
    <3>2. CASE a \notin Low!Bytes(q)
      BY <2>2, <3>1, <3>2
    <3>3. CASE a \in Low!Bytes(q)
      <4>0. a \in Nat
        BY DEF Addr
      <4>1. fsm # "WriteThroughCommit"
        BY <3>3 DEF IndInv, ControlInv, Storing
      <4>2. CASE fsm = "WriteBack"
        <5>1. Index(a) = Index(cur.addr) /\ HeldIn(a, evict_way)
          BY <3>3, <4>2, WriteBackBytes
        <5>2. q.data[a - q.addr] = Byte(a, evict_way)
          BY <4>2, <5>1, WriteBackBytes
        <5>3. evict_way \in Ways /\ Index(a) \in Indices
          BY <4>0, AddrParts DEF IndInv, TypeOK
        <5>4. w = evict_way
          BY <5>1, <5>3 DEF IndInv, UniqueTags, HeldIn, Holds
        <5> QED  BY <2>5, <3>3, <5>2, <5>4
      <4>3. CASE fsm = "WriteAround"
        <5>1. ReqOK(cur) /\ a \in Low!Bytes(cur)
          BY <3>3, <4>3 DEF IndInv, ControlInv, Storing
        <5>2. Tag(a) = Tag(cur.addr) /\ Index(a) = Index(cur.addr)
          BY <4>0, <5>1, RequestBytes
        <5> QED  BY <4>3, <5>2 DEF IndInv, MissInv, HeldIn
      <4> QED  BY <2>1, <4>1, <4>2, <4>3
    <3> QED  BY <3>2, <3>3
  <2> QED  BY <1>4, <2>4, <2>5, <2>6, <2>7
<1> QED  BY <1>2, <1>3, <1>4

(* The device below keeps, performs or finishes the open transaction. *)
LEMMA DeviceStep ==
  ASSUME IndInv, Replacing \/ Storing, Low!InBounds(transaction.req),
         UNCHANGED <<set, fsm, cur, evict_way, counter, prefetch_queue, prefetch_in_flight,
                     caller, write_policy, prefetcher>>,
         transaction'.state = "Waiting", transaction'.req = transaction.req,
         \/ Low!Finish(transaction.req)
         \/ Low!TakeEffect(transaction.req)
         \/ low_phase' = "accepted" /\ low_pending' = transaction.req /\ UNCHANGED low_mem
  PROVE  IndInv' /\ DropsOnlyWritten
<1> DEFINE q == transaction.req
<1>1. ControlInv' /\ QueueInv'
  BY DEF IndInv, ControlInv, QueueInv, Replacing, Storing, is_write_through, is_no_write_allocate
<1>2. MissInv' /\ KnownInv'
  BY DEF IndInv, MissInv, KnownInv, Replacing, is_write_through
<1>3. /\ low_mem' \in [Addr -> Val] /\ low_phase' \in Low!Phases
      /\ LowInv' /\ CleanLinesAgree' /\ VictimInv' /\ ThroughInv'
  <2>1. CASE low_phase' = "accepted" /\ low_pending' = q /\ UNCHANGED low_mem
    <3>1. low_mem' \in [Addr -> Val] /\ low_phase' \in Low!Phases
      BY <2>1 DEF IndInv, TypeOK, Low!Phases
    <3>2. LowInv'
      BY <2>1 DEF LowInv, Low!InBounds
    <3>3. CleanLinesAgree' /\ VictimInv' /\ ThroughInv'
      BY <2>1 DEF IndInv, CleanLinesAgree, VictimInv, ThroughInv, HeldIn, Dirty, Byte
    <3> QED  BY <3>1, <3>2, <3>3
  <2>2. CASE Low!TakeEffect(q)
    <3>1. /\ q.op = "Store" /\ low_mem' = Low!Apply(low_mem, q)
          /\ low_pending' = q /\ low_phase' = "performed"
      BY <2>2 DEF Low!TakeEffect
    <3>2. LowInv'
      BY <3>1, EffectStep DEF LowInv, Low!InBounds, Low!Bytes
    <3> QED  BY <3>1, <3>2, EffectStep DEF Low!Phases
  <2>3. CASE Low!Finish(q)
    <3>1. /\ low_mem' = Low!Apply(low_mem, q) /\ low_phase' = "done"
          /\ q.op = "Load" => low_buf' = Low!Fetch(low_mem, q)
      BY <2>3 DEF Low!Finish
    <3>2. LowInv'
      BY <3>1, EffectStep DEF LowInv, Low!InBounds, Low!Bytes
    <3> QED  BY <3>1, <3>2, EffectStep DEF Low!Phases
  <2> QED  BY <2>1, <2>2, <2>3
<1>4. TypeOK'
  BY <1>3 DEF IndInv, TypeOK
<1> QED  BY <1>1, <1>2, <1>3, <1>4, Undisturbed DEF IndInv

LEMMA TickSendStep ==
  ASSUME IndInv, TickSend
  PROVE  IndInv' /\ DropsOnlyWritten
<1>1. /\ Replacing \/ Storing
      /\ Low!InBounds(transaction.req)
      /\ transaction'.state = "Waiting" /\ transaction'.req = transaction.req
      /\ \/ Low!Finish(transaction.req)
         \/ Low!TakeEffect(transaction.req)
         \/ low_phase' = "accepted" /\ low_pending' = transaction.req /\ UNCHANGED low_mem
  BY DEF TickSend, Send, Low!Register, Replacing, Storing
<1>2. UNCHANGED <<set, fsm, cur, evict_way, counter, prefetch_queue, prefetch_in_flight,
                  caller, write_policy, prefetcher>>
  BY DEF TickSend, configVars
<1> QED  BY <1>1, <1>2, DeviceStep

LEMMA LowStepStep ==
  ASSUME IndInv, LowStep
  PROVE  IndInv' /\ DropsOnlyWritten
<1>1. UNCHANGED <<set, fsm, cur, transaction, evict_way, counter, prefetch_queue,
                  prefetch_in_flight, caller, write_policy, prefetcher>>
  BY DEF LowStep, configVars, cacheVars
<1>2. low_phase # "free"
  BY DEF LowStep, Low!Perform, Low!Ack
<1>3. /\ transaction.state = "Waiting" /\ Low!InBounds(transaction.req)
      /\ Replacing \/ Storing
  BY <1>2 DEF IndInv, LowInv, ControlInv
<1>4. CASE Low!Perform
  <2>1. low_pending = transaction.req
    BY <1>3, <1>4 DEF IndInv, LowInv, Low!Perform
  <2>2. Low!Finish(transaction.req) \/ Low!TakeEffect(transaction.req)
    BY <1>4, <2>1 DEF Low!Perform
  <2> QED  BY <1>1, <1>3, <2>2, DeviceStep
<1>5. CASE Low!Ack
  <2>1. /\ low_phase = "performed" /\ low_phase' = "done"
        /\ UNCHANGED <<low_mem, low_buf>>
    BY <1>5 DEF Low!Ack
  <2>2. TypeOK'
    BY <1>1, <2>1 DEF IndInv, TypeOK, Low!Phases
  <2>3. ControlInv' /\ QueueInv'
    BY <1>1 DEF IndInv, ControlInv, QueueInv, Replacing, Storing, is_write_through,
                is_no_write_allocate
  <2>4. LowInv'
    BY <1>1, <1>3, <2>1 DEF IndInv, LowInv
  <2>5. MissInv' /\ VictimInv' /\ ThroughInv'
    BY <1>1, <2>1 DEF IndInv, MissInv, VictimInv, ThroughInv, Replacing, HeldIn, Byte
  <2>6. KnownInv' /\ CleanLinesAgree'
    BY <1>1, <2>1 DEF IndInv, KnownInv, CleanLinesAgree, Replacing, is_write_through,
                      HeldIn, Byte, Dirty
  <2> QED  BY <1>1, <2>2, <2>3, <2>4, <2>5, <2>6, Undisturbed DEF IndInv
<1> QED  BY <1>4, <1>5 DEF LowStep

LEMMA TickWrittenBackStep ==
  ASSUME IndInv, TickWrittenBack
  PROVE  IndInv' /\ DropsOnlyWritten
<1>1. /\ fsm = "WriteBack" /\ fsm' = "Allocate" /\ counter' = 0
      /\ transaction.state = "Waiting" /\ low_phase = "done" /\ low_phase' = "free"
      /\ transaction' = [state |-> "Sending", req |-> AllocateReq(cur.addr)]
      /\ UNCHANGED <<set, cur, evict_way, prefetch_queue, prefetch_in_flight, caller,
                     write_policy, prefetcher, low_mem>>
  BY DEF TickWrittenBack, Arrived, Low!Collect, Goto, NewTransaction, configVars
<1>2. TypeOK'
  BY <1>1, GeometryAssumption DEF IndInv, TypeOK, States, Low!Phases
<1>3. ControlInv' /\ QueueInv'
  BY <1>1 DEF IndInv, ControlInv, QueueInv, Replacing, Storing
<1>4. LowInv'
  BY <1>1 DEF LowInv
<1>5. MissInv' /\ ThroughInv' /\ KnownInv' /\ CleanLinesAgree'
  BY <1>1 DEF IndInv, MissInv, ThroughInv, KnownInv, CleanLinesAgree, Replacing,
              is_write_through, HeldIn, Byte, Dirty
<1>6. VictimInv'
  <2> SUFFICES ASSUME NEW a \in Addr, Index(a) = Index(cur.addr), HeldIn(a, evict_way)
               PROVE  Byte(a, evict_way) = low_mem[a]
    BY <1>1 DEF VictimInv, HeldIn, Byte
  <2>1. /\ transaction.req.op = "Store" /\ a \in Low!Bytes(transaction.req)
        /\ transaction.req.data[a - transaction.req.addr] = Byte(a, evict_way)
    BY <1>1, WriteBackBytes
  <2> QED  BY <1>1, <2>1 DEF IndInv, LowInv
<1> QED  BY <1>1, <1>2, <1>3, <1>4, <1>5, <1>6, Undisturbed DEF IndInv

LEMMA TickStoredStep ==
  ASSUME IndInv, TickStored
  PROVE  IndInv' /\ DropsOnlyWritten
<1>1. /\ Storing /\ fsm' = "Idle" /\ counter' = 0
      /\ transaction.state = "Waiting" /\ low_phase = "done" /\ low_phase' = "free"
      /\ transaction' = NoTransaction /\ caller' = Done(<<>>)
      /\ UNCHANGED <<set, evict_way, prefetch_queue, prefetch_in_flight,
                     write_policy, prefetcher, low_mem>>
  BY DEF TickStored, Arrived, Low!Collect, Goto, Storing, configVars
<1>2. transaction'.state = "None" /\ caller'.state = "done"
  BY <1>1 DEF NoTransaction, Done
<1>3. TypeOK'
  BY <1>1, <1>2, GeometryAssumption DEF IndInv, TypeOK, States, Low!Phases
<1>4. ControlInv' /\ QueueInv'
  BY <1>1, <1>2 DEF IndInv, ControlInv, QueueInv, Replacing, Storing
<1>5. LowInv'
  BY <1>1, <1>2 DEF LowInv
<1>6. MissInv' /\ VictimInv' /\ ThroughInv'
  BY <1>1 DEF MissInv, VictimInv, ThroughInv, Replacing
<1>7. KnownInv'
  BY <1>1 DEF IndInv, KnownInv, Replacing, Storing, is_write_through
<1>8. CleanLinesAgree'
  <2> SUFFICES ASSUME NEW a \in Addr, NEW w \in Ways, HeldIn(a, w), ~Dirty(a, w)
               PROVE  Byte(a, w) = low_mem[a]
    BY <1>1 DEF CleanLinesAgree, HeldIn, Dirty, Byte
  <2>1. CASE fsm = "WriteThroughCommit" /\ a \in Low!Bytes(cur)
    <3>1. transaction.req = cur /\ cur.op = "Store"
      BY <1>1 DEF IndInv, ControlInv
    <3>2. low_mem[a] = cur.data[a - cur.addr]
      BY <1>1, <2>1, <3>1 DEF IndInv, LowInv
    <3>3. Byte(a, w) = cur.data[a - cur.addr]
      BY <2>1 DEF IndInv, ThroughInv
    <3> QED  BY <3>2, <3>3
  <2>2. CASE ~(fsm = "WriteThroughCommit" /\ a \in Low!Bytes(cur))
    BY <2>2 DEF IndInv, CleanLinesAgree
  <2> QED  BY <2>1, <2>2
<1> QED  BY <1>1, <1>3, <1>4, <1>5, <1>6, <1>7, <1>8, Undisturbed DEF IndInv

(* The block that a refill delivers is the block of the device below. *)
LEMMA RefillBytes ==
  ASSUME IndInv, fsm = "Allocate", transaction.state = "Waiting", low_phase = "done"
  PROVE  /\ low_buf \in Blocks
         /\ \A a \in Nat : Tag(a) = Tag(cur.addr) /\ Index(a) = Index(cur.addr) =>
                             low_buf[Offset(a)] = low_mem[a]
<1> DEFINE base == Align(cur.addr)
<1>1. cur.addr \in Nat /\ low_mem \in [Addr -> Val]
  BY DEF IndInv, ControlInv, ReqOK, TypeOK
<1>2. base \in Nat /\ base = BlockAddr(Tag(cur.addr), Index(cur.addr))
  BY <1>1, AddrParts, AlignIsAddr
<1>3. /\ base + BlockSize <= MemSize
      /\ low_buf = [n \in 0 .. (BlockSize - 1) |-> low_mem[base + n]]
  <2>1. transaction.req = Low!Load(base, BlockSize)
    BY DEF IndInv, ControlInv, AllocateReq
  <2>2. Low!InBounds(transaction.req) /\ low_buf = Low!Fetch(low_mem, transaction.req)
    BY <2>1 DEF IndInv, LowInv, Low!Load
  <2> QED  BY <2>1, <2>2 DEF Low!InBounds, Low!Fetch, Low!Load
<1> HIDE DEF base
<1>4. low_buf \in Blocks
  <2>1. \A n \in Offsets : base + n \in Addr
    BY <1>2, <1>3, BlockSizeAssumption, GeometryAssumption DEF Offsets, Addr
  <2> QED  BY <1>1, <1>3, <2>1 DEF Blocks, Offsets
<1>5. ASSUME NEW a \in Nat, Tag(a) = Tag(cur.addr), Index(a) = Index(cur.addr)
      PROVE  low_buf[Offset(a)] = low_mem[a]
  <2>1. a = base + Offset(a) /\ Offset(a) \in Offsets
    BY <1>2, <1>5, AddrParts
  <2> QED  BY <1>3, <2>1 DEF Offsets
<1> QED  BY <1>4, <1>5

LEMMA TickRefilledStep ==
  ASSUME IndInv, TickRefilled
  PROVE  IndInv' /\ DropsOnlyWritten
<1> DEFINE i == Index(cur.addr)
           t == Tag(cur.addr)
           u == InsertBlock(set[i], evict_way, t, low_buf)
<1>1. /\ fsm = "Allocate" /\ fsm' = "AdditionalMissPenalty" /\ counter' = MissPenalty
      /\ transaction.state = "Waiting" /\ low_phase = "done" /\ low_phase' = "free"
      /\ set' = [set EXCEPT ![i] = u]
      /\ transaction' = NoTransaction /\ evict_way' = 0
      /\ UNCHANGED <<cur, prefetch_queue, prefetch_in_flight, caller,
                     write_policy, prefetcher, low_mem>>
  BY DEF TickRefilled, Arrived, Low!Collect, configVars
<1>2. /\ i \in Indices /\ t \in Nat /\ evict_way \in Ways
      /\ set \in [Indices -> SetUnits] /\ set[i] \in SetUnits
  BY <1>1, AddrParts DEF IndInv, TypeOK, ControlInv, ReqOK
<1>3. /\ low_buf \in Blocks
      /\ \A a \in Nat : Tag(a) = t /\ Index(a) = i => low_buf[Offset(a)] = low_mem[a]
  BY <1>1, RefillBytes
<1> HIDE DEF i, t
<1>4. /\ u \in SetUnits
      /\ u.valid_array = [set[i].valid_array EXCEPT ![evict_way] = TRUE]
      /\ u.tag_array = [set[i].tag_array EXCEPT ![evict_way] = t]
      /\ u.dirty_array = [set[i].dirty_array EXCEPT ![evict_way] = FALSE]
      /\ u.data_array = [set[i].data_array EXCEPT ![evict_way] = low_buf]
      /\ u.rp.valid = [set[i].rp.valid EXCEPT ![evict_way] = TRUE]
  <2>1. PICK v : v = set[i]
    OBVIOUS
  <2>2. v \in SetUnits /\ evict_way \in Ways /\ t \in Nat /\ low_buf \in Blocks
    BY <1>2, <1>3, <2>1
  <2>3. PICK b : b = InsertBlock(v, evict_way, t, low_buf)
    OBVIOUS
  <2>4. /\ b \in SetUnits
        /\ b.valid_array = [v.valid_array EXCEPT ![evict_way] = TRUE]
        /\ b.tag_array = [v.tag_array EXCEPT ![evict_way] = t]
        /\ b.dirty_array = [v.dirty_array EXCEPT ![evict_way] = FALSE]
        /\ b.data_array = [v.data_array EXCEPT ![evict_way] = low_buf]
        /\ b.rp.valid = [v.rp.valid EXCEPT ![evict_way] = TRUE]
    BY ONLY <2>2, <2>3, InsertBlockOp
  <2>5. u = b
    BY <2>1, <2>3
  <2> HIDE DEF u
  <2> QED  BY ONLY <2>1, <2>4, <2>5
<1> HIDE DEF u
<1>5. /\ set' \in [Indices -> SetUnits]
      /\ set'[i] = u
      /\ \A j \in Indices \ {i} : set'[j] = set[j]
  BY <1>1, <1>2, <1>4
<1>6. /\ u.valid_array[evict_way] /\ u.tag_array[evict_way] = t
      /\ ~u.dirty_array[evict_way] /\ u.data_array[evict_way] = low_buf
      /\ u.rp.valid[evict_way]
  BY <1>2, <1>4 DEF SetUnits, RPStates
<1>7. \A w \in Ways \ {evict_way} :
         /\ u.valid_array[w] = set[i].valid_array[w]
         /\ u.tag_array[w] = set[i].tag_array[w]
         /\ u.dirty_array[w] = set[i].dirty_array[w]
         /\ u.data_array[w] = set[i].data_array[w]
         /\ u.rp.valid[w] = set[i].rp.valid[w]
  BY <1>2, <1>4 DEF SetUnits, RPStates
<1>8. \A w \in Ways : ~Holds(set[i], w, t)
  BY <1>1 DEF IndInv, MissInv, Replacing, i, t
<1>9. TypeOK'
  <2>1. 0 \in Ways /\ MissPenalty \in 0 .. MissPenalty /\ transaction'.state = "None"
    BY <1>1, NumWaysAssumption, GeometryAssumption DEF Ways, NoTransaction
  <2> QED  BY <1>1, <1>5, <2>1 DEF IndInv, TypeOK, States, Low!Phases
<1>10. transaction'.state = "None"
  BY <1>1 DEF NoTransaction
<1>11. ControlInv' /\ QueueInv'
  BY <1>1, <1>10 DEF IndInv, ControlInv, QueueInv, Replacing, Storing
<1>12. LowInv'
  BY <1>1, <1>10 DEF LowInv
<1>13. MissInv' /\ VictimInv' /\ ThroughInv'
  BY <1>1 DEF MissInv, VictimInv, ThroughInv, Replacing
<1>14. UniqueTags'
  <2> SUFFICES ASSUME NEW j \in Indices, NEW v \in Ways, NEW w \in Ways,
                      set'[j].valid_array[v], set'[j].valid_array[w],
                      set'[j].tag_array[v] = set'[j].tag_array[w]
               PROVE  v = w
    BY DEF UniqueTags
  <2>1. CASE j # i
    <3>1. set'[j] = set[j]
      BY <1>5, <2>1
    <3> QED  BY <3>1 DEF IndInv, UniqueTags
  <2>2. CASE j = i /\ v # evict_way /\ w # evict_way
    <3>1. /\ set[i].valid_array[v] /\ set[i].valid_array[w]
          /\ set[i].tag_array[v] = set[i].tag_array[w]
      BY <1>5, <1>7, <2>2
    <3> QED  BY <1>2, <3>1 DEF IndInv, UniqueTags
  <2>3. CASE j = i /\ v = evict_way /\ w # evict_way
    <3>1. set[i].valid_array[w] /\ set[i].tag_array[w] = t
      BY <1>5, <1>6, <1>7, <2>3
    <3> QED  BY <1>8, <3>1 DEF Holds
  <2>4. CASE j = i /\ v # evict_way /\ w = evict_way
    <3>1. set[i].valid_array[v] /\ set[i].tag_array[v] = t
      BY <1>5, <1>6, <1>7, <2>4
    <3> QED  BY <1>8, <3>1 DEF Holds
  <2> QED  BY <2>1, <2>2, <2>3, <2>4
<1>15. ASSUME NEW j \in Indices, NEW w \in Ways, ~(j = i /\ w = evict_way)
       PROVE  /\ set'[j].valid_array[w] = set[j].valid_array[w]
              /\ set'[j].tag_array[w] = set[j].tag_array[w]
              /\ set'[j].dirty_array[w] = set[j].dirty_array[w]
              /\ set'[j].data_array[w] = set[j].data_array[w]
              /\ set'[j].rp.valid[w] = set[j].rp.valid[w]
  <2>1. CASE j = i
    BY <1>5, <1>7, <1>15, <2>1
  <2>2. CASE j # i
    BY <1>5, <2>2
  <2> QED  BY <2>1, <2>2
<1>16. VictimsAreHeld'
  <2> SUFFICES ASSUME NEW j \in Indices, NEW w \in Ways, set'[j].rp.valid[w]
               PROVE  set'[j].valid_array[w]
    BY DEF VictimsAreHeld
  <2>1. CASE j = i /\ w = evict_way
    BY <1>5, <1>6, <2>1
  <2>2. CASE ~(j = i /\ w = evict_way)
    BY <1>15, <2>2 DEF IndInv, VictimsAreHeld
  <2> QED  BY <2>1, <2>2
<1>17. DirtyInv'
  <2> SUFFICES ASSUME NEW j \in Indices, NEW w \in Ways, set'[j].dirty_array[w]
               PROVE  ~is_write_through /\ set'[j].valid_array[w]
    BY <1>1 DEF DirtyInv, is_write_through
  <2>1. ~(j = i /\ w = evict_way)
    BY <1>5, <1>6
  <2> QED  BY <1>15, <2>1 DEF IndInv, DirtyInv
<1>18. KnownInv'
  <2> SUFFICES ASSUME ~is_write_through, NEW j \in Indices, NEW w \in Ways,
                      set'[j].valid_array[w]
               PROVE  set'[j].rp.valid[w]
    BY <1>1 DEF KnownInv, is_write_through
  <2>1. CASE j = i /\ w = evict_way
    BY <1>5, <1>6, <2>1
  <2>2. CASE ~(j = i /\ w = evict_way)
    BY <1>15, <2>2 DEF IndInv, KnownInv, i
  <2> QED  BY <2>1, <2>2
<1>19. ASSUME NEW a \in Addr
       PROVE  a \in Nat /\ Index(a) \in Indices
  <2>1. a \in Nat
    BY DEF Addr
  <2> QED  BY <2>1, AddrParts
<1>20. CleanLinesAgree'
  <2> SUFFICES ASSUME NEW a \in Addr, NEW w \in Ways, HeldIn(a, w)', ~Dirty(a, w)'
               PROVE  Byte(a, w)' = low_mem[a]
    BY <1>1 DEF CleanLinesAgree
  <2>1. CASE Index(a) = i /\ w = evict_way
    <3>1. Tag(a) = t
      BY <1>5, <1>6, <2>1 DEF HeldIn, Holds
    <3>2. Byte(a, w)' = low_buf[Offset(a)]
      BY <1>5, <1>6, <2>1 DEF Byte
    <3> QED  BY <1>3, <1>19, <2>1, <3>1, <3>2
  <2>2. CASE ~(Index(a) = i /\ w = evict_way)
    <3>1. HeldIn(a, w) /\ ~Dirty(a, w) /\ Byte(a, w)' = Byte(a, w)
      BY <1>15, <1>19, <2>2 DEF HeldIn, Holds, Dirty, Byte
    <3> QED  BY <1>1, <3>1 DEF IndInv, CleanLinesAgree
  <2> QED  BY <2>1, <2>2
<1>21. DropsOnlyWritten
  <2> SUFFICES ASSUME NEW a \in Addr, NEW w \in Ways, HeldIn(a, w), Dirty(a, w),
                      ~(HeldIn(a, w)' /\ Dirty(a, w)')
               PROVE  Byte(a, w) = low_mem[a]
    BY DEF DropsOnlyWritten
  <2>1. Index(a) = i /\ w = evict_way
    BY <1>15, <1>19 DEF HeldIn, Holds, Dirty
  <2> QED  BY <1>1, <2>1 DEF IndInv, VictimInv, i
<1> QED  BY <1>9, <1>11, <1>12, <1>13, <1>14, <1>16, <1>17, <1>18, <1>20, <1>21 DEF IndInv

-----------------------------------------------------------------------------
(* The theorems. *)

(* The invariant holds when the cache is built. *)
LEMMA IndInvInit ==
  ASSUME Init
  PROVE  IndInv
<1>1. /\ write_policy \in WritePolicies /\ prefetcher \in Prefetchers
      /\ set = [i \in Indices |-> NewSetUnit]
      /\ fsm = "Idle" /\ evict_way = 0 /\ counter = 0
      /\ transaction = NoTransaction /\ caller = NoCall
      /\ prefetch_queue = <<>> /\ prefetch_in_flight = FALSE
      /\ low_mem \in [Addr -> Val] /\ low_phase = "free"
  BY DEF Init, Low!Init, Low!Addr, Addr
<1>2. NewSetUnit \in SetUnits
  <2>1. NewRP \in RPStates
    BY NewRPType
  <2>2. [o \in Offsets |-> 0] \in Blocks
    BY ValAssumption DEF Blocks
  <2> QED  BY <2>1, <2>2 DEF NewSetUnit, SetUnits
<1>3. \A w \in Ways : /\ ~NewSetUnit.valid_array[w] /\ ~NewSetUnit.dirty_array[w]
                       /\ ~NewSetUnit.rp.valid[w]
  BY DEF NewSetUnit, NewRP
<1>4. transaction.state = "None" /\ caller.state = "none"
  BY <1>1 DEF NoTransaction, NoCall
<1>5. TypeOK
  <2>1. 0 \in Ways /\ 0 \in 0 .. MissPenalty /\ <<>> \in Seq(Nat)
    BY NumWaysAssumption, GeometryAssumption DEF Ways
  <2> QED  BY <1>1, <1>2, <1>4, <2>1 DEF TypeOK, States, Low!Phases
<1>6. ControlInv /\ QueueInv
  BY <1>1, <1>4 DEF ControlInv, QueueInv, Replacing, Storing
<1>7. LowInv
  BY <1>1, <1>4 DEF LowInv
<1>8. MissInv /\ VictimInv /\ ThroughInv
  BY <1>1 DEF MissInv, VictimInv, ThroughInv, Replacing
<1>9. \A i \in Indices : set[i] = NewSetUnit
  BY <1>1
<1>10. DirtyInv /\ KnownInv /\ VictimsAreHeld /\ UniqueTags
  BY <1>3, <1>9 DEF DirtyInv, KnownInv, VictimsAreHeld, UniqueTags
<1>11. CleanLinesAgree
  <2> SUFFICES ASSUME NEW a \in Addr, NEW w \in Ways
               PROVE  ~HeldIn(a, w)
    BY DEF CleanLinesAgree
  <2>1. a \in Nat
    BY DEF Addr
  <2>2. Index(a) \in Indices
    BY <2>1, AddrParts
  <2> QED  BY <1>3, <1>9, <2>2 DEF HeldIn, Holds
<1> QED  BY <1>5, <1>6, <1>7, <1>8, <1>10, <1>11 DEF IndInv

(* Every step preserves the invariant, and drops no dirty line that the      *)
(* device below does not hold.                                               *)
LEMMA IndInvNext ==
  ASSUME IndInv, SafePolicies, [Next]_vars
  PROVE  IndInv' /\ DropsOnlyWritten
<1>1. ASSUME NEW r \in Reqs, TryRegisterReq(r)
      PROVE  IndInv' /\ DropsOnlyWritten
  BY <1>1, TryRegisterReqStep
<1>2. CASE CollectDone
  BY <1>2, CollectDoneStep
<1>3. CASE Tick
  BY <1>3, TickIssuePrefetchStep, TickLookupStep, TickSendStep, TickWrittenBackStep,
     TickRefilledStep, TickPenaltyStep, TickStoredStep DEF Tick
<1>4. CASE LowStep
  BY <1>4, LowStepStep
<1>5. CASE UNCHANGED vars
  <2>1. UNCHANGED <<set, fsm, cur, transaction, evict_way, counter, prefetch_queue,
                    prefetch_in_flight, caller, write_policy, prefetcher,
                    low_mem, low_pending, low_phase, low_buf>>
    BY <1>5 DEF vars, configVars, cacheVars, lowVars
  <2>2. TypeOK'
    BY <2>1 DEF IndInv, TypeOK
  <2>3. ControlInv' /\ QueueInv'
    BY <2>1 DEF IndInv, ControlInv, QueueInv, Replacing, Storing, is_write_through,
                is_no_write_allocate
  <2>4. LowInv'
    BY <2>1 DEF IndInv, LowInv
  <2>5. MissInv' /\ VictimInv' /\ ThroughInv'
    BY <2>1 DEF IndInv, MissInv, VictimInv, ThroughInv, Replacing, HeldIn, Byte
  <2>6. KnownInv' /\ CleanLinesAgree'
    BY <2>1 DEF IndInv, KnownInv, CleanLinesAgree, Replacing, is_write_through,
                HeldIn, Byte, Dirty
  <2> QED  BY <2>1, <2>2, <2>3, <2>4, <2>5, <2>6, Undisturbed DEF IndInv
<1> QED  BY <1>1, <1>2, <1>3, <1>4, <1>5 DEF Next

(* The inductive invariant holds in every state of every configuration but   *)
(* write-back without write-allocate.                                        *)
THEOREM CacheInvariant ==
  ASSUME SafePolicies
  PROVE  Spec => []IndInv
<1>1. Init => IndInv
  BY IndInvInit
<1>2. IndInv /\ [Next]_vars => IndInv'
  BY IndInvNext
<1> QED  BY <1>1, <1>2, PTL DEF Spec

(* Type correctness: the queues, arrays and counters of the cache stay in    *)
(* range, and the victim named by the policy is a way of the set.            *)
THEOREM CacheTypes ==
  ASSUME SafePolicies
  PROVE  Spec => []TypeOK
<1>1. IndInv => TypeOK
  BY DEF IndInv
<1> QED  BY <1>1, CacheInvariant, PTL

(* No block is ever cached in two ways, for every geometry and policy. *)
THEOREM NoBlockCachedTwice ==
  ASSUME SafePolicies
  PROVE  Spec => []UniqueTags
<1>1. IndInv => UniqueTags
  BY DEF IndInv
<1> QED  BY <1>1, CacheInvariant, PTL

(* Clean lines agree with the device below, outside a write-through. *)
THEOREM CleanLinesAlwaysAgree ==
  ASSUME SafePolicies
  PROVE  Spec => []CleanLinesAgree
<1>1. IndInv => CleanLinesAgree
  BY DEF IndInv
<1> QED  BY <1>1, CacheInvariant, PTL

(* The assertion of read_block never fails for a victim. *)
THEOREM VictimsAlwaysHeld ==
  ASSUME SafePolicies
  PROVE  Spec => []VictimsAreHeld
<1>1. IndInv => VictimsAreHeld
  BY DEF IndInv
<1> QED  BY <1>1, CacheInvariant, PTL

(* No eviction, refill or prefetch loses an acknowledged store. *)
THEOREM EvictionsLoseNothing ==
  ASSUME SafePolicies
  PROVE  Spec => NoLostWrite
<1>1. IndInv /\ [Next]_vars => [DropsOnlyWritten]_vars
  BY IndInvNext
<1> QED  BY <1>1, CacheInvariant, PTL DEF Spec, NoLostWrite
=============================================================================
