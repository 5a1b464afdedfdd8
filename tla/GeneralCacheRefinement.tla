----------------------- MODULE GeneralCacheRefinement -----------------------
(* The cache implements AbstractMem for its caller: LogicalMem changes only  *)
(* when a store of the caller takes effect, and a load copies it.            *)
EXTENDS GeneralCacheProofs

-----------------------------------------------------------------------------
(* The memory that the caller sees. *)

(* A cached byte is seen in the way that holds it, any other byte in the     *)
(* device below.                                                             *)
LEMMA SeenByte ==
  ASSUME UniqueTags, NEW a \in Addr
  PROVE  /\ \A w \in Ways : HeldIn(a, w) => LogicalMem[a] = Byte(a, w)
         /\ ~Cached(a) => LogicalMem[a] = low_mem[a]
<1>1. Index(a) \in Indices
  BY AddrParts DEF Addr
<1>2. ASSUME NEW w \in Ways, HeldIn(a, w)
      PROVE  LogicalMem[a] = Byte(a, w)
  <2> DEFINE c == CHOOSE v \in Ways : HeldIn(a, v)
  <2>1. c \in Ways /\ HeldIn(a, c)
    BY <1>2
  <2>2. c = w
    BY <1>1, <1>2, <2>1 DEF UniqueTags, HeldIn, Holds
  <2> QED  BY <1>2, <2>2 DEF LogicalMem, Cached
<1>3. ~Cached(a) => LogicalMem[a] = low_mem[a]
  BY DEF LogicalMem
<1> QED  BY <1>2, <1>3

(* What the caller sees after a step, byte by byte. *)
LEMMA SeenNext ==
  ASSUME UniqueTags', NEW m, m = [a \in Addr |-> m[a]],
         \A a \in Addr : \/ \E w \in Ways : HeldIn(a, w)' /\ Byte(a, w)' = m[a]
                         \/ ~Cached(a)' /\ low_mem'[a] = m[a]
  PROVE  LogicalMem' = m
<1>1. ASSUME NEW a \in Addr
      PROVE  LogicalMem'[a] = m[a]
  <2>1. Index(a) \in Indices
    BY AddrParts DEF Addr
  <2>2. ASSUME NEW w \in Ways, HeldIn(a, w)', Byte(a, w)' = m[a]
        PROVE  LogicalMem'[a] = m[a]
    <3> DEFINE c == CHOOSE v \in Ways : Holds(set'[Index(a)], v, Tag(a))
    <3>1. c \in Ways /\ Holds(set'[Index(a)], c, Tag(a))
      BY <2>2 DEF HeldIn
    <3>2. c = w
      BY <2>1, <2>2, <3>1 DEF UniqueTags, HeldIn, Holds
    <3>3. LogicalMem'[a] = set'[Index(a)].data_array[c][Offset(a)]
      BY <2>2 DEF LogicalMem, Cached, HeldIn, Byte
    <3> QED  BY <2>2, <3>2, <3>3 DEF Byte
  <2>3. ~Cached(a)' => LogicalMem'[a] = low_mem'[a]
    BY DEF LogicalMem
  <2> QED  BY <2>2, <2>3
<1>2. LogicalMem' = [a \in Addr |-> LogicalMem'[a]]
  BY DEF LogicalMem
<1> QED  BY <1>1, <1>2

(* A step that leaves the lines and the device below alone is not seen. *)
LEMMA SameView ==
  ASSUME UniqueTags, SameLines, UNCHANGED low_mem
  PROVE  LogicalMem' = LogicalMem
<1>1. \A a \in Addr : a \in Nat
  BY DEF Addr
<1>2. \A a \in Addr, w \in Ways : (HeldIn(a, w)' <=> HeldIn(a, w)) /\ Byte(a, w)' = Byte(a, w)
  BY <1>1, SameLinesSeen
<1>3. \A a \in Addr : \/ \E w \in Ways : HeldIn(a, w)' /\ Byte(a, w)' = LogicalMem[a]
                      \/ ~Cached(a)' /\ low_mem'[a] = LogicalMem[a]
  BY <1>2, SeenByte DEF Cached
<1>4. LogicalMem = [a \in Addr |-> LogicalMem[a]]
  BY DEF LogicalMem
<1> QED  BY <1>3, <1>4, SameLinesSeen, SeenNext

(* The slice that a hit copies is what the caller sees in memory. *)
LEMMA LoadView ==
  ASSUME UniqueTags, NEW r, ReqOK(r), Low!InBounds(r), NEW w \in Ways,
         Holds(set[Index(r.addr)], w, Tag(r.addr))
  PROVE  Slice(set[Index(r.addr)].data_array[w], r) = Mem!Fetch(LogicalMem, r)
<1>1. r.addr \in Nat /\ r.len \in Nat /\ r.addr + r.len <= MemSize
  BY DEF ReqOK, Low!InBounds
<1>2. ASSUME NEW k \in 0 .. (r.len - 1)
      PROVE  set[Index(r.addr)].data_array[w][Offset(r.addr) + k] = LogicalMem[r.addr + k]
  <2> DEFINE a == r.addr + k
  <2>1. a \in Addr /\ a \in Nat /\ a \in Low!Bytes(r) /\ a - r.addr = k
    BY <1>1, GeometryAssumption DEF Addr, Low!Bytes
  <2> HIDE DEF a
  <2>2. Tag(a) = Tag(r.addr) /\ Index(a) = Index(r.addr) /\ Offset(a) = Offset(r.addr) + k
    BY <2>1, RequestBytes
  <2>3. LogicalMem[a] = Byte(a, w)
    BY <2>1, <2>2, SeenByte DEF HeldIn
  <2> QED  BY <2>2, <2>3 DEF Byte, a
<1> QED  BY <1>2 DEF Slice, Mem!Fetch

(* A store into the way that holds its block is seen at once. *)
LEMMA StoreView ==
  ASSUME IndInv, NEW r, ReqOK(r), r.op = "Store", NEW w \in Ways, NEW u,
         Holds(set[Index(r.addr)], w, Tag(r.addr)),
         set' = [set EXCEPT ![Index(r.addr)] = u],
         u.valid_array = set[Index(r.addr)].valid_array,
         u.tag_array = set[Index(r.addr)].tag_array,
         u.data_array = [set[Index(r.addr)].data_array EXCEPT
                            ![w] = Merge(set[Index(r.addr)].data_array[w], r)],
         UNCHANGED low_mem
  PROVE  LogicalMem' = Mem!Apply(LogicalMem, r)
<1> DEFINE m == Mem!Apply(LogicalMem, r)
<1>1. /\ UniqueTags'
      /\ \A a \in Nat, v \in Ways :
            /\ HeldIn(a, v)' <=> HeldIn(a, v)
            /\ HeldIn(a, v) =>
                  Byte(a, v)' = IF a \in Low!Bytes(r) THEN r.data[a - r.addr] ELSE Byte(a, v)
  BY StoreSeen
<1>2. m = [a \in Addr |-> IF a \in Low!Bytes(r) THEN r.data[a - r.addr] ELSE LogicalMem[a]]
  BY DEF Mem!Apply, Mem!Bytes, Low!Bytes, LogicalMem
<1>3. UniqueTags
  BY DEF IndInv
<1> HIDE DEF m
<1>4. ASSUME NEW a \in Addr
      PROVE  \/ \E v \in Ways : HeldIn(a, v)' /\ Byte(a, v)' = m[a]
             \/ ~Cached(a)' /\ low_mem'[a] = m[a]
  <2>1. a \in Nat
    BY DEF Addr
  <2>2. CASE Cached(a)
    <3>1. PICK v \in Ways : HeldIn(a, v)
      BY <2>2 DEF Cached
    <3>2. LogicalMem[a] = Byte(a, v)
      BY <1>3, <3>1, SeenByte
    <3> QED  BY <1>1, <1>2, <2>1, <3>1, <3>2
  <2>3. CASE ~Cached(a)
    <3>1. a \notin Low!Bytes(r)
      BY <2>1, <2>3, RequestBytes DEF Cached, HeldIn
    <3>2. m[a] = low_mem[a]
      BY <1>2, <1>3, <2>3, <3>1, SeenByte
    <3> QED  BY <1>1, <2>1, <2>3, <3>2 DEF Cached
  <2> QED  BY <2>2, <2>3
<1>5. m = [a \in Addr |-> m[a]]
  BY <1>2
<1>6. LogicalMem' = m
  BY <1>1, <1>4, <1>5, SeenNext
<1> QED  BY <1>6 DEF m

-----------------------------------------------------------------------------
(* The Lookup arm, as the caller sees it. *)

(* What a store into a way changes, with its dirty bit and without. *)
LEMMA StoreLines ==
  ASSUME NEW u \in SetUnits, NEW w \in Ways, NEW b \in Blocks
  PROVE  /\ WriteBlock(u, w, b).valid_array = u.valid_array
         /\ WriteBlock(u, w, b).tag_array = u.tag_array
         /\ WriteBlock(u, w, b).data_array = [u.data_array EXCEPT ![w] = b]
         /\ WriteBlockClean(u, w, b).valid_array = u.valid_array
         /\ WriteBlockClean(u, w, b).tag_array = u.tag_array
         /\ WriteBlockClean(u, w, b).data_array = [u.data_array EXCEPT ![w] = b]
  BY DEF SetUnits, WriteBlock, WriteBlockClean

(* The request waits for the lower memory. *)
Accepted(r) ==
    /\ LogicalMem' = LogicalMem
    /\ caller' = Waiting(r)
    /\ CallerPhase' = "accepted"

(* A prefetch is not seen; the caller's own request takes effect or waits. *)
LookupSeen(r) ==
    IF prefetch_in_flight
    THEN UNCHANGED Mem!vars
    ELSE Mem!Finish(r) \/ Mem!TakeEffect(r) \/ Accepted(r)

(* What a lookup leaves in the request cell and the state machine. *)
LookupKept(r) ==
    /\ CallerInv'
    /\ ThroughHeld'
    /\ RefillSticks'

(* Where a lookup starts: the caller has no request, or waits for r. *)
ViewContext(r) ==
    /\ LookupContext(r)
    /\ CallerInv
    /\ prefetch_in_flight \/ Low!InBounds(r)

LEMMA HitLoadSeen ==
  ASSUME NEW r, ViewContext(r), NEW w \in Ways,
         Holds(set[Index(r.addr)], w, Tag(r.addr)),
         HitLoad(r, w), PrefetchHooks(r, TRUE)
  PROVE  LookupSeen(r) /\ LookupKept(r)
<1> DEFINE i == Index(r.addr)
<1>1. /\ i \in Indices /\ set \in [Indices -> SetUnits] /\ set[i] \in SetUnits
      /\ UniqueTags /\ ReqOK(r) /\ prefetch_in_flight \in BOOLEAN
  BY LookupStart DEF ViewContext, LookupContext, IndInv, TypeOK
<1>2. prefetch_in_flight' = FALSE
  BY <1>1, HooksStep DEF ViewContext
<1>3. /\ r.op = "Load" /\ set' = [set EXCEPT ![i] = TouchBlock(set[i], w)]
      /\ fsm' = "Idle" /\ cur' = NoReq /\ UNCHANGED low_mem
      /\ caller' = IF prefetch_in_flight THEN caller ELSE Done(Slice(set[i].data_array[w], r))
  BY DEF HitLoad, Goto, ViewContext, LookupContext, lowVars
<1>4. LogicalMem' = LogicalMem
  <2>1. SameLines
    BY <1>1, <1>3, TouchBlockOp, SameLinesUpdate
  <2> QED  BY <1>1, <1>3, <2>1, SameView
<1>5. CASE prefetch_in_flight
  <2>1. caller' = caller /\ caller.state # "waiting"
    BY <1>3, <1>5 DEF ViewContext, CallerInv
  <2>2. CallerPhase' = CallerPhase
    BY <2>1 DEF CallerPhase
  <2>3. LookupSeen(r)
    BY <1>4, <1>5, <2>1, <2>2 DEF LookupSeen, Mem!vars
  <2>4. LookupKept(r)
    BY <1>2, <1>3, <2>1 DEF LookupKept, CallerInv, ThroughHeld, RefillSticks, ViewContext
  <2> QED  BY <2>3, <2>4
<1>6. CASE ~prefetch_in_flight
  <2>1. caller' = Done(Mem!Fetch(LogicalMem, r))
    BY <1>1, <1>3, <1>6, LoadView DEF ViewContext
  <2>2. caller'.req = NoReq /\ caller'.buf = Mem!Fetch(LogicalMem, r) /\ CallerPhase' = "done"
    BY <2>1 DEF Done, CallerPhase
  <2>3. Mem!Finish(r)
    BY <1>3, <1>4, <2>2 DEF Mem!Finish, Mem!Apply, NoReq, Low!NoReq, Mem!NoReq
  <2>4. LookupKept(r)
    BY <1>2, <1>3, <2>1 DEF LookupKept, CallerInv, ThroughHeld, RefillSticks, Done
  <2> QED  BY <1>6, <2>3, <2>4 DEF LookupSeen
<1> QED  BY <1>1, <1>5, <1>6

LEMMA HitStoreThroughSeen ==
  ASSUME NEW r, ViewContext(r), NEW w \in Ways,
         Holds(set[Index(r.addr)], w, Tag(r.addr)),
         HitStoreThrough(r, w), PrefetchHooks(r, TRUE)
  PROVE  LookupSeen(r) /\ LookupKept(r)
<1> DEFINE i == Index(r.addr)
           b == Merge(set[i].data_array[w], r)
           u == WriteBlockClean(set[i], w, b)
<1>1. /\ i \in Indices /\ set \in [Indices -> SetUnits] /\ set[i] \in SetUnits
      /\ UniqueTags /\ ReqOK(r) /\ IndInv /\ prefetch_in_flight \in BOOLEAN
  BY LookupStart DEF ViewContext, LookupContext, IndInv, TypeOK
<1>2. /\ r.op = "Store" /\ set' = [set EXCEPT ![i] = u]
      /\ fsm' = "WriteThroughCommit" /\ cur' = r /\ UNCHANGED low_mem
      /\ caller' = Waiting(r)
  BY DEF HitStoreThrough, Goto, ViewContext, LookupContext, lowVars
<1>3. ~prefetch_in_flight /\ prefetch_in_flight' = FALSE
  BY <1>1, <1>2, HooksStep DEF ViewContext, LookupContext
<1>4. /\ u.valid_array = set[i].valid_array /\ u.tag_array = set[i].tag_array
      /\ u.data_array = [set[i].data_array EXCEPT ![w] = b]
  <2>1. set[i].data_array[w] \in Blocks
    BY <1>1 DEF SetUnits
  <2>2. b \in Blocks
    BY <1>1, <1>2, <2>1, MergeByte
  <2> HIDE DEF i, b
  <2> QED  BY <1>1, <2>2, StoreLines
<1>5. LogicalMem' = Mem!Apply(LogicalMem, r)
  BY <1>1, <1>2, <1>4, StoreView
<1>6. caller'.req = r /\ caller'.buf = <<>> /\ CallerPhase' = "performed"
  BY <1>2 DEF Waiting, CallerPhase
<1>7. Mem!TakeEffect(r)
  BY <1>2, <1>5, <1>6 DEF Mem!TakeEffect
<1>8. ThroughHeld'
  <2>1. Holds(set'[Index(r.addr)], w, Tag(r.addr))
    BY <1>1, <1>2, <1>4 DEF Holds
  <2> QED  BY <1>2, <2>1 DEF ThroughHeld, Cached, HeldIn
<1>9. CallerInv' /\ RefillSticks'
  BY <1>2, <1>3 DEF CallerInv, RefillSticks, ViewContext, Waiting
<1> QED  BY <1>3, <1>7, <1>8, <1>9 DEF LookupSeen, LookupKept

LEMMA HitStoreBackSeen ==
  ASSUME NEW r, ViewContext(r), NEW w \in Ways,
         Holds(set[Index(r.addr)], w, Tag(r.addr)),
         HitStoreBack(r, w), PrefetchHooks(r, TRUE)
  PROVE  LookupSeen(r) /\ LookupKept(r)
<1> DEFINE i == Index(r.addr)
           b == Merge(set[i].data_array[w], r)
           u == WriteBlock(set[i], w, b)
<1>1. /\ i \in Indices /\ set \in [Indices -> SetUnits] /\ set[i] \in SetUnits
      /\ UniqueTags /\ ReqOK(r) /\ IndInv /\ prefetch_in_flight \in BOOLEAN
  BY LookupStart DEF ViewContext, LookupContext, IndInv, TypeOK
<1>2. /\ r.op = "Store" /\ set' = [set EXCEPT ![i] = u]
      /\ fsm' = "Idle" /\ cur' = NoReq /\ UNCHANGED low_mem
      /\ caller' = Done(<<>>)
  BY DEF HitStoreBack, Goto, ViewContext, LookupContext, lowVars
<1>3. ~prefetch_in_flight /\ prefetch_in_flight' = FALSE
  BY <1>1, <1>2, HooksStep DEF ViewContext, LookupContext
<1>4. /\ u.valid_array = set[i].valid_array /\ u.tag_array = set[i].tag_array
      /\ u.data_array = [set[i].data_array EXCEPT ![w] = b]
  <2>1. set[i].data_array[w] \in Blocks
    BY <1>1 DEF SetUnits
  <2>2. b \in Blocks
    BY <1>1, <1>2, <2>1, MergeByte
  <2> HIDE DEF i, b
  <2> QED  BY <1>1, <2>2, StoreLines
<1>5. LogicalMem' = Mem!Apply(LogicalMem, r)
  BY <1>1, <1>2, <1>4, StoreView
<1>6. caller'.req = NoReq /\ caller'.buf = <<>> /\ CallerPhase' = "done"
  BY <1>2 DEF Done, CallerPhase
<1>7. Mem!Finish(r)
  BY <1>2, <1>5, <1>6 DEF Mem!Finish, NoReq, Low!NoReq, Mem!NoReq
<1>8. CallerInv' /\ RefillSticks' /\ ThroughHeld'
  BY <1>2, <1>3 DEF CallerInv, RefillSticks, ThroughHeld, Done
<1> QED  BY <1>3, <1>7, <1>8 DEF LookupSeen, LookupKept

(* A miss, whichever way it takes, changes no line. *)
LEMMA MissSeen ==
  ASSUME NEW r, ViewContext(r), NEW m \in MissOutcomes(set[Index(r.addr)]),
         MissAround(r, m) \/ MissWriteBack(r, m) \/ MissAllocate(r, m),
         PrefetchHooks(r, FALSE)
  PROVE  LookupSeen(r) /\ LookupKept(r)
<1> DEFINE i == Index(r.addr)
<1>1. /\ i \in Indices /\ set \in [Indices -> SetUnits] /\ set[i] \in SetUnits
      /\ UniqueTags /\ ReqOK(r) /\ prefetch_in_flight \in BOOLEAN
  BY LookupStart DEF ViewContext, LookupContext, IndInv, TypeOK
<1>2. prefetch_in_flight' = prefetch_in_flight /\ (prefetch_in_flight => r.op = "Load")
  BY <1>1, HooksStep DEF ViewContext, LookupContext
<1>3. /\ set' = [set EXCEPT ![i] = m.unit] \/ set' = [set EXCEPT ![i] = TouchBlock(m.unit, m.way)]
      /\ \/ fsm' \in {"WriteBack", "Allocate"}
         \/ fsm' = "WriteAround" /\ r.op = "Store" /\ transaction'.state = "Sending"
      /\ cur' = r /\ UNCHANGED low_mem
      /\ caller' = IF prefetch_in_flight THEN caller ELSE Waiting(r)
  <2>1. UNCHANGED low_mem
    BY DEF ViewContext, LookupContext, lowVars
  <2>2. CASE MissAround(r, m)
    BY <1>2, <2>1, <2>2 DEF MissAround, Goto, NewTransaction
  <2>3. CASE MissWriteBack(r, m)
    BY <2>1, <2>3 DEF MissWriteBack, Goto
  <2>4. CASE MissAllocate(r, m)
    BY <2>1, <2>4 DEF MissAllocate, Goto
  <2> QED  BY <2>2, <2>3, <2>4
<1>4. LogicalMem' = LogicalMem
  <2>1. /\ m.unit \in SetUnits /\ m.way \in Ways
        /\ m.unit.valid_array = set[i].valid_array
        /\ m.unit.tag_array = set[i].tag_array
        /\ m.unit.dirty_array = set[i].dirty_array
        /\ m.unit.data_array = set[i].data_array
    BY <1>1, MissContract
  <2>2. SameLines
    <3>1. CASE set' = [set EXCEPT ![i] = m.unit]
      BY <1>1, <2>1, <3>1, SameLinesUpdate
    <3>2. CASE set' = [set EXCEPT ![i] = TouchBlock(m.unit, m.way)]
      BY <1>1, <2>1, <3>2, TouchBlockOp, SameLinesUpdate
    <3> QED  BY <1>3, <3>1, <3>2
  <2> QED  BY <1>1, <1>3, <2>2, SameView
<1>5. CASE prefetch_in_flight
  <2>1. caller' = caller /\ caller.state # "waiting"
    BY <1>3, <1>5 DEF ViewContext, CallerInv
  <2>2. CallerPhase' = CallerPhase
    BY <2>1 DEF CallerPhase
  <2>3. LookupSeen(r)
    BY <1>4, <1>5, <2>1, <2>2 DEF LookupSeen, Mem!vars
  <2>4. LookupKept(r)
    BY <1>2, <1>3, <1>5, <2>1 DEF LookupKept, CallerInv, ThroughHeld, RefillSticks, ViewContext
  <2> QED  BY <2>3, <2>4
<1>6. CASE ~prefetch_in_flight
  <2>1. caller' = Waiting(r) /\ prefetch_in_flight' = FALSE
    BY <1>1, <1>2, <1>3, <1>6
  <2>2. CallerPhase' = "accepted"
    BY <1>3, <2>1 DEF Waiting, CallerPhase
  <2>3. LookupKept(r)
    BY <1>3, <1>6, <2>1 DEF LookupKept, CallerInv, ThroughHeld, RefillSticks, Waiting, ViewContext
  <2> QED  BY <1>4, <1>6, <2>1, <2>2, <2>3 DEF LookupSeen, Accepted
<1> QED  BY <1>1, <1>5, <1>6

LEMMA LookupView ==
  ASSUME NEW r, ViewContext(r), Lookup(r)
  PROVE  LookupSeen(r) /\ LookupKept(r)
<1> DEFINE u == set[Index(r.addr)]
<1>1. CASE IsHit(u, Tag(r.addr))
  <2>1. PICK w \in HitWay(u, Tag(r.addr)) :
           HitLoad(r, w) \/ HitStoreThrough(r, w) \/ HitStoreBack(r, w)
    BY <1>1 DEF Lookup
  <2>2. PrefetchHooks(r, TRUE)
    BY <1>1 DEF Lookup, PrefetchHooks
  <2>3. w \in Ways /\ Holds(u, w, Tag(r.addr))
    BY DEF HitWay, First
  <2> QED  BY <2>1, <2>2, <2>3, HitLoadSeen, HitStoreThroughSeen, HitStoreBackSeen
<1>2. CASE ~IsHit(u, Tag(r.addr))
  <2>1. PICK m \in MissOutcomes(u) :
           MissAround(r, m) \/ MissWriteBack(r, m) \/ MissAllocate(r, m)
    BY <1>2 DEF Lookup
  <2>2. PrefetchHooks(r, FALSE)
    BY <1>2 DEF Lookup, PrefetchHooks
  <2> QED  BY <2>1, <2>2, MissSeen
<1> QED  BY <1>1, <1>2

-----------------------------------------------------------------------------
(* The steps of the transaction, as the caller sees them. *)

(* Steps that leave the cache alone keep what is known of the caller. *)
LEMMA CallerKept ==
  ASSUME CallerInv, ThroughHeld, RefillSticks,
         UNCHANGED <<set, fsm, cur, caller, prefetch_in_flight>>
  PROVE  CallerInv' /\ ThroughHeld' /\ RefillSticks'
<1>1. UNCHANGED set /\ UNCHANGED fsm /\ UNCHANGED cur /\ UNCHANGED caller
      /\ UNCHANGED prefetch_in_flight
  OBVIOUS
<1>2. CallerInv'
  BY <1>1 DEF CallerInv
<1>3. ThroughHeld' /\ RefillSticks'
  BY <1>1 DEF ThroughHeld, RefillSticks, Cached, HeldIn
<1> QED  BY <1>2, <1>3

(* Write-backs, refills and write-throughs leave the caller's view alone     *)
(* when they reach the device below; a store written around the cache takes  *)
(* effect there.                                                             *)
LEMMA EffectView ==
  ASSUME IndInv, ThroughHeld, Replacing \/ Storing,
         low_mem' = Low!Apply(low_mem, transaction.req), UNCHANGED set
  PROVE  LogicalMem' = IF fsm = "WriteAround" THEN Mem!Apply(LogicalMem, cur) ELSE LogicalMem
<1> DEFINE t == transaction.req
           m == IF fsm = "WriteAround" THEN Mem!Apply(LogicalMem, cur) ELSE LogicalMem
<1>1. /\ UniqueTags /\ UniqueTags' /\ ReqOK(cur)
      /\ low_mem \in [Addr -> Val] /\ \A a \in Addr : a \in Nat
  BY Undisturbed DEF IndInv, TypeOK, ControlInv, Replacing, Storing, Addr
<1>2. \A a \in Addr, w \in Ways : (HeldIn(a, w)' <=> HeldIn(a, w)) /\ Byte(a, w)' = Byte(a, w)
  BY <1>1, Undisturbed, SameLinesSeen
<1>3. m = [a \in Addr |-> IF fsm = "WriteAround" /\ a \in Low!Bytes(cur)
                          THEN cur.data[a - cur.addr] ELSE LogicalMem[a]]
  <2>1. LogicalMem = [a \in Addr |-> LogicalMem[a]]
    BY DEF LogicalMem
  <2>2. fsm = "WriteAround" => cur.op = "Store"
    BY DEF IndInv, ControlInv, Storing
  <2>3. CASE fsm = "WriteAround"
    BY <2>1, <2>2, <2>3 DEF Mem!Apply, Mem!Bytes, Low!Bytes
  <2>4. CASE fsm # "WriteAround"
    BY <2>1, <2>4
  <2> QED  BY <2>3, <2>4
<1> HIDE DEF m
<1>4. ASSUME NEW a \in Addr
      PROVE  \/ \E w \in Ways : HeldIn(a, w)' /\ Byte(a, w)' = m[a]
             \/ ~Cached(a)' /\ low_mem'[a] = m[a]
  <2>1. a \in Nat
    BY <1>1
  <2>2. CASE Cached(a)
    <3>1. PICK w \in Ways : HeldIn(a, w)
      BY <2>2 DEF Cached
    <3>2. ~(fsm = "WriteAround" /\ a \in Low!Bytes(cur))
      BY <1>1, <2>1, <3>1, RequestBytes DEF IndInv, MissInv, HeldIn
    <3>3. m[a] = Byte(a, w)
      BY <1>1, <1>3, <3>1, <3>2, SeenByte
    <3> QED  BY <1>2, <3>1, <3>3
  <2>3. CASE ~Cached(a)
    <3>1. ~Cached(a)' /\ LogicalMem[a] = low_mem[a]
      BY <1>1, <1>2, <2>3, SeenByte DEF Cached
    <3>2. low_mem'[a] = IF t.op = "Store" /\ a \in Low!Bytes(t) THEN t.data[a - t.addr]
                        ELSE low_mem[a]
      BY <1>1 DEF Low!Apply
    <3>3. CASE fsm = "WriteBack"
      <4>1. a \notin Low!Bytes(t)
        BY <2>3, <3>3, WriteBackBytes DEF Cached, IndInv, TypeOK
      <4> QED  BY <1>3, <3>1, <3>2, <3>3, <4>1
    <3>4. CASE fsm = "Allocate"
      <4>1. t.op = "Load"
        BY <3>4 DEF IndInv, ControlInv, AllocateReq, Low!Load
      <4> QED  BY <1>3, <3>1, <3>2, <3>4, <4>1
    <3>5. CASE fsm = "WriteThroughCommit"
      <4>1. t = cur
        BY <3>5 DEF IndInv, ControlInv, Storing
      <4>2. a \notin Low!Bytes(cur)
        BY <1>1, <2>1, <2>3, <3>5, RequestBytes DEF ThroughHeld, Cached, HeldIn
      <4> QED  BY <1>3, <3>1, <3>2, <3>5, <4>1, <4>2
    <3>6. CASE fsm = "WriteAround"
      <4>1. t = cur /\ cur.op = "Store"
        BY <3>6 DEF IndInv, ControlInv, Storing
      <4> QED  BY <1>3, <3>1, <3>2, <3>6, <4>1
    <3> QED  BY <3>3, <3>4, <3>5, <3>6 DEF Replacing, Storing
  <2> QED  BY <2>2, <2>3
<1>5. LogicalMem' = m
  <2>1. m = [a \in Addr |-> m[a]]
    BY <1>3
  <2> QED  BY <1>1, <1>4, <2>1, SeenNext
<1> QED  BY <1>5 DEF m

(* The device below accepts the transaction, performs it or acknowledges it. *)
LEMMA DeviceView ==
  ASSUME ViewInv, Replacing \/ Storing,
         UNCHANGED <<set, fsm, cur, prefetch_in_flight, caller>>,
         transaction'.state = "Waiting",
         \/ transaction.state = "Sending"
         \/ transaction.state = "Waiting" /\ low_phase = "accepted",
         \/ /\ low_mem' = Low!Apply(low_mem, transaction.req)
            /\ low_phase' \in {"performed", "done"}
         \/ low_phase' = "accepted" /\ UNCHANGED low_mem
  PROVE  [Mem!Next]_(Mem!vars)
<1>0. /\ UNCHANGED set /\ UNCHANGED fsm /\ UNCHANGED cur /\ UNCHANGED caller
      /\ UNCHANGED prefetch_in_flight /\ IndInv /\ UniqueTags
  BY DEF ViewInv, IndInv
<1>1. CASE fsm = "WriteAround" /\ low_phase' # "accepted"
  <2>1. caller = Waiting(cur) /\ cur.op = "Store"
    BY <1>0, <1>1 DEF ViewInv, CallerInv, IndInv, ControlInv, Storing
  <2>2. CallerPhase = "accepted" /\ CallerPhase' = "performed"
    BY <1>0, <1>1, <2>1 DEF CallerPhase, Waiting
  <2>3. LogicalMem' = Mem!Apply(LogicalMem, cur)
    BY <1>0, <1>1, EffectView DEF ViewInv
  <2>4. Mem!TakeEffect(caller.req)
    BY <1>0, <2>1, <2>2, <2>3 DEF Mem!TakeEffect, Waiting
  <2> QED  BY <2>2, <2>4 DEF Mem!Next, Mem!Perform
<1>2. CASE ~(fsm = "WriteAround" /\ low_phase' # "accepted")
  <2>1. LogicalMem' = LogicalMem
    <3>1. CASE UNCHANGED low_mem
      BY <1>0, <3>1, Undisturbed, SameView
    <3>2. CASE low_mem' = Low!Apply(low_mem, transaction.req) /\ low_phase' # "accepted"
      BY <1>0, <1>2, <3>2, EffectView DEF ViewInv
    <3> QED  BY <3>1, <3>2
  <2>2. CallerPhase' = CallerPhase
    BY <1>0, <1>2 DEF CallerPhase
  <2> QED  BY <1>0, <2>1, <2>2 DEF Mem!vars
<1> QED  BY <1>1, <1>2

(* A refill replaces a victim that the device below holds as well by a block *)
(* that was cached nowhere.                                                  *)
LEMMA RefillView ==
  ASSUME IndInv, TickRefilled
  PROVE  LogicalMem' = LogicalMem /\ RefillSticks'
<1> DEFINE i == Index(cur.addr)
           t == Tag(cur.addr)
           u == InsertBlock(set[i], evict_way, t, low_buf)
<1>1. /\ fsm = "Allocate" /\ transaction.state = "Waiting" /\ low_phase = "done"
      /\ set' = [set EXCEPT ![i] = u] /\ UNCHANGED low_mem /\ UNCHANGED cur
  BY DEF TickRefilled, Arrived, Low!Collect
<1>2. /\ i \in Indices /\ t \in Nat /\ evict_way \in Ways /\ cur.addr \in Nat
      /\ set \in [Indices -> SetUnits] /\ set[i] \in SetUnits /\ UniqueTags
  BY <1>1, AddrParts DEF IndInv, TypeOK, ControlInv, ReqOK
<1>3. /\ low_buf \in Blocks
      /\ \A a \in Nat : Tag(a) = t /\ Index(a) = i => low_buf[Offset(a)] = low_mem[a]
  BY <1>1, RefillBytes
<1> HIDE DEF i, t
<1>4. /\ u \in SetUnits
      /\ u.valid_array = [set[i].valid_array EXCEPT ![evict_way] = TRUE]
      /\ u.tag_array = [set[i].tag_array EXCEPT ![evict_way] = t]
      /\ u.dirty_array = [set[i].dirty_array EXCEPT ![evict_way] = FALSE]
      /\ u.data_array = [set[i].data_array EXCEPT ![evict_way] = low_buf]
      /\ u.rp.valid = [set[i].rp.valid EXCEPT ![evict_way] = TRUE]
  <2>1. PICK v : v = set[i]
    OBVIOUS
  <2>2. v \in SetUnits /\ evict_way \in Ways /\ t \in Nat /\ low_buf \in Blocks
    BY <1>2, <1>3, <2>1
  <2>3. PICK b : b = InsertBlock(v, evict_way, t, low_buf)
    OBVIOUS
  <2>4. /\ b \in SetUnits
        /\ b.valid_array = [v.valid_array EXCEPT ![evict_way] = TRUE]
        /\ b.tag_array = [v.tag_array EXCEPT ![evict_way] = t]
        /\ b.dirty_array = [v.dirty_array EXCEPT ![evict_way] = FALSE]
        /\ b.data_array = [v.data_array EXCEPT ![evict_way] = low_buf]
        /\ b.rp.valid = [v.rp.valid EXCEPT ![evict_way] = TRUE]
    BY ONLY <2>2, <2>3, InsertBlockOp
  <2>5. u = b
    BY <2>1, <2>3
  <2> HIDE DEF u
  <2> QED  BY ONLY <2>1, <2>4, <2>5
<1>5. \A w \in Ways : ~Holds(set[i], w, t)
  BY <1>1 DEF IndInv, MissInv, Replacing, i, t
<1>6. \A a \in Addr : a \in Nat /\ Index(a) \in Indices
  BY AddrParts DEF Addr
<1>7. UniqueTags'
  BY TickRefilledStep DEF IndInv
<1> HIDE DEF u
<1>0. PICK e \in Ways : e = evict_way
  BY <1>2
<1>8. /\ set'[i] = u /\ \A j \in Indices \ {i} : set'[j] = set[j]
      /\ set[i].valid_array \in [Ways -> BOOLEAN] /\ set[i].tag_array \in [Ways -> Nat]
      /\ set[i].data_array \in [Ways -> Blocks]
  BY <1>1, <1>2 DEF SetUnits
<1>9. Holds(set'[i], e, t)
  BY <1>0, <1>2, <1>4, <1>8 DEF Holds
<1>10. ASSUME NEW a \in Addr, NEW w \in Ways, Index(a) # i \/ w # e
       PROVE  (HeldIn(a, w)' <=> HeldIn(a, w)) /\ Byte(a, w)' = Byte(a, w)
  <2>1. CASE Index(a) # i
    BY <1>6, <1>8, <2>1 DEF HeldIn, Byte
  <2>2. CASE Index(a) = i /\ w # e
    <3>1. /\ set'[i].valid_array[w] = set[i].valid_array[w]
          /\ set'[i].tag_array[w] = set[i].tag_array[w]
          /\ set'[i].data_array[w] = set[i].data_array[w]
      BY <1>0, <1>4, <1>8, <2>2
    <3> QED  BY <2>2, <3>1 DEF HeldIn, Byte, Holds
  <2> QED  BY <1>10, <2>1, <2>2
<1>11. ASSUME NEW a \in Addr
       PROVE  \/ \E w \in Ways : HeldIn(a, w)' /\ Byte(a, w)' = LogicalMem[a]
              \/ ~Cached(a)' /\ low_mem'[a] = LogicalMem[a]
  <2>1. CASE Index(a) = i /\ Tag(a) = t
    <3>1. LogicalMem[a] = low_mem[a]
      BY <1>2, <1>5, <2>1, SeenByte DEF Cached, HeldIn
    <3>2. HeldIn(a, e)'
      BY <1>9, <2>1 DEF HeldIn
    <3>3. Byte(a, e)' = low_buf[Offset(a)]
      BY <1>0, <1>2, <1>4, <1>8, <2>1 DEF Byte
    <3> QED  BY <1>2, <1>3, <1>6, <2>1, <3>1, <3>2, <3>3
  <2>2. CASE ~(Index(a) = i /\ Tag(a) = t)
    <3>1. Index(a) = i => ~HeldIn(a, e)'
      BY <1>9, <2>2 DEF HeldIn, Holds
    <3>2. CASE \E w \in Ways : HeldIn(a, w) /\ (Index(a) # i \/ w # e)
      <4>1. PICK w \in Ways : HeldIn(a, w) /\ (Index(a) # i \/ w # e)
        BY <3>2
      <4> QED  BY <1>2, <1>10, <4>1, SeenByte
    <3>3. CASE ~\E w \in Ways : HeldIn(a, w) /\ (Index(a) # i \/ w # e)
      <4>1. ~Cached(a)'
        BY <1>10, <3>1, <3>3 DEF Cached
      <4>2. LogicalMem[a] = low_mem[a]
        <5>1. CASE Cached(a)
          <6>1. Index(a) = i /\ HeldIn(a, e)
            BY <3>3, <5>1 DEF Cached
          <6>2. Byte(a, e) = low_mem[a]
            BY <1>0, <1>1, <6>1 DEF IndInv, VictimInv, i
          <6> QED  BY <1>2, <6>1, <6>2, SeenByte
        <5>2. CASE ~Cached(a)
          BY <1>2, <5>2, SeenByte
        <5> QED  BY <5>1, <5>2
      <4> QED  BY <1>1, <4>1, <4>2
    <3> QED  BY <3>2, <3>3
  <2> QED  BY <2>1, <2>2
<1>12. LogicalMem = [a \in Addr |-> LogicalMem[a]]
  BY DEF LogicalMem
<1>13. LogicalMem' = LogicalMem
  BY <1>7, <1>11, <1>12, SeenNext
<1>14. RefillSticks'
  BY <1>1, <1>2, <1>9 DEF RefillSticks, Cached, HeldIn, i, t
<1> QED  BY <1>13, <1>14

-----------------------------------------------------------------------------
(* Every step of the cache is a step of the memory its caller sees. *)

(* A step of the memory, with what is known of the caller preserved. *)
Refines ==
    /\ [Mem!Next]_(Mem!vars)
    /\ CallerInv' /\ ThroughHeld' /\ RefillSticks'

LEMMA RegisterRefines ==
  ASSUME ViewInv, SafePolicies, NEW r \in Reqs, TryRegisterReq(r)
  PROVE  Refines
<1>1. ReqOK(r) /\ Low!InBounds(r)
  BY RequestIsOK
<1>2. ~prefetch_in_flight /\ caller = NoCall
  BY DEF ViewInv, IndInv, ControlInv, CallerInv, TryRegisterReq
<1>3. ViewContext(r)
  BY <1>1, <1>2 DEF ViewContext, LookupContext, TryRegisterReq, ViewInv
<1>4. LookupSeen(r) /\ LookupKept(r)
  BY <1>3, LookupView DEF TryRegisterReq
<1>5. CallerPhase = "free"
  BY <1>2 DEF CallerPhase, NoCall
<1>6. Mem!InBounds(r)
  BY <1>1 DEF Mem!InBounds, Low!InBounds
<1>7. Mem!Finish(r) \/ Mem!TakeEffect(r) \/ Accepted(r)
  BY <1>2, <1>4 DEF LookupSeen
<1>8. Mem!Register(r)
  <2>1. CASE Mem!Finish(r) \/ Mem!TakeEffect(r)
    BY <1>5, <1>6, <2>1 DEF Mem!Register
  <2>2. CASE Accepted(r)
    <3>1. /\ LogicalMem' = LogicalMem /\ CallerPhase' = "accepted"
          /\ caller'.req = r /\ caller'.buf = <<>>
      BY <2>2 DEF Accepted, Waiting
    <3> QED  BY <1>5, <1>6, <3>1 DEF Mem!Register
  <2> QED  BY <1>7, <2>1, <2>2
<1> QED  BY <1>4, <1>8 DEF Refines, LookupKept, Mem!Next

LEMMA TickLookupRefines ==
  ASSUME ViewInv, SafePolicies, TickLookup
  PROVE  Refines
<1>1. /\ ReqOK(cur) /\ (prefetch_in_flight => cur.op = "Load") /\ prefetch_in_flight \in BOOLEAN
      /\ ~prefetch_in_flight => caller = Waiting(cur) /\ Low!InBounds(cur)
  BY DEF ViewInv, IndInv, TypeOK, ControlInv, CallerInv, TickLookup
<1>2. ViewContext(cur)
  BY <1>1 DEF ViewContext, LookupContext, TickLookup, ViewInv
<1>3. LookupSeen(cur) /\ LookupKept(cur)
  BY <1>2, LookupView DEF TickLookup
<1>4. CASE prefetch_in_flight
  BY <1>3, <1>4 DEF LookupSeen, LookupKept, Refines
<1>5. CASE ~prefetch_in_flight
  <2>1. /\ CallerPhase = "accepted" /\ caller.req = cur /\ caller.buf = <<>>
        /\ caller = Waiting(cur)
    BY <1>1, <1>5 DEF TickLookup, CallerPhase, Waiting
  <2>2. Mem!Finish(cur) \/ Mem!TakeEffect(cur) \/ Accepted(cur)
    BY <1>3, <1>5 DEF LookupSeen
  <2>3. [Mem!Next]_(Mem!vars)
    <3>1. CASE Mem!Finish(cur) \/ Mem!TakeEffect(cur)
      BY <2>1, <3>1 DEF Mem!Next, Mem!Perform
    <3>2. CASE Accepted(cur)
      BY <2>1, <3>2 DEF Accepted, Mem!vars
    <3> QED  BY <2>2, <3>1, <3>2
  <2> QED  BY <1>3, <2>3 DEF LookupKept, Refines
<1> QED  BY <1>1, <1>4, <1>5

LEMMA CollectRefines ==
  ASSUME ViewInv, CollectDone
  PROVE  Refines
<1>1. /\ caller = Done(caller.buf) /\ caller' = NoCall /\ UniqueTags
      /\ UNCHANGED set /\ UNCHANGED fsm /\ UNCHANGED cur /\ UNCHANGED prefetch_in_flight
      /\ UNCHANGED low_mem
  BY DEF CollectDone, ViewInv, IndInv, CallerInv, configVars, lowVars
<1>2. LogicalMem' = LogicalMem
  BY <1>1, Undisturbed, SameView
<1>3. /\ caller.req = NoReq /\ caller'.req = NoReq /\ caller'.buf = <<>>
      /\ CallerPhase = "done" /\ CallerPhase' = "free"
  BY <1>1 DEF Done, NoCall, CallerPhase
<1>4. Mem!Collect
  BY <1>2, <1>3 DEF Mem!Collect
<1>5. CallerInv' /\ ThroughHeld' /\ RefillSticks'
  <2>1. caller.state = "done" /\ caller'.state = "none"
    BY <1>1 DEF Done, NoCall
  <2>2. CallerInv'
    BY <1>1, <2>1 DEF ViewInv, CallerInv
  <2>3. ThroughHeld' /\ RefillSticks'
    BY <1>1 DEF ViewInv, ThroughHeld, RefillSticks, Cached, HeldIn
  <2> QED  BY <2>2, <2>3
<1> QED  BY <1>4, <1>5 DEF Refines, Mem!Next

LEMMA IssuePrefetchRefines ==
  ASSUME ViewInv, TickIssuePrefetch
  PROVE  Refines
<1>1. /\ fsm = "Idle" /\ fsm' = "Lookup" /\ prefetch_in_flight' = TRUE
      /\ UNCHANGED set /\ UNCHANGED caller /\ UNCHANGED low_mem
      /\ UniqueTags /\ caller.state # "waiting"
  BY DEF TickIssuePrefetch, Goto, ViewInv, IndInv, CallerInv, configVars, lowVars
<1>2. LogicalMem' = LogicalMem
  BY <1>1, Undisturbed, SameView
<1>3. CallerPhase' = CallerPhase
  BY <1>1 DEF CallerPhase
<1>4. CallerInv' /\ ThroughHeld' /\ RefillSticks'
  BY <1>1 DEF ViewInv, CallerInv, ThroughHeld, RefillSticks
<1> QED  BY <1>1, <1>2, <1>3, <1>4 DEF Refines, Mem!vars

LEMMA SendRefines ==
  ASSUME ViewInv, TickSend
  PROVE  Refines
<1>1. /\ transaction.state = "Sending" /\ transaction'.state = "Waiting"
      /\ Replacing \/ Storing
      /\ UNCHANGED <<set, fsm, cur, prefetch_in_flight, caller>>
  BY DEF TickSend, Send, Replacing, Storing
<1>2. \/ /\ low_mem' = Low!Apply(low_mem, transaction.req)
         /\ low_phase' \in {"performed", "done"}
      \/ low_phase' = "accepted" /\ UNCHANGED low_mem
  BY DEF TickSend, Send, Low!Register, Low!Finish, Low!TakeEffect
<1>3. [Mem!Next]_(Mem!vars)
  BY <1>1, <1>2, DeviceView
<1> QED  BY <1>1, <1>3, CallerKept DEF ViewInv, Refines

LEMMA LowStepRefines ==
  ASSUME ViewInv, LowStep
  PROVE  Refines
<1>1. /\ UNCHANGED <<set, fsm, cur, prefetch_in_flight, caller>>
      /\ UNCHANGED transaction /\ low_phase \in {"accepted", "performed"}
  BY DEF LowStep, cacheVars, Low!Perform, Low!Ack
<1>2. /\ transaction.state = "Waiting" /\ UniqueTags
      /\ Replacing \/ Storing
      /\ low_phase = "accepted" => low_pending = transaction.req
  BY <1>1 DEF ViewInv, IndInv, LowInv, ControlInv, TypeOK
<1>3. [Mem!Next]_(Mem!vars)
  <2>1. CASE Low!Perform
    <3>1. /\ low_phase = "accepted" /\ low_mem' = Low!Apply(low_mem, transaction.req)
          /\ low_phase' \in {"performed", "done"} /\ transaction'.state = "Waiting"
      BY <1>1, <1>2, <2>1 DEF Low!Perform, Low!Finish, Low!TakeEffect
    <3> QED  BY <1>1, <1>2, <3>1, DeviceView
  <2>2. CASE Low!Ack
    <3>1. low_phase = "performed" /\ low_phase' = "done" /\ UNCHANGED low_mem
      BY <2>2 DEF Low!Ack
    <3>2. LogicalMem' = LogicalMem
      BY <1>1, <1>2, <3>1, Undisturbed, SameView
    <3>3. CallerPhase' = CallerPhase
      BY <1>1, <1>2, <3>1 DEF CallerPhase
    <3> QED  BY <1>1, <3>2, <3>3 DEF Mem!vars
  <2> QED  BY <2>1, <2>2 DEF LowStep
<1> QED  BY <1>1, <1>3, CallerKept DEF ViewInv, Refines

LEMMA WrittenBackRefines ==
  ASSUME ViewInv, TickWrittenBack
  PROVE  Refines
<1>1. /\ fsm = "WriteBack" /\ fsm' = "Allocate" /\ UNCHANGED cur
      /\ UNCHANGED prefetch_in_flight
      /\ UNCHANGED set /\ UNCHANGED caller /\ UNCHANGED low_mem /\ UniqueTags
  BY DEF TickWrittenBack, Goto, ViewInv, IndInv, Arrived, Low!Collect
<1>2. LogicalMem' = LogicalMem
  BY <1>1, Undisturbed, SameView
<1>3. CallerPhase' = CallerPhase
  BY <1>1 DEF CallerPhase
<1>4. CallerInv' /\ ThroughHeld' /\ RefillSticks'
  BY <1>1 DEF ViewInv, CallerInv, ThroughHeld, RefillSticks
<1> QED  BY <1>1, <1>2, <1>3, <1>4 DEF Refines, Mem!vars

LEMMA RefilledRefines ==
  ASSUME ViewInv, TickRefilled
  PROVE  Refines
<1>1. /\ fsm = "Allocate" /\ fsm' = "AdditionalMissPenalty" /\ UNCHANGED cur
      /\ UNCHANGED prefetch_in_flight /\ UNCHANGED caller
  BY DEF TickRefilled
<1>2. LogicalMem' = LogicalMem /\ RefillSticks'
  BY RefillView DEF ViewInv
<1>3. CallerPhase' = CallerPhase
  BY <1>1 DEF CallerPhase
<1>4. CallerInv' /\ ThroughHeld'
  BY <1>1 DEF ViewInv, CallerInv, ThroughHeld
<1> QED  BY <1>1, <1>2, <1>3, <1>4 DEF Refines, Mem!vars

LEMMA PenaltyRefines ==
  ASSUME ViewInv, TickPenalty
  PROVE  Refines
<1>1. /\ fsm = "AdditionalMissPenalty" /\ fsm' \in {"AdditionalMissPenalty", "Lookup"}
      /\ UNCHANGED cur /\ UNCHANGED prefetch_in_flight
      /\ UNCHANGED set /\ UNCHANGED caller /\ UNCHANGED low_mem /\ UniqueTags
  BY DEF TickPenalty, Goto, ViewInv, IndInv, lowVars
<1>2. LogicalMem' = LogicalMem
  BY <1>1, Undisturbed, SameView
<1>3. CallerPhase' = CallerPhase
  BY <1>1 DEF CallerPhase
<1>4. CallerInv' /\ ThroughHeld' /\ RefillSticks'
  BY <1>1 DEF ViewInv, CallerInv, ThroughHeld, RefillSticks, Cached, HeldIn
<1> QED  BY <1>1, <1>2, <1>3, <1>4 DEF Refines, Mem!vars

LEMMA StoredRefines ==
  ASSUME ViewInv, TickStored
  PROVE  Refines
<1>1. /\ Storing /\ fsm' = "Idle" /\ caller' = Done(<<>>)
      /\ transaction.state = "Waiting" /\ low_phase = "done"
      /\ UNCHANGED set /\ UNCHANGED low_mem /\ UniqueTags
      /\ UNCHANGED prefetch_in_flight
  BY DEF TickStored, Goto, ViewInv, IndInv, Arrived, Low!Collect, Storing
<1>2. LogicalMem' = LogicalMem
  BY <1>1, Undisturbed, SameView
<1>3. caller = Waiting(cur) /\ ~prefetch_in_flight
  BY <1>1 DEF ViewInv, IndInv, ControlInv, CallerInv, Storing
<1>4. /\ caller.buf = <<>> /\ caller'.buf = <<>> /\ caller'.req = NoReq
      /\ CallerPhase = "performed" /\ CallerPhase' = "done"
  BY <1>1, <1>3 DEF Waiting, Done, CallerPhase, Storing
<1>5. Mem!Ack
  BY <1>2, <1>4 DEF Mem!Ack, NoReq, Low!NoReq, Mem!NoReq
<1>6. CallerInv' /\ ThroughHeld' /\ RefillSticks'
  BY <1>1, <1>3 DEF CallerInv, ThroughHeld, RefillSticks, Done
<1> QED  BY <1>5, <1>6 DEF Refines, Mem!Next

LEMMA CacheRefines ==
  ASSUME ViewInv, SafePolicies, [Next]_vars
  PROVE  Refines
<1>1. ASSUME NEW r \in Reqs, TryRegisterReq(r)
      PROVE  Refines
  BY <1>1, RegisterRefines
<1>2. CASE CollectDone
  BY <1>2, CollectRefines
<1>3. CASE Tick
  BY <1>3, IssuePrefetchRefines, TickLookupRefines, SendRefines, WrittenBackRefines,
     RefilledRefines, PenaltyRefines, StoredRefines DEF Tick
<1>4. CASE LowStep
  BY <1>4, LowStepRefines
<1>5. CASE UNCHANGED vars
  <2>1. /\ UNCHANGED <<set, fsm, cur, caller, prefetch_in_flight>>
        /\ UNCHANGED set /\ UNCHANGED fsm /\ UNCHANGED caller /\ UNCHANGED transaction
        /\ UNCHANGED low_phase /\ UNCHANGED low_mem /\ UniqueTags
    BY <1>5 DEF vars, cacheVars, lowVars, ViewInv, IndInv
  <2>2. LogicalMem' = LogicalMem
    BY <2>1, Undisturbed, SameView
  <2>3. CallerPhase' = CallerPhase
    BY <2>1 DEF CallerPhase
  <2> QED  BY <2>1, <2>2, <2>3, CallerKept DEF Refines, ViewInv, Mem!vars
<1> QED  BY <1>1, <1>2, <1>3, <1>4, <1>5 DEF Next

LEMMA CacheRefinesInit ==
  ASSUME Init
  PROVE  Mem!Init /\ ViewInv
<1>1. /\ IndInv /\ UniqueTags /\ fsm = "Idle" /\ caller = NoCall /\ ~prefetch_in_flight
      /\ set = [i \in Indices |-> NewSetUnit] /\ low_mem \in [Addr -> Val]
  BY IndInvInit DEF Init, IndInv, Low!Init, Addr, Low!Addr
<1>2. \A a \in Addr : ~Cached(a) /\ low_mem[a] \in Val
  <2>1. \A a \in Addr : Index(a) \in Indices
    BY AddrParts DEF Addr
  <2> QED  BY <1>1, <2>1 DEF Cached, HeldIn, Holds, NewSetUnit
<1>3. LogicalMem \in [Addr -> Val]
  BY <1>2 DEF LogicalMem
<1>4. caller.req = NoReq /\ caller.buf = <<>> /\ CallerPhase = "free"
  BY <1>1 DEF NoCall, CallerPhase
<1>5. Mem!Init
  BY <1>3, <1>4 DEF Mem!Init, Addr, Mem!Addr, NoReq, Low!NoReq, Mem!NoReq
<1>6. ViewInv
  BY <1>1 DEF ViewInv, CallerInv, ThroughHeld, RefillSticks, NoCall
<1> QED  BY <1>5, <1>6

(* The invariant behind the refinement, in every state. *)
THEOREM CacheViewInvariant ==
  ASSUME SafePolicies
  PROVE  Spec => []ViewInv
<1>1. Init => ViewInv
  BY CacheRefinesInit
<1>2. ViewInv /\ [Next]_vars => ViewInv'
  <2>1. ASSUME ViewInv, [Next]_vars
        PROVE  IndInv' /\ Refines
    BY <2>1, IndInvNext, CacheRefines DEF ViewInv
  <2> QED  BY <2>1 DEF ViewInv, Refines
<1> QED  BY <1>1, <1>2, PTL DEF Spec

(* The block that a refill fetched is still cached when the miss penalty has *)
(* been counted down: the second lookup of the request is a hit.             *)
THEOREM RefilledBlockStays ==
  ASSUME SafePolicies
  PROVE  Spec => []RefillSticks
<1>1. ViewInv => RefillSticks
  BY DEF ViewInv
<1> QED  BY <1>1, CacheViewInvariant, PTL

(* The cache is a plain memory to its caller: every request takes effect     *)
(* once, at one instant, a load returns what was stored last, and evictions, *)
(* write-backs, refills and prefetches are invisible, for every geometry,    *)
(* replacement policy, prefetcher and miss penalty, and for every write      *)
(* policy but write-back without write-allocate.                             *)
THEOREM CacheImplements ==
  ASSUME SafePolicies
  PROVE  Spec => ImplementsMem
<1>1. Init => Mem!Init
  BY CacheRefinesInit
<1>2. ViewInv /\ [Next]_vars => [Mem!Next]_(Mem!vars)
  BY CacheRefines DEF Refines
<1> QED  BY <1>1, <1>2, CacheViewInvariant, PTL DEF Spec, ImplementsMem, Mem!Spec

-----------------------------------------------------------------------------
(* Requests to the device below stay in memory. *)

(* Memory is made of whole blocks. *)
LEMMA BlockOfAddr ==
  ASSUME NEW a \in Addr
  PROVE  BlockFits(Align(a))
<1> DEFINE q == a \div BlockSize
           k == MemSize \div BlockSize
<1>1. a = BlockSize * q + (a % BlockSize) /\ a % BlockSize \in 0 .. (BlockSize - 1) /\ q \in Nat
  BY BlockSizeAssumption DEF Addr
<1>2. MemSize = BlockSize * k /\ k \in Nat
  BY BlockSizeAssumption, GeometryAssumption
<1>3. a < MemSize /\ Align(a) = a - (a % BlockSize) /\ a \in Nat
  BY GeometryAssumption DEF Addr, Align, Offset
<1> HIDE DEF q, k
<1>4. q < k
  <2> SUFFICES ASSUME k <= q PROVE FALSE
    BY <1>1, <1>2
  <2>1. PICK d \in Nat : q = k + d
    <3>1. q - k \in Nat /\ q = k + (q - k)
      BY <1>1, <1>2
    <3> QED  BY <3>1
  <2>2. BlockSize * q = BlockSize * k + BlockSize * d /\ BlockSize * d \in Nat
    BY <1>2, <2>1, BlockSizeAssumption
  <2> QED  BY <1>1, <1>2, <1>3, <2>2
<1>5. PICK d \in Nat : k = q + 1 + d
  <2>1. k - q - 1 \in Nat /\ k = q + 1 + (k - q - 1)
    BY <1>1, <1>2, <1>4
  <2> QED  BY <2>1
<1>6. BlockSize * k = BlockSize * q + BlockSize + BlockSize * d /\ BlockSize * d \in Nat
  BY <1>1, <1>5, BlockSizeAssumption
<1>7. Align(a) = BlockSize * q
  BY <1>1, <1>3, BlockSizeAssumption
<1>8. BlockSize * q \in Nat /\ BlockSize \in Nat
  BY <1>1, BlockSizeAssumption
<1> QED  BY <1>2, <1>6, <1>7, <1>8 DEF BlockFits

(* The prefetch queue after the hooks. *)
LEMMA HooksRoom ==
  ASSUME NEW r, LookupContext(r), NEW hit \in BOOLEAN, PrefetchHooks(r, hit),
         Room(r), LowRequestsInBounds,
         \A n \in 1 .. Len(prefetch_queue) : BlockFits(prefetch_queue[n])
  PROVE  /\ \A n \in 1 .. Len(prefetch_queue') : BlockFits(prefetch_queue'[n])
         /\ \A m, n \in 1 .. Len(prefetch_queue') :
               prefetch_queue'[m] = prefetch_queue'[n] => m = n
<1>1. prefetch_queue \in Seq(Nat) /\ r.addr \in Nat /\ prefetch_in_flight \in BOOLEAN
  BY DEF LookupContext, ReqOK, IndInv, TypeOK
<1>2. CASE prefetch_queue' = prefetch_queue
  BY <1>2 DEF LowRequestsInBounds
<1>3. CASE prefetch_queue' # prefetch_queue
  <2>1. /\ ~prefetch_in_flight
        /\ \E a \in Predict(r.addr) : ~Queued(a)
        /\ \E a \in Predict(r.addr) : prefetch_queue' = Append(prefetch_queue, a)
    BY <1>1, <1>3 DEF PrefetchHooks
  <2> DEFINE a == Align(r.addr) + BlockSize
  <2>2. prefetcher = "NextLine" /\ prefetch_queue' = Append(prefetch_queue, a) /\ ~Queued(a)
    BY <2>1 DEF Predict
  <2>3. a \in Nat /\ BlockFits(a)
    <3>1. Align(r.addr) \in Nat
      BY <1>1, AlignIsAddr
    <3>2. BlockFits(a)
      BY <2>1, <2>2, Zenon DEF Room
    <3> QED  BY <3>1, <3>2, BlockSizeAssumption
  <2> HIDE DEF a
  <2>4. /\ Len(prefetch_queue') = Len(prefetch_queue) + 1
        /\ \A n \in 1 .. Len(prefetch_queue') :
              prefetch_queue'[n] = IF n <= Len(prefetch_queue) THEN prefetch_queue[n] ELSE a
        /\ Len(prefetch_queue) \in Nat
    BY <1>1, <2>2, <2>3
  <2>5. \A n \in 1 .. Len(prefetch_queue) : prefetch_queue[n] # a
    BY <2>2 DEF Queued
  <2> QED  BY <2>3, <2>4, <2>5 DEF LowRequestsInBounds
<1> QED  BY <1>2, <1>3

(* Steps that fill no way keep the cached blocks in memory. *)
LEMMA LinesRoom ==
  ASSUME NEW i \in Indices, NEW u, set \in [Indices -> SetUnits],
         set' = [set EXCEPT ![i] = u],
         u.valid_array = set[i].valid_array, u.tag_array = set[i].tag_array,
         RoomInv
  PROVE  \A j \in Indices : \A w \in Ways :
            set'[j].valid_array[w] => BlockFits(BlockAddr(set'[j].tag_array[w], j))
<1>1. \A j \in Indices : /\ set'[j].valid_array = set[j].valid_array
                         /\ set'[j].tag_array = set[j].tag_array
  OBVIOUS
<1> QED  BY <1>1 DEF RoomInv

LEMMA LookupRoom ==
  ASSUME NEW r, ViewContext(r), RoomInv, LowRequestsInBounds, Room(r), Lookup(r)
  PROVE  RoomInv' /\ LowRequestsInBounds'
<1> DEFINE i == Index(r.addr)
           hit == IsHit(set[i], Tag(r.addr))
<1>1. /\ LookupContext(r) /\ ReqOK(r) /\ r.addr \in Nat
      /\ i \in Indices /\ set \in [Indices -> SetUnits] /\ set[i] \in SetUnits
      /\ transaction.state = "None" /\ prefetch_in_flight \in BOOLEAN
      /\ prefetch_in_flight => r.op = "Load"
      /\ ~prefetch_in_flight => Low!InBounds(r)
      /\ UNCHANGED prefetcher
  BY LookupStart DEF ViewContext, LookupContext, ReqOK, IndInv, TypeOK, configVars
<1>2. hit \in BOOLEAN /\ PrefetchHooks(r, hit)
  BY DEF Lookup, IsHit
<1>3. /\ \A n \in 1 .. Len(prefetch_queue') : BlockFits(prefetch_queue'[n])
      /\ \A m, n \in 1 .. Len(prefetch_queue') :
            prefetch_queue'[m] = prefetch_queue'[n] => m = n
      /\ prefetch_in_flight' = (prefetch_in_flight /\ ~hit)
  <2>1. \A n \in 1 .. Len(prefetch_queue) : BlockFits(prefetch_queue[n])
    BY DEF RoomInv
  <2>2. prefetch_in_flight' = (prefetch_in_flight /\ ~hit)
    BY <1>1, <1>2, HooksStep
  <2> HIDE DEF hit
  <2> QED  BY <1>1, <1>2, <2>1, <2>2, HooksRoom
<1>4. SUFFICES /\ \A j \in Indices : \A w \in Ways :
                      set'[j].valid_array[w] => BlockFits(BlockAddr(set'[j].tag_array[w], j))
               /\ fsm' # "Idle" => Room(r)' /\ cur' = r
               /\ transaction'.state = "Sending" => Low!InBounds(transaction'.req)
  BY <1>3 DEF RoomInv, LowRequestsInBounds, Room, BlockFits, Low!InBounds
<1>5. CASE hit
  <2>1. PICK w \in HitWay(set[i], Tag(r.addr)) :
           HitLoad(r, w) \/ HitStoreThrough(r, w) \/ HitStoreBack(r, w)
    BY <1>5 DEF Lookup
  <2>2. w \in Ways
    BY DEF HitWay, First
  <2>3. PICK u : /\ set' = [set EXCEPT ![i] = u]
                 /\ u.valid_array = set[i].valid_array /\ u.tag_array = set[i].tag_array
    <3> DEFINE b == Merge(set[i].data_array[w], r)
    <3>1. CASE HitLoad(r, w)
      <4>1. set' = [set EXCEPT ![i] = TouchBlock(set[i], w)]
        BY <3>1 DEF HitLoad
      <4>2. /\ TouchBlock(set[i], w).valid_array = set[i].valid_array
            /\ TouchBlock(set[i], w).tag_array = set[i].tag_array
        BY <1>1, <2>2, TouchBlockOp
      <4> QED  BY <4>1, <4>2
    <3>2. CASE HitStoreThrough(r, w) \/ HitStoreBack(r, w)
      <4>1. b \in Blocks
        <5>1. set[i].data_array[w] \in Blocks /\ r.op = "Store"
          BY <1>1, <2>2, <3>2 DEF SetUnits, HitStoreThrough, HitStoreBack
        <5> QED  BY <1>1, <5>1, MergeByte
      <4>2. \/ set' = [set EXCEPT ![i] = WriteBlockClean(set[i], w, b)]
            \/ set' = [set EXCEPT ![i] = WriteBlock(set[i], w, b)]
        BY <3>2 DEF HitStoreThrough, HitStoreBack
      <4> HIDE DEF i, b
      <4>3. /\ WriteBlock(set[i], w, b).valid_array = set[i].valid_array
            /\ WriteBlock(set[i], w, b).tag_array = set[i].tag_array
            /\ WriteBlockClean(set[i], w, b).valid_array = set[i].valid_array
            /\ WriteBlockClean(set[i], w, b).tag_array = set[i].tag_array
        <5>1. set[i] \in SetUnits /\ w \in Ways
          BY <1>1, <2>2
        <5> QED  BY ONLY <4>1, <5>1, StoreLines, Zenon
      <4> QED  BY <4>2, <4>3
    <3> QED  BY <2>1, <3>1, <3>2
  <2>4. \A j \in Indices : \A v \in Ways :
           set'[j].valid_array[v] => BlockFits(BlockAddr(set'[j].tag_array[v], j))
    BY <1>1, <2>3, LinesRoom
  <2>5. /\ \/ fsm' = "Idle" /\ transaction' = transaction
           \/ /\ fsm' = "WriteThroughCommit" /\ cur' = r /\ r.op = "Store"
              /\ transaction' = NewTransaction(r)
    BY <2>1 DEF HitLoad, HitStoreThrough, HitStoreBack, Goto
  <2>6. CASE fsm' = "Idle" /\ transaction' = transaction
    BY <1>1, <2>4, <2>6
  <2>7. CASE fsm' = "WriteThroughCommit" /\ cur' = r /\ r.op = "Store"
             /\ transaction' = NewTransaction(r)
    <3>1. ~prefetch_in_flight /\ prefetch_in_flight' = FALSE
      BY <1>1, <1>3, <2>7
    <3>2. Room(r)'
      BY <1>1, <3>1 DEF Room, BlockFits
    <3> QED  BY <1>1, <2>4, <2>7, <3>1, <3>2 DEF NewTransaction
  <2> QED  BY <2>5, <2>6, <2>7
<1>6. CASE ~hit
  <2>1. PICK m \in MissOutcomes(set[i]) :
           MissAround(r, m) \/ MissWriteBack(r, m) \/ MissAllocate(r, m)
    BY <1>6 DEF Lookup
  <2>2. /\ m.unit \in SetUnits /\ m.way \in Ways
        /\ m.unit.valid_array = set[i].valid_array
        /\ m.unit.tag_array = set[i].tag_array
        /\ m.need_write_back => set[i].dirty_array[m.way]
    <3> HIDE DEF i
    <3> QED  BY <1>1, <2>1, MissContract
  <2>3. \A j \in Indices : \A v \in Ways :
           set'[j].valid_array[v] => BlockFits(BlockAddr(set'[j].tag_array[v], j))
    <3>1. set' = [set EXCEPT ![i] = m.unit] \/ set' = [set EXCEPT ![i] = TouchBlock(m.unit, m.way)]
      BY <2>1 DEF MissAround, MissWriteBack, MissAllocate
    <3>2. /\ TouchBlock(m.unit, m.way).valid_array = set[i].valid_array
          /\ TouchBlock(m.unit, m.way).tag_array = set[i].tag_array
      BY <2>2, TouchBlockOp
    <3>3. CASE set' = [set EXCEPT ![i] = m.unit]
      BY <1>1, <2>2, <3>3, LinesRoom
    <3>4. CASE set' = [set EXCEPT ![i] = TouchBlock(m.unit, m.way)]
      BY <1>1, <3>2, <3>4, LinesRoom
    <3> QED  BY <3>1, <3>3, <3>4
  <2>4. Room(r)'
    <3>1. prefetch_in_flight' = prefetch_in_flight
      BY <1>1, <1>3, <1>6
    <3> QED  BY <1>1, <3>1 DEF Room, BlockFits
  <2>5. cur' = r
    BY <2>1 DEF MissAround, MissWriteBack, MissAllocate, Goto
  <2>6. Low!InBounds(transaction'.req)
    <3>1. CASE MissAround(r, m)
      <4>1. transaction'.req = r /\ ~prefetch_in_flight
        BY <1>1, <3>1 DEF MissAround, NewTransaction
      <4> QED  BY <1>1, <4>1
    <3>2. CASE MissWriteBack(r, m)
      <4>1. /\ transaction'.req.addr = BlockAddr(set[i].tag_array[m.way], i)
            /\ transaction'.req.len = BlockSize
            /\ m.need_write_back
        BY <3>2 DEF MissWriteBack, NewTransaction, Low!Store
      <4>2. set[i].valid_array[m.way]
        BY <1>1, <2>2, <4>1, LookupStart
      <4> QED  BY <1>1, <2>2, <4>1, <4>2 DEF RoomInv, BlockFits, Low!InBounds
    <3>3. CASE MissAllocate(r, m)
      <4>1. transaction'.req.addr = BlockAddr(Tag(r.addr), i) /\ transaction'.req.len = BlockSize
        BY <3>3 DEF MissAllocate, NewTransaction, Low!Load
      <4>2. Align(r.addr) = BlockAddr(Tag(r.addr), i)
        BY <1>1, AddrParts
      <4> QED  BY <4>1, <4>2 DEF Room, BlockFits, Low!InBounds
    <3> QED  BY <2>1, <3>1, <3>2, <3>3
  <2> QED  BY <2>3, <2>4, <2>5, <2>6
<1> QED  BY <1>5, <1>6

(* A request of the caller leaves room for itself and for what is predicted  *)
(* from it.                                                                  *)
LEMMA RegisterRoom ==
  ASSUME ViewInv, SafePolicies, PrefetchRoom, RoomInv, LowRequestsInBounds,
         NEW r \in Reqs, TryRegisterReq(r)
  PROVE  RoomInv' /\ LowRequestsInBounds'
<1>1. ReqOK(r) /\ Low!InBounds(r) /\ r.addr \in Addr /\ r.addr \in Nat
  BY RequestIsOK
<1>2. ~prefetch_in_flight
  BY DEF ViewInv, IndInv, ControlInv, TryRegisterReq
<1>3. ViewContext(r)
  BY <1>1, <1>2 DEF ViewContext, LookupContext, TryRegisterReq, ViewInv
<1>4. Room(r)
  <2>1. BlockFits(Align(r.addr))
    BY <1>1, BlockOfAddr
  <2>2. ASSUME prefetcher = "NextLine"
        PROVE  BlockFits(Align(r.addr) + BlockSize)
    <3>1. "NextLine" \in Prefetchers
      BY <2>2 DEF ViewInv, IndInv, TypeOK
    <3>2. Align(r.addr) + 2 * BlockSize <= MemSize
      BY <3>1 DEF PrefetchRoom
    <3>3. Align(r.addr) \in Nat
      BY <1>1, AlignIsAddr
    <3> QED  BY <3>2, <3>3, BlockSizeAssumption, GeometryAssumption DEF BlockFits
  <2> QED  BY <2>1, <2>2 DEF Room
<1> QED  BY <1>3, <1>4, LookupRoom DEF TryRegisterReq

LEMMA TickLookupRoom ==
  ASSUME ViewInv, SafePolicies, RoomInv, LowRequestsInBounds, TickLookup
  PROVE  RoomInv' /\ LowRequestsInBounds'
<1>1. /\ ReqOK(cur) /\ (prefetch_in_flight => cur.op = "Load") /\ prefetch_in_flight \in BOOLEAN
      /\ ~prefetch_in_flight => Low!InBounds(cur)
  BY DEF ViewInv, IndInv, TypeOK, ControlInv, CallerInv, TickLookup
<1>2. ViewContext(cur)
  BY <1>1 DEF ViewContext, LookupContext, TickLookup, ViewInv
<1>3. Room(cur)
  BY DEF RoomInv, TickLookup
<1> QED  BY <1>2, <1>3, LookupRoom DEF TickLookup

LEMMA IssuePrefetchRoom ==
  ASSUME ViewInv, RoomInv, LowRequestsInBounds, TickIssuePrefetch
  PROVE  RoomInv' /\ LowRequestsInBounds'
<1>1. /\ prefetch_queue \in Seq(Nat) /\ prefetch_queue # <<>> /\ QueueInv
      /\ prefetch_queue' = Tail(prefetch_queue) /\ prefetch_in_flight' = TRUE
      /\ cur'.addr = Head(prefetch_queue)
      /\ UNCHANGED set /\ UNCHANGED transaction
  BY DEF ViewInv, IndInv, TypeOK, TickIssuePrefetch, Goto, Low!Load
<1>2. /\ Len(prefetch_queue) \in Nat \ {0} /\ Len(prefetch_queue') = Len(prefetch_queue) - 1
      /\ \A n \in 1 .. Len(prefetch_queue') : prefetch_queue'[n] = prefetch_queue[n + 1]
      /\ Head(prefetch_queue) = prefetch_queue[1]
      /\ prefetch_queue[1] \in Nat
  BY <1>1
<1>3. \A n \in 1 .. Len(prefetch_queue') : BlockFits(prefetch_queue'[n])
  BY <1>2 DEF RoomInv
<1>4. \A m, n \in 1 .. Len(prefetch_queue') :
         prefetch_queue'[m] = prefetch_queue'[n] => m = n
  BY <1>2 DEF LowRequestsInBounds
<1>5. Room(cur)'
  <2>1. Offset(prefetch_queue[1]) = 0 /\ BlockFits(prefetch_queue[1])
    BY <1>1, <1>2 DEF QueueInv, RoomInv
  <2>2. Align(prefetch_queue[1]) = prefetch_queue[1]
    BY <1>2, <2>1 DEF Align
  <2> QED  BY <1>1, <1>2, <2>1, <2>2 DEF Room
<1> QED  BY <1>1, <1>3, <1>4, <1>5 DEF RoomInv, LowRequestsInBounds

(* The other ticks send nothing new but the refill that follows a            *)
(* write-back.                                                               *)
LEMMA QuietRoom ==
  ASSUME RoomInv, LowRequestsInBounds,
         UNCHANGED <<set, prefetch_queue, prefetch_in_flight, prefetcher>>,
         fsm' = "Idle" \/ (fsm # "Idle" /\ cur' = cur),
         \/ transaction'.state # "Sending"
         \/ transaction' = transaction
         \/ fsm # "Idle" /\ transaction'.req = AllocateReq(cur.addr)
  PROVE  RoomInv' /\ LowRequestsInBounds'
<1>1. UNCHANGED set /\ UNCHANGED prefetch_queue /\ UNCHANGED prefetch_in_flight
      /\ UNCHANGED prefetcher
  OBVIOUS
<1>2. RoomInv'
  BY <1>1 DEF RoomInv, Room
<1>3. CASE transaction'.state # "Sending" \/ transaction' = transaction
  BY <1>1, <1>2, <1>3 DEF LowRequestsInBounds
<1>4. CASE fsm # "Idle" /\ transaction'.req = AllocateReq(cur.addr)
  <2>1. Low!InBounds(transaction'.req)
    BY <1>4 DEF RoomInv, Room, BlockFits, AllocateReq, Low!Load, Low!InBounds
  <2> QED  BY <1>1, <1>2, <2>1 DEF LowRequestsInBounds
<1> QED  BY <1>3, <1>4

(* A refill caches the block of the request, which is in memory. *)
LEMMA RefilledRoom ==
  ASSUME ViewInv, RoomInv, LowRequestsInBounds, TickRefilled
  PROVE  RoomInv' /\ LowRequestsInBounds'
<1> DEFINE i == Index(cur.addr)
           t == Tag(cur.addr)
           u == InsertBlock(set[i], evict_way, t, low_buf)
<1>1. /\ fsm = "Allocate" /\ fsm' = "AdditionalMissPenalty" /\ set' = [set EXCEPT ![i] = u]
      /\ transaction' = NoTransaction /\ UNCHANGED cur /\ UNCHANGED prefetch_queue
      /\ UNCHANGED prefetch_in_flight /\ UNCHANGED prefetcher
  BY DEF TickRefilled, configVars
<1>2. /\ i \in Indices /\ t \in Nat /\ evict_way \in Ways /\ cur.addr \in Nat
      /\ set \in [Indices -> SetUnits] /\ set[i] \in SetUnits
      /\ Align(cur.addr) = BlockAddr(t, i)
  BY <1>1, AddrParts DEF ViewInv, IndInv, TypeOK, ControlInv, ReqOK
<1>3. BlockFits(BlockAddr(t, i))
  BY <1>1, <1>2 DEF RoomInv, Room
<1> HIDE DEF i, t
<1>4. \A w \in Ways :
         /\ w # evict_way => /\ u.valid_array[w] = set[i].valid_array[w]
                             /\ u.tag_array[w] = set[i].tag_array[w]
         /\ w = evict_way => u.tag_array[w] = t
  BY <1>2 DEF SetUnits, InsertBlock
<1> HIDE DEF u
<1>5. \A j \in Indices : \A w \in Ways :
         set'[j].valid_array[w] => BlockFits(BlockAddr(set'[j].tag_array[w], j))
  <2> SUFFICES ASSUME NEW j \in Indices, NEW w \in Ways, set'[j].valid_array[w]
               PROVE  BlockFits(BlockAddr(set'[j].tag_array[w], j))
    OBVIOUS
  <2>1. CASE j # i
    BY <1>1, <1>2, <2>1 DEF RoomInv
  <2>2. CASE j = i /\ w # evict_way
    BY <1>1, <1>2, <1>4, <2>2 DEF RoomInv
  <2>3. CASE j = i /\ w = evict_way
    BY <1>1, <1>2, <1>3, <1>4, <2>3
  <2> QED  BY <2>1, <2>2, <2>3
<1>6. RoomInv'
  BY <1>1, <1>5 DEF RoomInv, Room
<1>7. LowRequestsInBounds'
  BY <1>1 DEF LowRequestsInBounds, NoTransaction
<1> QED  BY <1>6, <1>7

LEMMA RoomNext ==
  ASSUME ViewInv, SafePolicies, PrefetchRoom, RoomInv, LowRequestsInBounds, [Next]_vars
  PROVE  RoomInv' /\ LowRequestsInBounds'
<1>1. ASSUME NEW r \in Reqs, TryRegisterReq(r)
      PROVE  RoomInv' /\ LowRequestsInBounds'
  BY <1>1, RegisterRoom
<1>2. CASE CollectDone
  <2>1. /\ UNCHANGED <<set, prefetch_queue, prefetch_in_flight, prefetcher>>
        /\ UNCHANGED fsm /\ UNCHANGED cur /\ UNCHANGED transaction
    BY <1>2 DEF CollectDone, configVars
  <2> QED  BY <2>1, QuietRoom
<1>3. CASE TickIssuePrefetch \/ TickLookup \/ TickRefilled
  BY <1>3, IssuePrefetchRoom, TickLookupRoom, RefilledRoom
<1>4. CASE TickSend
  <2>1. /\ UNCHANGED <<set, prefetch_queue, prefetch_in_flight, prefetcher>>
        /\ UNCHANGED fsm /\ UNCHANGED cur /\ transaction'.state # "Sending"
    BY <1>4 DEF TickSend, Send, configVars
  <2> QED  BY <2>1, QuietRoom
<1>5. CASE TickWrittenBack
  <2>1. /\ UNCHANGED <<set, prefetch_queue, prefetch_in_flight, prefetcher>>
        /\ fsm = "WriteBack" /\ cur' = cur /\ transaction'.req = AllocateReq(cur.addr)
    BY <1>5 DEF TickWrittenBack, Goto, NewTransaction, configVars
  <2> QED  BY <2>1, QuietRoom
<1>6. CASE TickPenalty
  <2>1. /\ UNCHANGED <<set, prefetch_queue, prefetch_in_flight, prefetcher>>
        /\ fsm = "AdditionalMissPenalty" /\ cur' = cur /\ UNCHANGED transaction
    BY <1>6 DEF TickPenalty, Goto, configVars
  <2> QED  BY <2>1, QuietRoom
<1>7. CASE TickStored
  <2>1. /\ UNCHANGED <<set, prefetch_queue, prefetch_in_flight, prefetcher>>
        /\ fsm' = "Idle" /\ transaction'.state # "Sending"
    BY <1>7 DEF TickStored, Goto, NoTransaction, configVars
  <2> QED  BY <2>1, QuietRoom
<1>8. CASE LowStep \/ UNCHANGED vars
  <2>1. /\ UNCHANGED <<set, prefetch_queue, prefetch_in_flight, prefetcher>>
        /\ UNCHANGED fsm /\ UNCHANGED cur /\ UNCHANGED transaction
    BY <1>8 DEF LowStep, vars, cacheVars, configVars
  <2> QED  BY <2>1, QuietRoom
<1> QED  BY <1>1, <1>2, <1>3, <1>4, <1>5, <1>6, <1>7, <1>8 DEF Next, Tick

(* No request that leaves the cache, prefetches and write-backs included,    *)
(* reaches past the end of the device below, and no block waits twice in the *)
(* prefetch queue, when the block after every requested one is in memory.    *)
THEOREM LowRequestsStayInBounds ==
  ASSUME SafePolicies, PrefetchRoom
  PROVE  Spec => []LowRequestsInBounds
<1>1. Init => RoomInv /\ LowRequestsInBounds
  BY DEF Init, RoomInv, LowRequestsInBounds, NoTransaction, NewSetUnit
<1>2. ViewInv /\ RoomInv /\ LowRequestsInBounds /\ [Next]_vars => RoomInv' /\ LowRequestsInBounds'
  BY RoomNext
<1> QED  BY <1>1, <1>2, CacheViewInvariant, PTL DEF Spec
=============================================================================
