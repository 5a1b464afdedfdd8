---------------------------- MODULE GeneralCache ----------------------------
(* One blocking cache (general_cache/mod.rs) between one caller and the      *)
(* memory device below it.  The caller side and the device below both follow *)
(* the protocol of AbstractMem: the device below is an instance of it, and   *)
(* the cache is shown to implement it for its caller.                        *)
(*                                                                           *)
(* The state machine MainStates is split into the variable fsm (its variant) *)
(* and the variables cur, transaction, evict_way and counter (the payloads   *)
(* of the variants).  cur is the request being served: the payload of        *)
(* Lookup, caller_req of the two store states, and backup_req while a block  *)
(* is being replaced; exactly one of them is set outside Idle.  pending_req  *)
(* is never set between two calls, because try_register_req ticks twice.     *)
EXTENDS CacheSet

CONSTANTS NumSets,      \* a power of two
          MemSize,      \* bytes of the device below
          Reqs,         \* requests the caller may make
          MissPenalty,  \* with_miss_penalty
          WritePolicies, Prefetchers  \* what a configuration may choose

VARIABLES write_policy, prefetcher,   \* configuration, fixed by new
          set,                 \* the cache sets
          fsm, cur, transaction, evict_way, counter,
          prefetch_queue, prefetch_in_flight,
          caller,              \* the caller's request: its state, done cell and buffer
          low_mem, low_pending, low_phase, low_buf   \* the device below

cacheVars == <<set, fsm, cur, transaction, evict_way, counter,
               prefetch_queue, prefetch_in_flight, caller>>
lowVars == <<low_mem, low_pending, low_phase, low_buf>>
configVars == <<write_policy, prefetcher>>
vars == <<configVars, cacheVars, lowVars>>

Low == INSTANCE AbstractMem
         WITH mem <- low_mem, pending <- low_pending, phase <- low_phase, buf <- low_buf

ASSUME GeometryAssumption ==
    /\ NumSets \in Nat \ {0}
    /\ MemSize \in Nat
    /\ MemSize % BlockSize = 0
    /\ MissPenalty \in Nat

ASSUME KindAssumption ==
    /\ WritePolicies \subseteq {"WriteBackWriteAllocate", "WriteBackNoWriteAllocate",
                               "WriteThroughWriteAllocate", "WriteThroughNoWriteAllocate"}
    /\ Prefetchers \subseteq {"Null", "NextLine"}

Addr == 0 .. (MemSize - 1)
Indices == 0 .. (NumSets - 1)
NoReq == Low!NoReq

is_write_through == write_policy \in {"WriteThroughWriteAllocate", "WriteThroughNoWriteAllocate"}
is_no_write_allocate == write_policy \in {"WriteBackNoWriteAllocate", "WriteThroughNoWriteAllocate"}

-----------------------------------------------------------------------------
(* Addresses. *)

Offset(a) == a % BlockSize
Index(a) == (a \div BlockSize) % NumSets
Tag(a) == (a \div BlockSize) \div NumSets

(* Defect: the address of a block without its index. *)
BlockAddrNoIndex(tag, index) == (tag * NumSets) * BlockSize

(* The address of the first byte of the block with this tag and index. *)
BlockAddr(tag, index) == (tag * NumSets + index) * BlockSize

(* The address a with its offset bits cleared. *)
Align(a) == a - Offset(a)

(* The bytes of request r all lie in one block: what the check at the head   *)
(* of try_register_req is for.                                               *)
InOneBlock(r) == Offset(r.addr) + r.len <= BlockSize

(* The check itself.  Its 2 | 4 arm does not compare the length with the     *)
(* block size.                                                               *)
AlignmentCheck(r) ==
    \/ r.len = 1
    \/ r.len \in {2, 4} /\ r.addr % r.len = 0
    \/ /\ r.len \notin {1, 2, 4}
       /\ r.len > 0
       /\ r.len <= BlockSize
       /\ \E k \in 0 .. r.len : r.len = 2^k
       /\ r.addr % r.len = 0
       /\ InOneBlock(r)

(* Requests are made of loads and stores that lie in one block of a memory   *)
(* of MemSize bytes.                                                         *)
ASSUME ReqsAssumption ==
    \A r \in Reqs :
        /\ r.addr \in Addr
        /\ r.len \in Nat \ {0}
        /\ AlignmentCheck(r)
        /\ InOneBlock(r)
        /\ Low!InBounds(r)
        /\ \/ r = Low!Load(r.addr, r.len)
           \/ /\ r = Low!Store(r.addr, r.len, r.data)
              /\ r.data \in [0 .. (r.len - 1) -> Val]

(* The slice of a block that a load copies, and a block after a store. *)
Slice(block, r) == [i \in 0 .. (r.len - 1) |-> block[Offset(r.addr) + i]]

Merge(block, r) ==
    [o \in Offsets |->
        IF o \in Offset(r.addr) .. (Offset(r.addr) + r.len - 1)
        THEN r.data[o - Offset(r.addr)]
        ELSE block[o]]

-----------------------------------------------------------------------------
(* LowerMemoryTransaction (lower_memory.rs). *)

NoTransaction == [state |-> "None", req |-> NoReq]

NewTransaction(r) == [state |-> "Sending", req |-> r]

(* progress in the Sending state, when the device below answers Ok(()); when *)
(* it answers Err(()) nothing changes and the next tick tries again.         *)
Send ==
    /\ transaction.state = "Sending"
    /\ Low!Register(transaction.req)
    /\ transaction' = [state |-> "Waiting", req |-> transaction.req]

(* progress returns true: the request sent below is done. *)
Arrived ==
    /\ transaction.state = "Waiting"
    /\ Low!Collect

(* Defect: the offset bits are not cleared. *)
AllocateReqUnaligned(a) == Low!Load(a, BlockSize)

AllocateReq(a) == Low!Load(Align(a), BlockSize)

-----------------------------------------------------------------------------
(* The caller's request cell. *)

NoCall == [state |-> "none", req |-> NoReq, buf |-> <<>>]

Waiting(r) == [state |-> "waiting", req |-> r, buf |-> <<>>]

Done(data) == [state |-> "done", req |-> NoReq, buf |-> data]

-----------------------------------------------------------------------------
Init ==
    /\ write_policy \in WritePolicies
    /\ prefetcher \in Prefetchers
    /\ set = [i \in Indices |-> NewSetUnit]
    /\ fsm = "Idle"
    /\ cur = NoReq
    /\ transaction = NoTransaction
    /\ evict_way = 0
    /\ counter = 0
    /\ prefetch_queue = <<>>
    /\ prefetch_in_flight = FALSE
    /\ caller = NoCall
    /\ Low!Init

Goto(state, r) ==
    /\ fsm' = state
    /\ cur' = r
    /\ counter' = 0

(* Defect: the prefetcher runs two blocks ahead. *)
PredictTwoAhead(a) ==
    IF prefetcher = "NextLine" THEN {Align(a) + 2 * BlockSize} ELSE {}

(* predict of the prefetcher: the addresses to fetch ahead. *)
Predict(a) == IF prefetcher = "NextLine" THEN {Align(a) + BlockSize} ELSE {}

Queued(a) == \E i \in 1 .. Len(prefetch_queue) : prefetch_queue[i] = a

(* Defect: the in-flight flag is never cleared. *)
PrefetchHooksKeepFlag(r, is_hit) ==
    /\ UNCHANGED prefetch_in_flight
    /\ prefetch_queue' = IF prefetch_in_flight \/ Predict(r.addr) = {} THEN prefetch_queue
                         ELSE Append(prefetch_queue, Align(r.addr) + BlockSize)

(* The hooks that end every Lookup. *)
PrefetchHooks(r, is_hit) ==
    IF prefetch_in_flight
    THEN /\ prefetch_in_flight' = ~is_hit
         /\ UNCHANGED prefetch_queue
    ELSE /\ UNCHANGED prefetch_in_flight
         /\ IF \E a \in Predict(r.addr) : ~Queued(a)
            THEN \E a \in Predict(r.addr) : prefetch_queue' = Append(prefetch_queue, a)
            ELSE UNCHANGED prefetch_queue

(* The Lookup arm, one operator for each way through it.  A prefetch does    *)
(* not touch the caller's request.                                           *)
HitLoad(r, w) ==
    LET i == Index(r.addr)
    IN  /\ r.op = "Load"
        /\ set' = [set EXCEPT ![i] = TouchBlock(set[i], w)]
        /\ caller' = IF prefetch_in_flight
                     THEN caller
                     ELSE Done(Slice(set[i].data_array[w], r))
        /\ Goto("Idle", NoReq)
        /\ UNCHANGED <<transaction, evict_way>>

HitStoreThrough(r, w) ==
    LET i == Index(r.addr)
    IN  /\ r.op = "Store"
        /\ is_write_through
        /\ set' = [set EXCEPT ![i] = WriteBlockClean(set[i], w, Merge(set[i].data_array[w], r))]
        /\ transaction' = NewTransaction(r)
        /\ caller' = Waiting(r)
        /\ Goto("WriteThroughCommit", r)
        /\ UNCHANGED evict_way

HitStoreBack(r, w) ==
    LET i == Index(r.addr)
    IN  /\ r.op = "Store"
        /\ ~is_write_through
        /\ set' = [set EXCEPT ![i] = WriteBlock(set[i], w, Merge(set[i].data_array[w], r))]
        /\ caller' = Done(<<>>)
        /\ Goto("Idle", NoReq)
        /\ UNCHANGED <<transaction, evict_way>>

MissAround(r, m) ==
    /\ r.op = "Store"
    /\ is_no_write_allocate
    /\ set' = [set EXCEPT ![Index(r.addr)] = m.unit]
    /\ transaction' = NewTransaction(r)
    /\ caller' = Waiting(r)
    /\ Goto("WriteAround", r)
    /\ UNCHANGED evict_way

MissWriteBack(r, m) ==
    LET i == Index(r.addr)
    IN  /\ ~(r.op = "Store" /\ is_no_write_allocate)
        /\ m.need_write_back
        /\ set' = [set EXCEPT ![i] = TouchBlock(m.unit, m.way)]
        /\ transaction' = NewTransaction(
               Low!Store(BlockAddr(set[i].tag_array[m.way], i), BlockSize,
                         set[i].data_array[m.way]))
        /\ evict_way' = m.way
        /\ caller' = IF prefetch_in_flight THEN caller ELSE Waiting(r)
        /\ Goto("WriteBack", r)

MissAllocate(r, m) ==
    LET i == Index(r.addr)
    IN  /\ ~(r.op = "Store" /\ is_no_write_allocate)
        /\ ~m.need_write_back
        /\ set' = [set EXCEPT ![i] = m.unit]
        /\ transaction' = NewTransaction(
               Low!Load(BlockAddr(Tag(r.addr), i), BlockSize))
        /\ evict_way' = m.way
        /\ caller' = IF prefetch_in_flight THEN caller ELSE Waiting(r)
        /\ Goto("Allocate", r)

Lookup(r) ==
    LET u == set[Index(r.addr)]
        hit == IsHit(u, Tag(r.addr))
    IN  /\ IF hit
           THEN \E w \in HitWay(u, Tag(r.addr)) :
                    HitLoad(r, w) \/ HitStoreThrough(r, w) \/ HitStoreBack(r, w)
           ELSE \E m \in MissOutcomes(u) :
                    MissAround(r, m) \/ MissWriteBack(r, m) \/ MissAllocate(r, m)
        /\ PrefetchHooks(r, hit)

-----------------------------------------------------------------------------
(* try_register_req: Ok(()) only in Idle; the two ticks it makes take the    *)
(* request through the whole Lookup arm.                                     *)
TryRegisterReq(r) ==
    /\ caller.state = "none"
    /\ fsm = "Idle"
    /\ AlignmentCheck(r)
    /\ Lookup(r)
    /\ UNCHANGED <<configVars, lowVars>>

(* The caller sees done and drops the request. *)
CollectDone ==
    /\ caller.state = "done"
    /\ caller' = NoCall
    /\ UNCHANGED <<set, fsm, cur, transaction, evict_way, counter,
                   prefetch_queue, prefetch_in_flight, configVars, lowVars>>

TickIssuePrefetch ==
    /\ fsm = "Idle"
    /\ ~prefetch_in_flight
    /\ prefetch_queue # <<>>
    /\ prefetch_queue' = Tail(prefetch_queue)
    /\ prefetch_in_flight' = TRUE
    /\ Goto("Lookup", Low!Load(Head(prefetch_queue), BlockSize))
    /\ UNCHANGED <<set, transaction, evict_way, caller, configVars, lowVars>>

TickLookup ==
    /\ fsm = "Lookup"
    /\ Lookup(cur)
    /\ UNCHANGED <<configVars, lowVars>>

TickSend ==
    /\ fsm \in {"WriteBack", "Allocate", "WriteThroughCommit", "WriteAround"}
    /\ Send
    /\ UNCHANGED <<set, fsm, cur, evict_way, counter,
                   prefetch_queue, prefetch_in_flight, caller, configVars>>

TickWrittenBack ==
    /\ fsm = "WriteBack"
    /\ Arrived
    /\ transaction' = NewTransaction(AllocateReq(cur.addr))
    /\ Goto("Allocate", cur)
    /\ UNCHANGED <<set, evict_way, prefetch_queue, prefetch_in_flight, caller, configVars>>

TickRefilled ==
    LET i == Index(cur.addr)
    IN  /\ fsm = "Allocate"
        /\ Arrived
        /\ set' = [set EXCEPT ![i] = InsertBlock(set[i], evict_way, Tag(cur.addr), low_buf)]
        /\ transaction' = NoTransaction
        /\ evict_way' = 0
        /\ fsm' = "AdditionalMissPenalty"
        /\ counter' = MissPenalty
        /\ UNCHANGED <<cur, prefetch_queue, prefetch_in_flight, caller, configVars>>

(* Defect: the countdown goes on below zero. *)
TickPenaltyNoGuard ==
    /\ fsm = "AdditionalMissPenalty"
    /\ counter' = counter - 1
    /\ UNCHANGED <<fsm, cur, set, transaction, evict_way, prefetch_queue,
                   prefetch_in_flight, caller, configVars, lowVars>>

(* Defect: the countdown has no case for zero. *)
TickPenaltyNoExit ==
    /\ fsm = "AdditionalMissPenalty"
    /\ counter > 0
    /\ counter' = counter - 1
    /\ UNCHANGED <<fsm, cur, set, transaction, evict_way, prefetch_queue,
                   prefetch_in_flight, caller, configVars, lowVars>>

TickPenalty ==
    /\ fsm = "AdditionalMissPenalty"
    /\ IF counter > 0
       THEN counter' = counter - 1 /\ UNCHANGED <<fsm, cur>>
       ELSE Goto("Lookup", cur)
    /\ UNCHANGED <<set, transaction, evict_way, prefetch_queue, prefetch_in_flight,
                   caller, configVars, lowVars>>

TickStored ==
    /\ fsm \in {"WriteThroughCommit", "WriteAround"}
    /\ Arrived
    /\ transaction' = NoTransaction
    /\ caller' = Done(<<>>)
    /\ Goto("Idle", NoReq)
    /\ UNCHANGED <<set, evict_way, prefetch_queue, prefetch_in_flight, configVars>>

Tick ==
    \/ TickIssuePrefetch
    \/ TickLookup
    \/ TickSend
    \/ TickWrittenBack
    \/ TickRefilled
    \/ TickPenalty
    \/ TickStored

(* The device below works on the request it accepted. *)
LowStep ==
    /\ Low!Perform \/ Low!Ack
    /\ UNCHANGED <<configVars, cacheVars>>

Next ==
    \/ \E r \in Reqs : TryRegisterReq(r)
    \/ CollectDone
    \/ Tick
    \/ LowStep

(* The run loop ticks every component in every cycle, and the device below   *)
(* serves what it accepted.  Nothing obliges the caller to make requests.    *)
Fairness == WF_vars(Tick) /\ WF_vars(LowStep)

Spec == Init /\ [][Next]_vars /\ Fairness

-----------------------------------------------------------------------------
(* Correctness. *)

States == {"Idle", "Lookup", "WriteBack", "Allocate", "AdditionalMissPenalty",
           "WriteThroughCommit", "WriteAround"}

(* The cache keeps its types: no way out of range, no countdown below zero.  *)
TypeOK ==
    /\ write_policy \in WritePolicies /\ prefetcher \in Prefetchers
    /\ set \in [Indices -> SetUnits]
    /\ fsm \in States
    /\ transaction.state \in {"None", "Sending", "Waiting"}
    /\ evict_way \in Ways
    /\ counter \in 0 .. MissPenalty
    /\ prefetch_queue \in Seq(Nat)
    /\ prefetch_in_flight \in BOOLEAN
    /\ caller.state \in {"none", "waiting", "done"}
    /\ low_mem \in [Addr -> Val]
    /\ low_phase \in Low!Phases

(* The byte at address a as the caller sees it: the cached copy if there is  *)
(* one, else the device below.                                               *)
HeldIn(a, w) == Holds(set[Index(a)], w, Tag(a))

Dirty(a, w) == set[Index(a)].dirty_array[w]

Byte(a, w) == set[Index(a)].data_array[w][Offset(a)]

Cached(a) == \E w \in Ways : HeldIn(a, w)

LogicalMem ==
    [a \in Addr |-> IF Cached(a) THEN Byte(a, CHOOSE w \in Ways : HeldIn(a, w))
                    ELSE low_mem[a]]

(* No block is cached twice: the linear scan of tag_compare and the refill   *)
(* that follows a miss never leave two valid ways of a set with one tag, so  *)
(* a store cannot update one copy while a later load reads the other.        *)
UniqueTags ==
    \A i \in Indices : \A v, w \in Ways :
        /\ set[i].valid_array[v] /\ set[i].valid_array[w]
        /\ set[i].tag_array[v] = set[i].tag_array[w]
        => v = w

(* A valid line whose dirty bit is clear agrees with the device below, byte  *)
(* by byte, except for the bytes whose write-through is still on its way: a  *)
(* clean line may be dropped without a write-back.                           *)
CleanLinesAgree ==
    \A a \in Addr : \A w \in Ways :
        HeldIn(a, w) /\ ~Dirty(a, w) =>
            \/ Byte(a, w) = low_mem[a]
            \/ fsm = "WriteThroughCommit" /\ a \in Low!Bytes(cur)

(* A dirty line is replaced, or its dirty bit cleared, only when the device  *)
(* below holds every byte of it: no store that was acknowledged is lost when *)
(* its block is evicted.                                                     *)
DropsOnlyWritten ==
    \A a \in Addr : \A w \in Ways :
        HeldIn(a, w) /\ Dirty(a, w) /\ ~(HeldIn(a, w)' /\ Dirty(a, w)') =>
            Byte(a, w) = low_mem[a]

(* No step of the cache loses a store, DropsOnlyWritten above. *)
NoLostWrite == [][DropsOnlyWritten]_vars

(* The valid bits that the replacement policy keeps for itself never claim a *)
(* way that the cache set does not hold, so the assertion in read_block      *)
(* cannot fail when a victim is read for its write-back.                     *)
VictimsAreHeld ==
    \A i \in Indices : \A w \in Ways : set[i].rp.valid[w] => set[i].valid_array[w]

(* The block that a refill fetched is still cached when the request is       *)
(* looked up again after the miss penalty: the second lookup is a hit.       *)
RefillSticks == fsm = "AdditionalMissPenalty" => Cached(cur.addr)

(* No request that leaves the cache reaches past the end of the device below *)
(* (the out-of-bound assertions of SimpleMem and SimpleDram), prefetches     *)
(* included, and no block waits twice in the prefetch queue.                 *)
LowRequestsInBounds ==
    /\ transaction.state = "Sending" => Low!InBounds(transaction.req)
    /\ \A m, n \in 1 .. Len(prefetch_queue) :
          prefetch_queue[m] = prefetch_queue[n] => m = n

(* The phase of the caller's request: a store that is written through takes  *)
(* effect when the cache copy is updated, a store that is written around     *)
(* when the device below performs it.                                        *)
CallerPhase ==
    CASE caller.state = "none" -> "free"
      [] caller.state = "done" -> "done"
      [] caller.state = "waiting" ->
            IF \/ fsm = "WriteThroughCommit"
               \/ /\ fsm = "WriteAround"
                  /\ transaction.state = "Waiting"
                  /\ low_phase # "accepted"
            THEN "performed"
            ELSE "accepted"

Mem == INSTANCE AbstractMem
         WITH mem <- LogicalMem, pending <- caller.req, phase <- CallerPhase,
              buf <- caller.buf

(* The caller sees a plain memory, whatever the cache holds: every request   *)
(* takes effect once, at one instant, and prefetches, write-backs and        *)
(* refills are invisible.                                                    *)
ImplementsMem == Mem!Spec

(* Every request that try_register_req accepted is done in the end. *)
Served == caller.state = "waiting" ~> caller.state = "done"

(* Every prefetch ends, so the flag that holds the later ones back is        *)
(* cleared again.                                                            *)
PrefetchEnds == prefetch_in_flight ~> ~prefetch_in_flight
=============================================================================
