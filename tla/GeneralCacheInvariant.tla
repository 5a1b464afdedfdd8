----------------------- MODULE GeneralCacheInvariant -----------------------
(* The inductive invariant behind UniqueTags, CleanLinesAgree and            *)
(* NoLostWrite.                                                              *)
EXTENDS GeneralCache

(* The configurations the argument covers: under write-back without          *)
(* write-allocate a store miss takes a way away from the replacement policy  *)
(* while the dirty line stays, and the next miss overwrites that line.       *)
SafePolicies == "WriteBackNoWriteAllocate" \notin WritePolicies

ReqOK(r) ==
    /\ r.addr \in Nat
    /\ r.len \in Nat \ {0}
    /\ InOneBlock(r)
    /\ \/ r.op = "Load"
       \/ r.op = "Store" /\ r.data \in [0 .. (r.len - 1) -> Val]

Replacing == fsm \in {"WriteBack", "Allocate"}

Storing == fsm \in {"WriteThroughCommit", "WriteAround"}

(* What the payloads of the state machine hold in each of its states. *)
ControlInv ==
    /\ fsm # "Idle" => ReqOK(cur)
    /\ prefetch_in_flight => fsm # "Idle" /\ ~Storing /\ cur.op = "Load"
    /\ Storing => cur.op = "Store"
    /\ fsm = "WriteThroughCommit" => is_write_through
    /\ fsm = "WriteAround" => is_no_write_allocate
    /\ (transaction.state = "None") <=> ~(Replacing \/ Storing)
    /\ Storing => transaction.req = cur
    /\ fsm = "Allocate" => transaction.req = AllocateReq(cur.addr)
    /\ fsm = "WriteBack" =>
         LET u == set[Index(cur.addr)]
         IN  /\ u.valid_array[evict_way]
             /\ transaction.req = Low!Store(BlockAddr(u.tag_array[evict_way], Index(cur.addr)),
                                            BlockSize, u.data_array[evict_way])

(* The device below works on the transaction of this cache only, and has     *)
(* done what it was asked for when it says so.                               *)
LowInv ==
    /\ transaction.state # "Waiting" => low_phase = "free"
    /\ transaction.state = "Waiting" =>
         /\ low_phase # "free"
         /\ Low!InBounds(transaction.req)
         /\ low_phase # "done" => low_pending = transaction.req
         /\ low_phase = "performed" => transaction.req.op = "Store"
         /\ low_phase \in {"performed", "done"} /\ transaction.req.op = "Store" =>
              \A a \in Low!Bytes(transaction.req) :
                  low_mem[a] = transaction.req.data[a - transaction.req.addr]
         /\ low_phase = "done" /\ transaction.req.op = "Load" =>
              low_buf = Low!Fetch(low_mem, transaction.req)

(* The block being fetched, or bypassed, is not cached. *)
MissInv ==
    Replacing \/ fsm = "WriteAround" =>
        \A w \in Ways : ~Holds(set[Index(cur.addr)], w, Tag(cur.addr))

(* While a block is fetched nothing is lost if its victim is overwritten. *)
VictimInv ==
    fsm = "Allocate" =>
        \A a \in Addr :
            Index(a) = Index(cur.addr) /\ HeldIn(a, evict_way) => Byte(a, evict_way) = low_mem[a]

(* The bytes of a write-through in progress, where they are cached. *)
ThroughInv ==
    fsm = "WriteThroughCommit" =>
        \A a \in Addr : \A w \in Ways :
            HeldIn(a, w) /\ a \in Low!Bytes(cur) => Byte(a, w) = cur.data[a - cur.addr]

(* A write-through cache has no dirty line, and only a valid line is dirty. *)
DirtyInv ==
    \A i \in Indices : \A w \in Ways :
        set[i].dirty_array[w] => ~is_write_through /\ set[i].valid_array[w]

(* The replacement policy of a write-back cache knows every valid line,      *)
(* unless it is the victim of the replacement in progress.                   *)
KnownInv ==
    ~is_write_through =>
        \A i \in Indices : \A w \in Ways :
            set[i].valid_array[w] =>
                \/ set[i].rp.valid[w]
                \/ Replacing /\ i = Index(cur.addr) /\ w = evict_way

(* Prefetches are made of whole blocks. *)
QueueInv == \A n \in 1 .. Len(prefetch_queue) : Offset(prefetch_queue[n]) = 0

IndInv ==
    /\ TypeOK
    /\ ControlInv
    /\ QueueInv
    /\ LowInv
    /\ MissInv
    /\ VictimInv
    /\ ThroughInv
    /\ DirtyInv
    /\ KnownInv
    /\ VictimsAreHeld
    /\ UniqueTags
    /\ CleanLinesAgree

-----------------------------------------------------------------------------
(* What the refinement of AbstractMem needs besides. *)

(* The caller waits exactly while its own request is in the state machine;   *)
(* a prefetch never stands in the way of its request cell.                   *)
CallerInv ==
    /\ caller.state = "none" => caller = NoCall
    /\ caller.state = "done" => caller = Done(caller.buf)
    /\ caller.state = "waiting" => caller = Waiting(cur) /\ Low!InBounds(cur)
    /\ (caller.state = "waiting") <=> (fsm # "Idle" /\ ~prefetch_in_flight)

(* The block of a store that is being written through stays cached. *)
ThroughHeld == fsm = "WriteThroughCommit" => Cached(cur.addr)

ViewInv == IndInv /\ CallerInv /\ ThroughHeld /\ RefillSticks

-----------------------------------------------------------------------------
(* What LowRequestsInBounds needs besides. *)

(* The block after any the caller asks for is in memory too, if blocks are   *)
(* fetched ahead: predict does not know where the memory ends.               *)
PrefetchRoom ==
    "NextLine" \in Prefetchers => \A r \in Reqs : Align(r.addr) + 2 * BlockSize <= MemSize

(* The block that starts at address a is in memory. *)
BlockFits(a) == a + BlockSize <= MemSize

(* Room for the request being served, and for the block predicted from it.   *)
(* A prefetch predicts nothing.                                              *)
Room(r) ==
    /\ BlockFits(Align(r.addr))
    /\ prefetch_in_flight \/ (prefetcher = "NextLine" => BlockFits(Align(r.addr) + BlockSize))

(* The queued blocks, the cached ones and the one being fetched are in       *)
(* memory.                                                                   *)
RoomInv ==
    /\ \A n \in 1 .. Len(prefetch_queue) : BlockFits(prefetch_queue[n])
    /\ \A i \in Indices : \A w \in Ways :
          set[i].valid_array[w] => BlockFits(BlockAddr(set[i].tag_array[w], i))
    /\ fsm # "Idle" => Room(cur)
=============================================================================
