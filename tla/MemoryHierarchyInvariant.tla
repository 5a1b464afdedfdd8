---------------------- MODULE MemoryHierarchyInvariant ----------------------
(* The inductive invariant behind AnswersCurrent, NothingLost and            *)
(* BoundedOvertaking.  What holds of one cache is stated once, for a cache c *)
(* in state k over a level with contents low, and used three times.          *)
EXTENDS MemoryHierarchy

(* The blocks cache c is asked for from above, and those it asks for below.  *)
(* Only a demand access is predicted from, but what is a prefetch in an L1   *)
(* is a demand access in L2.                                                 *)
WithNext(g, c, bs) == IF c \in g.prefetching THEN bs \cup {b + 1 : b \in bs} ELSE bs

Demand(g, c) ==
    CASE c = "L1I" -> g.code
      [] c = "L1D" -> g.data
      [] c = "L2" -> WithNext(g, "L1I", g.code) \cup WithNext(g, "L1D", g.data)

Reach(g, c) == WithNext(g, c, Demand(g, c))

(* The blocks behind the used ones that are prefetched are in memory: predict*)
(* does not know where the memory ends.                                      *)
PrefetchRoom == \A g \in Configs : Reach(g, "L2") \subseteq Blocks

Callers(c) == CASE c = "L1I" -> {"IF", "nobody"}
                [] c = "L1D" -> {"MEM"}
                [] c = "L2" -> {"L1I", "L1D"}

-----------------------------------------------------------------------------
(* A request that cache c may be working on.  L1I gets no stores. *)
Servable(g, c, r) ==
    /\ r \in Requests /\ r.op # "None"
    /\ r.op = "Store" => r.val \in Val /\ r.from # "self" /\ c # "L1I"
    /\ IF r.from = "self" THEN r.block \in Reach(g, c)
       ELSE r.from \in Callers(c) /\ r.block \in Demand(g, c)

(* The transaction is the one of the state; the victim of a write-back is    *)
(* still in its way, and a block that is being fetched or written around is  *)
(* not cached.                                                               *)
ControlInv(g, c, k) ==
    /\ k.fsm = "Idle" => k.req = NoReq
    /\ k.fsm # "Idle" => Servable(g, c, k.req)
    /\ IF k.fsm \in {"Idle", "Lookup", "AdditionalMissPenalty"}
       THEN k.transaction = NoTransaction ELSE k.transaction.state # "None"
    /\ k.transaction.done => k.transaction.state = "Waiting"
    /\ k.fsm = "WriteBack" =>
         LET victim == k.lines[k.evict_way]
         IN  /\ victim.valid /\ victim.dirty
             /\ k.transaction.req = StoreOf(victim.tag, victim.val, c)
    /\ k.fsm = "Allocate" => k.transaction.req = LoadOf(k.req.block, c)
    /\ k.fsm \in {"WriteThroughCommit", "WriteAround"} =>
         /\ k.req.op = "Store"
         /\ k.transaction.req = StoreOf(k.req.block, k.req.val, c)
    /\ k.fsm \in {"WriteBack", "Allocate", "WriteAround"} => Holders(k, k.req.block) = {}
    /\ k.fsm = "WriteThroughCommit" =>
         \E w \in Holders(k, k.req.block) : k.lines[w].val = k.req.val

(* Every line is of a block the cache was asked for, and none of them is     *)
(* cached twice; only a write-back cache has dirty lines, and only of blocks *)
(* that were stored to.                                                      *)
LinesInv(g, c, k) ==
    /\ \A w \in Ways(c) :
         /\ k.lines[w].valid => k.lines[w].tag \in Reach(g, c) /\ k.lines[w].val \in Val
         /\ k.lines[w].dirty => /\ k.lines[w].valid
                                /\ g.write_policy[c] = "WriteBackWriteAllocate"
                                /\ c # "L1I" /\ k.lines[w].tag \in Demand(g, c)
    /\ \A v, w \in Ways(c) :
         /\ k.lines[v].valid /\ k.lines[w].valid
         /\ k.lines[v].tag = k.lines[w].tag
         => v = w

(* Clean lines agree with the level below, but for a write-through on its    *)
(* way, and so does the victim while its successor is fetched.  An answer    *)
(* from below is what is there, and a store that is done is there.           *)
AgreeInv(k, low) ==
    /\ \A w \in DOMAIN k.lines :
         /\ k.lines[w].valid /\ k.lines[w].tag \in DOMAIN low
         /\ ~k.lines[w].dirty \/ (k.fsm = "Allocate" /\ w = k.evict_way)
         => \/ k.lines[w].val = low[k.lines[w].tag]
            \/ /\ k.fsm = "WriteThroughCommit" /\ ~k.transaction.done
               /\ k.lines[w].tag = k.req.block
    /\ k.transaction.done /\ k.transaction.req.block \in DOMAIN low =>
         low[k.transaction.req.block] =
           IF k.transaction.req.op = "Load" THEN k.transaction.buf ELSE k.transaction.req.val

QueueInv(g, c, k) == \A i \in DOMAIN k.prefetch_queue : k.prefetch_queue[i] \in Reach(g, c)

LevelInv(g, c, k, low) ==
    /\ k \in CacheStates(c)
    /\ k.transaction.done /\ k.transaction.req.op = "Load" => k.transaction.buf \in Val
    /\ ControlInv(g, c, k)
    /\ LinesInv(g, c, k)
    /\ AgreeInv(k, low)
    /\ QueueInv(g, c, k)

(* The contents of a level as its caller sees them. *)
View(k, low) ==
    [b \in DOMAIN low |->
       IF Holders(k, b) = {} THEN low[b] ELSE k.lines[CHOOSE w \in Holders(k, b) : TRUE].val]

-----------------------------------------------------------------------------
(* The three caches.  The data of the program is current below L1D only when *)
(* it has been written back, so L1I is compared with the rest.               *)
L2View == View(cache["L2"], main_mem)

CodeView == [b \in Blocks \ config.data |-> stored[b]]

CachesInv ==
    /\ LevelInv(config, "L2", cache["L2"], main_mem)
    /\ LevelInv(config, "L1D", cache["L1D"], L2View)
    /\ LevelInv(config, "L1I", cache["L1I"], CodeView)

(* The store L1D is working on is in stored and not in any cache yet. *)
Pending(k, b) ==
    /\ k.fsm \in {"Lookup", "WriteBack", "Allocate", "AdditionalMissPenalty", "WriteAround"}
    /\ k.req.op = "Store" /\ k.req.block = b
    /\ ~(k.fsm = "WriteAround" /\ k.transaction.done)

StoredBy(k, low, st) ==
    \A b \in Blocks : st[b] = IF Pending(k, b) THEN k.req.val ELSE View(k, low)[b]

StoredInv == StoredBy(cache["L1D"], L2View, stored)

(* Who waits for whom, with the same request on both sides. *)
LinkInv ==
    /\ \A c \in {"L1I", "L1D"} :
         LET t == cache[c].transaction
         IN  /\ (t.state = "Waiting" /\ ~t.done) <=> cache["L2"].req.from = c
             /\ cache["L2"].req.from = c => cache["L2"].req = t.req
    /\ LET t == cache["L2"].transaction
       IN  /\ (t.state = "Waiting" /\ ~t.done) <=> mem_req.req # NoReq
           /\ mem_req.req # NoReq => mem_req.req = t.req
    /\ data.state = "waiting" <=> cache["L1D"].req.from = "MEM"
    /\ data.state = "waiting" => /\ data.op = cache["L1D"].req.op
                                 /\ data.block = cache["L1D"].req.block
    /\ fetch.state = "waiting" <=> cache["L1I"].req.from = "IF"
    /\ fetch.state = "waiting" => fetch.block = cache["L1I"].req.block
    /\ fetch.state # "none" => fetch.block \in config.code

(* L1D gets in before L1I only while L2 is idle and L1I has just started to  *)
(* send, and L1I before L1D only while L1I does not wait yet.                *)
OvertakeInv ==
    /\ BoundedOvertaking
    /\ \A c \in {"L1I", "L1D"} : overtaken[c] > 0 => cache[c].transaction.state = "Sending"
    /\ overtaken["L1I"] > 0 /\ turn = "L1D" => cache["L2"].fsm # "Idle"
    /\ overtaken["L1D"] > 0 =>
         /\ \/ cache["L1I"].transaction.state = "Waiting"
            \/ turn = "L1D" /\ cache["L2"].fsm = "Idle"
         /\ cache["L1I"].transaction.done => cache["L2"].fsm = "Idle"
         /\ turn = "L2" => cache["L2"].fsm # "Idle"

IndInv ==
    /\ TypeOK
    /\ CachesInv
    /\ StoredInv
    /\ LinkInv
    /\ AnswersCurrent
    /\ OvertakeInv
=============================================================================
