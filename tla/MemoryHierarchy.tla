--------------------------- MODULE MemoryHierarchy ---------------------------
(* The caches as PipelineProcessor wires them: L1I and L1D share L2, which   *)
(* is backed by the main memory.  One cycle runs the MEM stage, the IF stage *)
(* and then ticks L1I, L1D, L2 and the main memory, in this order; each is   *)
(* an action of its own, and turn says whose it is.                          *)
(*                                                                           *)
(* A cache here is the state machine of GeneralCache with the blocks as the  *)
(* unit of transfer: one set, a value per block, and as the victim of a miss *)
(* any way (what a replacement policy promises is in ReplacementPolicy, what *)
(* one cache does within a block in GeneralCache).  What is new is that L2   *)
(* has two callers, and that the IF stage may abandon its request.           *)
EXTENDS Integers, Sequences, FiniteSets

CONSTANTS NumBlocks,      \* blocks of main memory
          Val,            \* what a block may hold
          Image,          \* the initial contents of main memory
          NumWays,        \* ways of each cache, by name
          Configs,        \* write policies of the caches, by name; the caches that
                          \* have the next-line prefetcher; and the workload: the
                          \* blocks IF fetches and those MEM loads and stores
          MissPenalty,
          MemLatency      \* MAIN_MEM_LATENCY

Names == {"L1I", "L1D", "L2"}
Blocks == 0 .. (NumBlocks - 1)
Ways(c) == 1 .. NumWays[c]
Policies == {"WriteBackWriteAllocate", "WriteThroughWriteAllocate",
             "WriteThroughNoWriteAllocate"}

ASSUME HierarchyAssumption ==
    /\ NumBlocks \in Nat \ {0}
    /\ \A c \in Names : NumWays[c] \in Nat \ {0}
    /\ Configs \subseteq [write_policy : [Names -> Policies], prefetching : SUBSET Names,
                           code : SUBSET Blocks, data : SUBSET Blocks]
    /\ \A g \in Configs : g.code \cap g.data = {}
    /\ Image \in [Blocks -> Val]
    /\ MissPenalty \in Nat /\ MemLatency \in Nat

VARIABLES turn,
          config,      \* one of Configs, fixed
          cache,       \* the three caches, by name
          main_mem,    \* contents of the main memory
          mem_req,     \* its pending request and countdown
          fetch,       \* the request of the IF stage
          data,        \* the request of the MEM stage
          stored,      \* history: what was stored last in every block
          overtaken    \* history: how often L2 took the other L1's request
                       \* while this one was trying to send

vars == <<turn, config, cache, main_mem, mem_req, fetch, data, stored, overtaken>>

-----------------------------------------------------------------------------
(* A request carries the name of whoever holds its done cell: "IF", "MEM",   *)
(* an L1 cache, "L2", "self" for a prefetch, or "nobody" once abandoned.     *)

NoReq == [op |-> "None", block |-> 0, val |-> 0, from |-> "nobody"]

LoadOf(b, from) == [op |-> "Load", block |-> b, val |-> 0, from |-> from]

StoreOf(b, v, from) == [op |-> "Store", block |-> b, val |-> v, from |-> from]

NoCall == [state |-> "none", op |-> "None", block |-> 0, buf |-> 0]

NoTransaction == [state |-> "None", req |-> NoReq, done |-> FALSE, buf |-> 0]

NewTransaction(r) == [state |-> "Sending", req |-> r, done |-> FALSE, buf |-> 0]

EmptyLine == [valid |-> FALSE, tag |-> 0, dirty |-> FALSE, val |-> 0]

NewCache(c) ==
    [fsm |-> "Idle", req |-> NoReq, transaction |-> NoTransaction, evict_way |-> 1,
     counter |-> 0, lines |-> [w \in Ways(c) |-> EmptyLine],
     prefetch_queue |-> <<>>, prefetch_in_flight |-> FALSE]

Init ==
    /\ turn = "MEM"
    /\ config \in Configs
    /\ cache = [c \in Names |-> NewCache(c)]
    /\ main_mem = Image
    /\ mem_req = [req |-> NoReq, countdown |-> 0]
    /\ fetch = NoCall
    /\ data = NoCall
    /\ stored = main_mem
    /\ overtaken = [c \in {"L1I", "L1D"} |-> 0]

-----------------------------------------------------------------------------
(* The Lookup arm of cache c in state k for request r: the states it may     *)
(* leave the cache in, and whether and with what it completes r.             *)

Outcome(k, answered, v) == [cache |-> k, answered |-> answered, val |-> v]

Goto(k, state, r) == [k EXCEPT !.fsm = state, !.req = r]

Idle(k) == [k EXCEPT !.fsm = "Idle", !.req = NoReq, !.transaction = NoTransaction]

Start(k, state, r, lower) == [Goto(k, state, r) EXCEPT !.transaction = NewTransaction(lower)]

WriteThrough(c) == config.write_policy[c] # "WriteBackWriteAllocate"

(* Defect: a store that hits leaves its line clean. *)
HitOnForgetsDirty(c, k, r, w) ==
    IF r.op = "Load" THEN Outcome(Idle(k), TRUE, k.lines[w].val)
    ELSE Outcome(Idle([k EXCEPT !.lines[w].val = r.val]), TRUE, 0)

HitOn(c, k, r, w) ==
    IF r.op = "Load" THEN Outcome(Idle(k), TRUE, k.lines[w].val)
    ELSE IF WriteThrough(c)
    THEN Outcome(Start([k EXCEPT !.lines[w].val = r.val, !.lines[w].dirty = FALSE],
                       "WriteThroughCommit", r, StoreOf(r.block, r.val, c)), FALSE, 0)
    ELSE Outcome(Idle([k EXCEPT !.lines[w].val = r.val, !.lines[w].dirty = TRUE]), TRUE, 0)

(* Defect: a victim is dropped although it is dirty. *)
MissOnDropsVictim(c, k, r, w) ==
    Outcome(Start([k EXCEPT !.evict_way = w], "Allocate", r, LoadOf(r.block, c)), FALSE, 0)

MissOn(c, k, r, w) ==
    LET victim == k.lines[w]
        evicting == [k EXCEPT !.evict_way = w]
    IN  IF r.op = "Store" /\ config.write_policy[c] = "WriteThroughNoWriteAllocate"
        THEN Outcome(Start(k, "WriteAround", r, StoreOf(r.block, r.val, c)), FALSE, 0)
        ELSE IF victim.valid /\ victim.dirty
        THEN Outcome(Start(evicting, "WriteBack", r, StoreOf(victim.tag, victim.val, c)), FALSE, 0)
        ELSE Outcome(Start(evicting, "Allocate", r, LoadOf(r.block, c)), FALSE, 0)

Holders(k, b) == {w \in DOMAIN k.lines : k.lines[w].valid /\ k.lines[w].tag = b}

(* A prefetch that hits is over; a demand access asks for the next block. *)
PrefetchHooks(c, k, r, hit) ==
    IF r.from = "self" THEN [k EXCEPT !.prefetch_in_flight = ~hit]
    ELSE IF /\ c \in config.prefetching
            /\ \A i \in DOMAIN k.prefetch_queue : k.prefetch_queue[i] # r.block + 1
    THEN [k EXCEPT !.prefetch_queue = Append(@, r.block + 1)]
    ELSE k

Lookup(c, k, r) ==
    LET hits == Holders(k, r.block)
        hooked == PrefetchHooks(c, k, r, hits # {})
    IN  IF hits # {} THEN {HitOn(c, hooked, r, w) : w \in hits}
        ELSE {MissOn(c, hooked, r, w) : w \in Ways(c)}

(* The done cell of r is set: the cache above sees it in its transaction. *)
Notify(caches, r, o) ==
    IF o.answered /\ r.from \in Names
    THEN [caches EXCEPT ![r.from].transaction.done = TRUE, ![r.from].transaction.buf = o.val]
    ELSE caches

(* ... and a stage of the pipeline in the request it keeps. *)
NotifyStages(r, o) ==
    /\ fetch' = IF o.answered /\ r.from = "IF" THEN [fetch EXCEPT !.state = "done", !.buf = o.val]
                ELSE fetch
    /\ data' = IF o.answered /\ r.from = "MEM" THEN [data EXCEPT !.state = "done", !.buf = o.val]
               ELSE data

Becomes(c, r, o) == Notify([cache EXCEPT ![c] = o.cache], r, o)

-----------------------------------------------------------------------------
(* The stages.  A stage registers its request when the cache is idle; while  *)
(* the cache is busy it keeps trying, which changes nothing here.            *)

MemRegister ==
    /\ data.state = "none"
    /\ cache["L1D"].fsm = "Idle"
    /\ \E b \in config.data, v \in Val : \E r \in {LoadOf(b, "MEM"), StoreOf(b, v, "MEM")} :
       \E o \in Lookup("L1D", cache["L1D"], r) :
         /\ cache' = Becomes("L1D", r, o)
         /\ data' = [state |-> IF o.answered THEN "done" ELSE "waiting",
                     op |-> r.op, block |-> r.block, buf |-> o.val]
         /\ stored' = IF r.op = "Store" THEN [stored EXCEPT ![r.block] = r.val] ELSE stored

MemStage ==
    /\ turn = "MEM"
    /\ \/ MemRegister
       \/ data.state = "done" /\ data' = NoCall /\ UNCHANGED <<cache, stored>>
       \/ UNCHANGED <<data, cache, stored>>
    /\ turn' = "IF"
    /\ UNCHANGED <<config, main_mem, mem_req, fetch, overtaken>>

FetchRegister ==
    /\ fetch.state = "none"
    /\ cache["L1I"].fsm = "Idle"
    /\ \E b \in config.code : \E o \in Lookup("L1I", cache["L1I"], LoadOf(b, "IF")) :
         /\ cache' = Becomes("L1I", LoadOf(b, "IF"), o)
         /\ fetch' = [state |-> IF o.answered THEN "done" ELSE "waiting",
                      op |-> "Load", block |-> b, buf |-> o.val]

(* Branch recovery: IF drops its request, the cache goes on with it. *)
FetchAbandon ==
    /\ fetch.state = "waiting"
    /\ fetch' = NoCall
    /\ cache' = [cache EXCEPT !["L1I"].req.from = "nobody"]

IfStage ==
    /\ turn = "IF"
    /\ \/ FetchRegister
       \/ FetchAbandon
       \/ fetch.state = "done" /\ fetch' = NoCall /\ UNCHANGED cache
       \/ UNCHANGED <<fetch, cache>>
    /\ turn' = "L1I"
    /\ UNCHANGED <<config, main_mem, mem_req, data, stored, overtaken>>

-----------------------------------------------------------------------------
(* The tick of cache c.  A request of an L1 that L2 accepts is looked up     *)
(* there within the call, and a hit is answered before the call returns.     *)

QueuedPrefetch(k) == k.fsm = "Idle" /\ ~k.prefetch_in_flight /\ k.prefetch_queue # <<>>

Prefetching(k) ==
    [Goto(k, "Lookup", LoadOf(Head(k.prefetch_queue), "self")) EXCEPT
       !.prefetch_queue = Tail(@), !.prefetch_in_flight = TRUE]

TakePrefetch(c) ==
    /\ QueuedPrefetch(cache[c])
    /\ cache' = [cache EXCEPT ![c] = Prefetching(@)]
    /\ UNCHANGED <<fetch, data, mem_req, overtaken>>

TickLookup(c) ==
    /\ cache[c].fsm = "Lookup"
    /\ \E o \in Lookup(c, cache[c], cache[c].req) :
         /\ cache' = Becomes(c, cache[c].req, o)
         /\ NotifyStages(cache[c].req, o)
    /\ UNCHANGED <<mem_req, overtaken>>

Other(c) == IF c = "L1I" THEN "L1D" ELSE "L1I"

(* Defect: the data cache waits until the instruction cache needs nothing. *)
SendToL2Yielding(c) ==
    /\ c # "L2" /\ cache[c].transaction.state = "Sending"
    /\ \/ /\ cache["L2"].fsm # "Idle" \/ (c = "L1D" /\ cache["L1I"].fsm # "Idle")
          /\ UNCHANGED <<cache, overtaken>>
       \/ /\ cache["L2"].fsm = "Idle" /\ (c = "L1D" => cache["L1I"].fsm = "Idle")
          /\ \E o \in Lookup("L2", cache["L2"], cache[c].transaction.req) :
               cache' = Notify([cache EXCEPT !["L2"] = o.cache,
                                             ![c].transaction.state = "Waiting"],
                               cache[c].transaction.req, o)
          /\ overtaken' = [overtaken EXCEPT
               ![c] = 0,
               ![Other(c)] = @ + (IF cache[Other(c)].transaction.state = "Sending" THEN 1 ELSE 0)]
    /\ UNCHANGED <<fetch, data, mem_req>>

SendToL2(c) ==
    /\ c # "L2" /\ cache[c].transaction.state = "Sending"
    /\ \/ cache["L2"].fsm # "Idle" /\ UNCHANGED <<cache, overtaken>>
       \/ /\ cache["L2"].fsm = "Idle"
          /\ \E o \in Lookup("L2", cache["L2"], cache[c].transaction.req) :
               cache' = Notify([cache EXCEPT !["L2"] = o.cache,
                                             ![c].transaction.state = "Waiting"],
                               cache[c].transaction.req, o)
          /\ overtaken' = [overtaken EXCEPT
               ![c] = 0,
               ![Other(c)] = @ + (IF cache[Other(c)].transaction.state = "Sending" THEN 1 ELSE 0)]
    /\ UNCHANGED <<fetch, data, mem_req>>

SendToMemory(c) ==
    /\ c = "L2" /\ cache[c].transaction.state = "Sending"
    /\ mem_req.req = NoReq
    /\ mem_req' = [req |-> cache[c].transaction.req, countdown |-> MemLatency]
    /\ cache' = [cache EXCEPT ![c].transaction.state = "Waiting"]
    /\ UNCHANGED <<fetch, data, overtaken>>

(* Defect: the store that was passed on is not reported to the caller. *)
ContinueUnreported(c, k) ==
    IF k.fsm = "WriteBack"
    THEN Outcome(Start(k, "Allocate", k.req, LoadOf(k.req.block, c)), FALSE, 0)
    ELSE IF k.fsm = "Allocate"
    THEN Outcome([k EXCEPT
                    !.lines[k.evict_way] = [valid |-> TRUE, tag |-> k.req.block,
                                            dirty |-> FALSE, val |-> k.transaction.buf],
                    !.fsm = "AdditionalMissPenalty", !.counter = MissPenalty,
                    !.transaction = NoTransaction], FALSE, 0)
    ELSE Outcome(Idle(k), FALSE, 0)

(* The lower level is done with the transaction of k. *)
Continue(c, k) ==
    CASE k.fsm = "WriteBack" ->
           Outcome(Start(k, "Allocate", k.req, LoadOf(k.req.block, c)), FALSE, 0)
      [] k.fsm = "Allocate" ->
           Outcome([k EXCEPT
                      !.lines[k.evict_way] = [valid |-> TRUE, tag |-> k.req.block,
                                              dirty |-> FALSE, val |-> k.transaction.buf],
                      !.fsm = "AdditionalMissPenalty", !.counter = MissPenalty,
                      !.transaction = NoTransaction], FALSE, 0)
      [] k.fsm \in {"WriteThroughCommit", "WriteAround"} -> Outcome(Idle(k), TRUE, 0)

AwaitLower(c) ==
    /\ cache[c].transaction.state = "Waiting"
    /\ LET o == Continue(c, cache[c])
       IN  IF cache[c].transaction.done
           THEN cache' = Becomes(c, cache[c].req, o) /\ NotifyStages(cache[c].req, o)
           ELSE UNCHANGED <<cache, fetch, data>>
    /\ UNCHANGED <<mem_req, overtaken>>

(* Defect: the countdown is not tested against zero. *)
TickPenaltyUnguarded(c) ==
    /\ cache[c].fsm = "AdditionalMissPenalty"
    /\ cache' = [cache EXCEPT ![c].counter = @ - 1]
    /\ UNCHANGED <<fetch, data, mem_req, overtaken>>

Counted(k) == IF k.counter > 0 THEN [k EXCEPT !.counter = @ - 1] ELSE Goto(k, "Lookup", k.req)

TickPenalty(c) ==
    /\ cache[c].fsm = "AdditionalMissPenalty"
    /\ cache' = [cache EXCEPT ![c] = Counted(@)]
    /\ UNCHANGED <<fetch, data, mem_req, overtaken>>

NothingToDo(c) ==
    /\ cache[c].fsm = "Idle" /\ ~QueuedPrefetch(cache[c])
    /\ UNCHANGED <<cache, fetch, data, mem_req, overtaken>>

After(c) == CASE c = "L1I" -> "L1D" [] c = "L1D" -> "L2" [] c = "L2" -> "mem"

TickCache(c) ==
    /\ turn = c
    /\ \/ TakePrefetch(c)
       \/ TickLookup(c)
       \/ SendToL2(c)
       \/ SendToMemory(c)
       \/ AwaitLower(c)
       \/ TickPenalty(c)
       \/ NothingToDo(c)
    /\ turn' = After(c)
    /\ UNCHANGED <<config, main_mem, stored>>

(* The main memory: it counts down, then performs the request of L2. *)
TickMemory ==
    /\ turn = "mem"
    /\ LET r == mem_req.req
       IN  \/ r = NoReq /\ UNCHANGED <<mem_req, main_mem, cache>>
           \/ /\ r # NoReq /\ mem_req.countdown > 0
              /\ mem_req' = [mem_req EXCEPT !.countdown = @ - 1]
              /\ UNCHANGED <<main_mem, cache>>
           \/ /\ r # NoReq /\ mem_req.countdown = 0
              /\ main_mem' = IF r.op = "Store" THEN [main_mem EXCEPT ![r.block] = r.val]
                             ELSE main_mem
              /\ cache' = Notify(cache, r, Outcome(NoReq, TRUE, main_mem[r.block]))
              /\ mem_req' = [mem_req EXCEPT !.req = NoReq]
    /\ turn' = "MEM"
    /\ UNCHANGED <<config, fetch, data, stored, overtaken>>

Next ==
    \/ MemStage
    \/ IfStage
    \/ \E c \in Names : TickCache(c)
    \/ TickMemory

Spec == Init /\ [][Next]_vars /\ WF_vars(Next)

-----------------------------------------------------------------------------
Requests == [op : {"None", "Load", "Store"}, block : Blocks, val : Val \cup {0},
             from : {"IF", "MEM", "L1I", "L1D", "L2", "self", "nobody"}]

Transactions == [state : {"None", "Sending", "Waiting"}, req : Requests, done : BOOLEAN,
                 buf : Val \cup {0}]

CacheStates(c) ==
    [fsm : {"Idle", "Lookup", "WriteBack", "Allocate", "AdditionalMissPenalty",
            "WriteThroughCommit", "WriteAround"},
     req : Requests, transaction : Transactions, evict_way : Ways(c), counter : 0 .. MissPenalty,
     lines : [Ways(c) -> [valid : BOOLEAN, tag : Blocks, dirty : BOOLEAN, val : Val \cup {0}]],
     prefetch_queue : Seq(Blocks), prefetch_in_flight : BOOLEAN]

Calls == [state : {"none", "waiting", "done"}, op : {"None", "Load", "Store"}, block : Blocks,
          buf : Val \cup {0}]

(* Requests stay in memory, countdowns in their bounds, and a prefetch only  *)
(* asks for blocks that exist.                                               *)
TypeOK ==
    /\ turn \in {"MEM", "IF", "mem"} \cup Names
    /\ config \in Configs
    /\ DOMAIN cache = Names /\ \A c \in Names : cache[c] \in CacheStates(c)
    /\ main_mem \in [Blocks -> Val]
    /\ mem_req \in [req : Requests, countdown : 0 .. MemLatency]
    /\ {fetch, data} \subseteq Calls
    /\ stored \in [Blocks -> Val]
    /\ overtaken \in [{"L1I", "L1D"} -> Nat]

(* What a stage is given is what was stored last, whichever caches the block *)
(* went through, was evicted from or was written around since.               *)
AnswersCurrent ==
    /\ data.state = "done" /\ data.op = "Load" => data.buf = stored[data.block]
    /\ fetch.state = "done" => fetch.buf = stored[fetch.block]

(* While nothing is in progress the copy nearest to the processor is the     *)
(* last stored value, and no cache holds a block twice.                      *)
Quiet == mem_req.req = NoReq /\ \A c \in Names : cache[c].fsm = "Idle"

Copy(c, b) == cache[c].lines[CHOOSE w \in Holders(cache[c], b) : TRUE].val

Newest(b) ==
    IF Holders(cache["L1D"], b) # {} THEN Copy("L1D", b)
    ELSE IF Holders(cache["L2"], b) # {} THEN Copy("L2", b)
    ELSE main_mem[b]

NothingLost ==
    Quiet => \A b \in Blocks : /\ Newest(b) = stored[b]
                               /\ \A c \in Names : Cardinality(Holders(cache[c], b)) <= 1

(* L1I is ticked first in every cycle, and L1D may miss at every turn; still *)
(* neither is overtaken twice at L2 while its request waits to be sent.      *)
BoundedOvertaking == \A c \in {"L1I", "L1D"} : overtaken[c] <= 1

(* Every access of a stage is answered, whatever the other stage, the        *)
(* prefetchers and the abandoned fetches keep L2 busy with.                  *)
Served ==
    /\ data.state = "waiting" ~> data.state = "done"
    /\ fetch.state = "waiting" ~> fetch.state # "waiting"
=============================================================================
