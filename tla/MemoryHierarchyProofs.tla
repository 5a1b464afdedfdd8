------------------------ MODULE MemoryHierarchyProofs ------------------------
(* Every answer of the hierarchy is the last stored value, nothing is lost   *)
(* between the levels and neither first-level cache is overtaken twice at    *)
(* L2, for every number of blocks and ways, every mix of write policies and  *)
(* prefetchers over the levels, and every latency.  First come the steps of  *)
(* one cache over any level below it, then the steps of the hierarchy.       *)
EXTENDS MemoryHierarchyInvariant, FiniteSetTheorems, TLAPS

-----------------------------------------------------------------------------
(* What caches ask for. *)

LEMMA ConfigFacts ==
    ASSUME NEW g \in Configs
    PROVE  /\ g.write_policy \in [Names -> Policies] /\ g.prefetching \subseteq Names
           /\ g.code \subseteq Blocks /\ g.data \subseteq Blocks /\ g.code \cap g.data = {}
BY HierarchyAssumption

LEMMA BlockFacts == 0 \in Blocks /\ Blocks \subseteq Nat
BY HierarchyAssumption DEF Blocks

LEMMA ReachFacts ==
    ASSUME PrefetchRoom, NEW g \in Configs, NEW c \in Names
    PROVE  /\ Demand(g, c) \subseteq Reach(g, c) /\ Reach(g, c) \subseteq Blocks
           /\ c # "L2" => Reach(g, c) \subseteq Demand(g, "L2")
           /\ c \in g.prefetching => \A b \in Demand(g, c) : b + 1 \in Reach(g, c)
<1>1. \A d \in Names : \A bs :
        /\ bs \subseteq WithNext(g, d, bs)
        /\ d \in g.prefetching => \A b \in bs : b + 1 \in WithNext(g, d, bs)
    BY DEF WithNext
<1>2. Reach(g, "L2") \subseteq Blocks
    BY DEF PrefetchRoom
<1>3. Demand(g, "L2") \subseteq Blocks
    BY <1>1, <1>2 DEF Reach, Names
<1>4. c # "L2" => Reach(g, c) \subseteq Demand(g, "L2")
    BY DEF Reach, Demand, Names
<1> QED
    BY <1>1, <1>2, <1>3, <1>4 DEF Reach, Names

LEMMA WayFacts == ASSUME NEW c \in Names PROVE Ways(c) # {} /\ 1 \in Ways(c)
BY HierarchyAssumption DEF Ways

(* The fields of a cache, one by one. *)
LEMMA CacheFields ==
    ASSUME NEW c \in Names, NEW k \in CacheStates(c)
    PROVE  /\ k.fsm \in {"Idle", "Lookup", "WriteBack", "Allocate", "AdditionalMissPenalty",
                         "WriteThroughCommit", "WriteAround"}
           /\ k.req \in Requests /\ k.transaction \in Transactions /\ k.evict_way \in Ways(c)
           /\ k.counter \in 0 .. MissPenalty
           /\ k.lines \in [Ways(c) -> [valid : BOOLEAN, tag : Blocks, dirty : BOOLEAN,
                                       val : Val \cup {0}]]
           /\ k.prefetch_queue \in Seq(Blocks) /\ k.prefetch_in_flight \in BOOLEAN
BY DEF CacheStates

LEMMA ReqTypes ==
    /\ NoReq \in Requests /\ NoTransaction \in Transactions
    /\ \A b \in Blocks : \A c \in Names \cup {"self"} : LoadOf(b, c) \in Requests
    /\ \A b \in Blocks, v \in Val : \A c \in Names : StoreOf(b, v, c) \in Requests
    /\ \A r \in Requests : NewTransaction(r) \in Transactions
BY BlockFacts DEF NoReq, NoTransaction, Requests, Transactions, LoadOf, StoreOf, Names,
                  NewTransaction

(* Rewriting the lines, the state and the transaction of a cache. *)
LEMMA StartFields ==
    ASSUME NEW c \in Names, NEW k \in CacheStates(c), NEW s, NEW r, NEW l
    PROVE  /\ Start(k, s, r, l).fsm = s /\ Start(k, s, r, l).req = r
           /\ Start(k, s, r, l).transaction = NewTransaction(l)
           /\ Start(k, s, r, l).lines = k.lines /\ Start(k, s, r, l).evict_way = k.evict_way
           /\ Start(k, s, r, l).prefetch_queue = k.prefetch_queue
           /\ Start(k, s, r, l).prefetch_in_flight = k.prefetch_in_flight
           /\ Start(k, s, r, l).counter = k.counter
BY DEF Start, Goto, CacheStates

LEMMA IdleFields ==
    ASSUME NEW c \in Names, NEW k \in CacheStates(c)
    PROVE  /\ Idle(k).fsm = "Idle" /\ Idle(k).req = NoReq
           /\ Idle(k).transaction = NoTransaction
           /\ Idle(k).lines = k.lines /\ Idle(k).evict_way = k.evict_way
           /\ Idle(k).prefetch_queue = k.prefetch_queue
           /\ Idle(k).prefetch_in_flight = k.prefetch_in_flight
           /\ Idle(k).counter = k.counter
           /\ Idle(k) \in CacheStates(c)
BY ReqTypes DEF Idle, CacheStates

LEMMA StartType ==
    ASSUME NEW c \in Names, NEW k \in CacheStates(c), NEW r \in Requests, NEW l \in Requests,
           NEW s \in {"WriteBack", "Allocate", "WriteThroughCommit", "WriteAround"}
    PROVE  Start(k, s, r, l) \in CacheStates(c)
BY ReqTypes DEF Start, Goto, CacheStates

LEMMA TransactionFields ==
    ASSUME NEW r
    PROVE  /\ NewTransaction(r).state = "Sending" /\ NewTransaction(r).req = r
           /\ NewTransaction(r).done = FALSE
           /\ NoTransaction.state = "None" /\ NoTransaction.done = FALSE
           /\ NoTransaction.req = NoReq
BY DEF NewTransaction, NoTransaction

LEMMA ReqFields ==
    ASSUME NEW b, NEW v, NEW c
    PROVE  /\ LoadOf(b, c).op = "Load" /\ LoadOf(b, c).block = b /\ LoadOf(b, c).from = c
           /\ StoreOf(b, v, c).op = "Store" /\ StoreOf(b, v, c).block = b
           /\ StoreOf(b, v, c).val = v /\ StoreOf(b, v, c).from = c
           /\ NoReq.op = "None" /\ NoReq.from = "nobody"
BY DEF LoadOf, StoreOf, NoReq

-----------------------------------------------------------------------------
(* What a cache holds, and what is seen through it. *)

LEMMA HolderFacts ==
    ASSUME NEW c \in Names, NEW k \in CacheStates(c), NEW b
    PROVE  Holders(k, b) = {w \in Ways(c) : k.lines[w].valid /\ k.lines[w].tag = b}
BY CacheFields DEF Holders

LEMMA ViewAt ==
    ASSUME NEW g, NEW c \in Names, NEW k \in CacheStates(c), LinesInv(g, c, k),
           NEW low, NEW b \in DOMAIN low
    PROVE  /\ Holders(k, b) = {} => View(k, low)[b] = low[b]
           /\ \A w \in Holders(k, b) : View(k, low)[b] = k.lines[w].val /\ Holders(k, b) = {w}
<1>1. ASSUME NEW w \in Holders(k, b)
      PROVE  View(k, low)[b] = k.lines[w].val /\ Holders(k, b) = {w}
    <2>1. \A v \in Holders(k, b) : v = w
        BY <1>1, HolderFacts DEF LinesInv
    <2>2. (CHOOSE v \in Holders(k, b) : TRUE) \in Holders(k, b)
        BY <1>1
    <2>3. (CHOOSE v \in Holders(k, b) : TRUE) = w
        BY <2>1, <2>2
    <2> QED
        BY <1>1, <2>1, <2>3 DEF View
<1>2. Holders(k, b) = {} => View(k, low)[b] = low[b]
    BY DEF View
<1> QED
    BY <1>1, <1>2

LEMMA ViewOfLines ==
    ASSUME NEW k, NEW h, h.lines = k.lines, NEW low
    PROVE  View(h, low) = View(k, low) /\ \A b : Holders(h, b) = Holders(k, b)
BY DEF View, Holders

LEMMA ViewDomain == ASSUME NEW k, NEW low PROVE DOMAIN View(k, low) = DOMAIN low
BY DEF View

LEMMA ViewType ==
    ASSUME NEW g, NEW c \in Names, NEW k \in CacheStates(c), LinesInv(g, c, k),
           NEW low \in [Blocks -> Val]
    PROVE  View(k, low) \in [Blocks -> Val]
<1>1. ASSUME NEW b \in Blocks PROVE View(k, low)[b] \in Val
    <2>1. CASE Holders(k, b) = {}
        BY <2>1, ViewAt
    <2>2. CASE Holders(k, b) # {}
        <3>1. PICK w \in Holders(k, b) : TRUE
            BY <2>2
        <3>2. View(k, low)[b] = k.lines[w].val
            BY <3>1, ViewAt
        <3> QED
            BY <3>1, <3>2, HolderFacts DEF LinesInv
    <2> QED
        BY <2>1, <2>2
<1>2. DOMAIN View(k, low) = Blocks
    BY ViewDomain
<1> QED
    BY <1>1, <1>2 DEF View

(* A line is overwritten. *)
PutClean(k, w, v) == [k EXCEPT !.lines[w].val = v, !.lines[w].dirty = FALSE]
PutDirty(k, w, v) == [k EXCEPT !.lines[w].val = v, !.lines[w].dirty = TRUE]

LEMMA PutCleanFields ==
    ASSUME NEW c \in Names, NEW k \in CacheStates(c), NEW w \in Ways(c), NEW v \in Val
    PROVE  LET h == PutClean(k, w, v)
           IN  /\ h \in CacheStates(c) /\ h.prefetch_queue = k.prefetch_queue
               /\ (h.lines[w].valid <=> k.lines[w].valid) /\ h.lines[w].tag = k.lines[w].tag
               /\ h.lines[w].val = v /\ ~h.lines[w].dirty
               /\ \A u \in Ways(c) : u # w => h.lines[u] = k.lines[u]
<1> DEFINE ls == [k.lines EXCEPT ![w].val = v, ![w].dirty = FALSE]
           h == PutClean(k, w, v)
<1>1. /\ h.lines = ls /\ h.prefetch_queue = k.prefetch_queue
      /\ h = [k EXCEPT !.lines = ls]
    BY DEF PutClean, CacheStates
<1>2. k.lines \in [Ways(c) -> [valid : BOOLEAN, tag : Blocks, dirty : BOOLEAN, val : Val \cup {0}]]
    BY CacheFields
<1>3. /\ (ls[w].valid <=> k.lines[w].valid) /\ ls[w].tag = k.lines[w].tag
      /\ ls[w].val = v /\ ~ls[w].dirty
      /\ \A u \in Ways(c) : u # w => ls[u] = k.lines[u]
      /\ ls \in [Ways(c) -> [valid : BOOLEAN, tag : Blocks, dirty : BOOLEAN, val : Val \cup {0}]]
    BY <1>2
<1> HIDE DEF ls
<1>4. h \in CacheStates(c)
    BY <1>1, <1>3 DEF CacheStates
<1> QED
    BY <1>1, <1>3, <1>4

LEMMA PutDirtyFields ==
    ASSUME NEW c \in Names, NEW k \in CacheStates(c), NEW w \in Ways(c), NEW v \in Val
    PROVE  LET h == PutDirty(k, w, v)
           IN  /\ h \in CacheStates(c) /\ h.prefetch_queue = k.prefetch_queue
               /\ (h.lines[w].valid <=> k.lines[w].valid) /\ h.lines[w].tag = k.lines[w].tag
               /\ h.lines[w].val = v /\ h.lines[w].dirty
               /\ \A u \in Ways(c) : u # w => h.lines[u] = k.lines[u]
<1> DEFINE ls == [k.lines EXCEPT ![w].val = v, ![w].dirty = TRUE]
           h == PutDirty(k, w, v)
<1>1. /\ h.lines = ls /\ h.prefetch_queue = k.prefetch_queue
      /\ h = [k EXCEPT !.lines = ls]
    BY DEF PutDirty, CacheStates
<1>2. k.lines \in [Ways(c) -> [valid : BOOLEAN, tag : Blocks, dirty : BOOLEAN, val : Val \cup {0}]]
    BY CacheFields
<1>3. /\ (ls[w].valid <=> k.lines[w].valid) /\ ls[w].tag = k.lines[w].tag
      /\ ls[w].val = v /\ ls[w].dirty
      /\ \A u \in Ways(c) : u # w => ls[u] = k.lines[u]
      /\ ls \in [Ways(c) -> [valid : BOOLEAN, tag : Blocks, dirty : BOOLEAN, val : Val \cup {0}]]
    BY <1>2
<1> HIDE DEF ls
<1>4. h \in CacheStates(c)
    BY <1>1, <1>3 DEF CacheStates
<1> QED
    BY <1>1, <1>3, <1>4

LEMMA ViewPut ==
    ASSUME NEW g, NEW c \in Names, NEW k \in CacheStates(c), NEW p \in CacheStates(c),
           LinesInv(g, c, k), LinesInv(g, c, p), NEW low, NEW w \in Ways(c),
           k.lines[w].valid, p.lines[w].valid, p.lines[w].tag = k.lines[w].tag,
           \A u \in Ways(c) : u # w => p.lines[u] = k.lines[u]
    PROVE  /\ \A b : Holders(p, b) = Holders(k, b)
           /\ View(p, low) = [View(k, low) EXCEPT ![k.lines[w].tag] = p.lines[w].val]
<1>1. ASSUME NEW b PROVE Holders(p, b) = Holders(k, b)
    <2>1. /\ Holders(k, b) = {u \in Ways(c) : k.lines[u].valid /\ k.lines[u].tag = b}
          /\ Holders(p, b) = {u \in Ways(c) : p.lines[u].valid /\ p.lines[u].tag = b}
        BY HolderFacts
    <2>2. ASSUME NEW u \in Ways(c)
          PROVE  (p.lines[u].valid /\ p.lines[u].tag = b) <=> (k.lines[u].valid /\ k.lines[u].tag = b)
        <3>1. CASE u = w
            BY <3>1
        <3>2. CASE u # w
            BY <3>2
        <3> QED
            BY <3>1, <3>2
    <2> QED
        BY <2>1, <2>2
<1>2. ASSUME NEW b \in DOMAIN low
      PROVE  View(p, low)[b] = IF b = k.lines[w].tag THEN p.lines[w].val ELSE View(k, low)[b]
    <2>1. CASE Holders(k, b) = {}
        <3>1. b # k.lines[w].tag
            BY <2>1, HolderFacts
        <3>2. View(p, low)[b] = low[b] /\ View(k, low)[b] = low[b]
            BY <1>1, <2>1 DEF View
        <3> QED
            BY <3>1, <3>2
    <2>2. CASE Holders(k, b) # {}
        <3>1. PICK u \in Holders(k, b) : TRUE
            BY <2>2
        <3>2. u \in Holders(p, b)
            BY <1>1, <3>1
        <3>3. View(p, low)[b] = p.lines[u].val
            BY <3>2, ViewAt
        <3>4. View(k, low)[b] = k.lines[u].val
            BY <3>1, ViewAt
        <3>5. u \in Ways(c) /\ k.lines[u].valid /\ k.lines[u].tag = b
            BY <3>1, HolderFacts
        <3>6. b = k.lines[w].tag => u = w
            BY <3>5 DEF LinesInv
        <3> QED
            BY <3>3, <3>4, <3>5, <3>6
    <2> QED
        BY <2>1, <2>2
<1>3. View(p, low) = [View(k, low) EXCEPT ![k.lines[w].tag] = p.lines[w].val]
    <2>1. DOMAIN View(p, low) = DOMAIN low /\ DOMAIN View(k, low) = DOMAIN low
        BY ViewDomain
    <2>2. /\ View(p, low) = [b \in DOMAIN low |-> View(p, low)[b]]
          /\ View(k, low) = [b \in DOMAIN low |-> View(k, low)[b]]
        BY DEF View
    <2> QED
        BY <1>2, <2>1, <2>2
<1> QED
    BY <1>1, <1>3

(* The hooks of the prefetcher only touch its queue and flag. *)
Hooked(c, k, r) == PrefetchHooks(c, k, r, Holders(k, r.block) # {})

LEMMA HooksFields ==
    ASSUME PrefetchRoom, config \in Configs, NEW c \in Names, NEW k \in CacheStates(c),
           QueueInv(config, c, k), NEW r, Servable(config, c, r)
    PROVE  LET h == Hooked(c, k, r)
           IN  /\ h \in CacheStates(c) /\ QueueInv(config, c, h)
               /\ h.fsm = k.fsm /\ h.req = k.req /\ h.transaction = k.transaction
               /\ h.evict_way = k.evict_way /\ h.lines = k.lines
<1> DEFINE h == Hooked(c, k, r)
<1>1. CASE r.from = "self"
    <2> DEFINE flag == ~(Holders(k, r.block) # {})
    <2>1. h = [k EXCEPT !.prefetch_in_flight = flag]
        BY <1>1 DEF PrefetchHooks, Hooked
    <2>2. flag \in BOOLEAN
        OBVIOUS
    <2> HIDE DEF flag
    <2> QED
        BY <2>1, <2>2 DEF CacheStates, QueueInv
<1>2. CASE r.from # "self"
    <2>1. CASE h = k
        BY <2>1
    <2>2. CASE h # k
        <3> DEFINE q == Append(k.prefetch_queue, r.block + 1)
        <3>1. h = [k EXCEPT !.prefetch_queue = q] /\ c \in config.prefetching
            BY <1>2, <2>2 DEF PrefetchHooks, Hooked
        <3>2. r.block + 1 \in Reach(config, c) /\ Reach(config, c) \subseteq Blocks
            BY <1>2, <3>1, ReachFacts DEF Servable
        <3>3. k.prefetch_queue \in Seq(Blocks)
            BY CacheFields
        <3>4. q \in Seq(Blocks) /\ \A i \in DOMAIN q : q[i] \in Reach(config, c)
            BY <3>2, <3>3 DEF QueueInv
        <3> HIDE DEF q
        <3> QED
            BY <3>1, <3>4 DEF CacheStates, QueueInv
    <2> QED
        BY <2>1, <2>2
<1> QED
    BY <1>1, <1>2

-----------------------------------------------------------------------------
(* The lookup of request r in a cache that is ready for it. *)

(* The contents m of a level once value v was stored in block b. *)
With(m, b, v) == [m EXCEPT ![b] = v]

LookupContext(c, k, low, r) ==
    /\ PrefetchRoom /\ config \in Configs /\ c \in Names
    /\ LevelInv(config, c, k, low) /\ k.fsm \in {"Idle", "Lookup"} /\ Servable(config, c, r)

(* A lookup keeps the invariant of the cache.  It answers a load with what   *)
(* is seen, and a store changes what is seen when it hits.                   *)
LookupResult(c, k, low, r, o) ==
    /\ LevelInv(config, c, o.cache, low)
    /\ o.val \in Val \cup {0} /\ o.answered \in BOOLEAN
    /\ o.answered => o.cache.fsm = "Idle"
    /\ ~o.answered =>
         /\ o.cache.fsm \in {"WriteBack", "Allocate", "WriteThroughCommit", "WriteAround"}
         /\ o.cache.req = r /\ o.cache.transaction.state = "Sending"
    /\ o.answered /\ r.op = "Load" =>
         o.val \in Val /\ (r.block \in DOMAIN low => o.val = View(k, low)[r.block])
    /\ View(o.cache, low) =
         IF r.op = "Store" /\ (o.answered \/ o.cache.fsm = "WriteThroughCommit")
         THEN With(View(k, low), r.block, r.val) ELSE View(k, low)

LEMMA HooksKeep ==
    ASSUME NEW c, NEW k, NEW low, NEW r, LookupContext(c, k, low, r)
    PROVE  LET h == Hooked(c, k, r)
           IN  LookupContext(c, h, low, r) /\ h.lines = k.lines
<1> DEFINE h == Hooked(c, k, r)
<1>1. /\ h \in CacheStates(c) /\ QueueInv(config, c, h)
      /\ h.fsm = k.fsm /\ h.req = k.req /\ h.transaction = k.transaction
      /\ h.evict_way = k.evict_way /\ h.lines = k.lines
    BY HooksFields DEF LookupContext, LevelInv
<1> HIDE DEF h
<1>2. \A b : Holders(h, b) = Holders(k, b)
    BY <1>1 DEF Holders
<1>3. ControlInv(config, c, h)
    BY <1>1, <1>2 DEF LookupContext, LevelInv, ControlInv
<1>4. LinesInv(config, c, h) /\ AgreeInv(h, low)
    BY <1>1 DEF LookupContext, LevelInv, LinesInv, AgreeInv
<1> QED
    BY <1>1, <1>3, <1>4 DEF h, LookupContext, LevelInv

(* A cache that is ready has no transaction, so all clean lines agree. *)
LEMMA ReadyFacts ==
    ASSUME NEW c, NEW k, NEW low, NEW r, LookupContext(c, k, low, r)
    PROVE  /\ c \in Names /\ k \in CacheStates(c) /\ k.transaction = NoTransaction
           /\ LinesInv(config, c, k) /\ QueueInv(config, c, k)
           /\ r \in Requests /\ r.block \in Reach(config, c) /\ r.block \in Blocks
           /\ \A w \in Ways(c) :
                k.lines[w].valid /\ ~k.lines[w].dirty /\ k.lines[w].tag \in DOMAIN low
                => k.lines[w].val = low[k.lines[w].tag]
<1>1. k \in CacheStates(c) /\ DOMAIN k.lines = Ways(c)
    BY CacheFields DEF LookupContext, LevelInv
<1>2. \A w \in Ways(c) :
        k.lines[w].valid /\ ~k.lines[w].dirty /\ k.lines[w].tag \in DOMAIN low
        => k.lines[w].val = low[k.lines[w].tag]
    BY <1>1 DEF LookupContext, LevelInv, AgreeInv
<1>3. r \in Requests /\ r.block \in Reach(config, c) /\ r.block \in Blocks
    BY ReachFacts DEF LookupContext, Servable, Requests
<1> QED
    BY <1>1, <1>2, <1>3 DEF LookupContext, LevelInv, ControlInv

(* The cache has started a transaction and its lines are as before. *)
Starts(c, k, low, r, h) ==
    /\ LookupContext(c, k, low, r)
    /\ h \in CacheStates(c) /\ h.lines = k.lines
    /\ QueueInv(config, c, h) /\ h.transaction.done = FALSE
    /\ ControlInv(config, c, h)
    /\ h.fsm # "Allocate" \/ ~k.lines[h.evict_way].dirty \/ ~k.lines[h.evict_way].valid

LEMMA StartKeeps ==
    ASSUME NEW c, NEW k, NEW low, NEW r, NEW h, Starts(c, k, low, r, h)
    PROVE  LevelInv(config, c, h, low) /\ View(h, low) = View(k, low)
<1> USE DEF Starts
<1>1. LinesInv(config, c, h)
    BY ReadyFacts DEF LinesInv
<1>2. AgreeInv(h, low)
    <2>1. DOMAIN h.lines = Ways(c)
        BY CacheFields, ReadyFacts
    <2> QED
        BY <2>1, ReadyFacts DEF AgreeInv
<1> QED
    BY <1>1, <1>2, ViewOfLines DEF LevelInv

LEMMA MissResult ==
    ASSUME NEW c, NEW k, NEW low, NEW r, LookupContext(c, k, low, r),
           Holders(k, r.block) = {}, NEW w \in Ways(c)
    PROVE  LookupResult(c, k, low, r, MissOn(c, k, r, w))
<1> DEFINE victim == k.lines[w]
           e == [k EXCEPT !.evict_way = w]
           o == MissOn(c, k, r, w)
           h == o.cache
<1>2. c \in Names /\ k \in CacheStates(c) /\ r \in Requests /\ r.block \in Blocks
    BY ReadyFacts
<1>1. /\ e \in CacheStates(c) /\ e.lines = k.lines /\ e.evict_way = w
      /\ e.prefetch_queue = k.prefetch_queue
    BY <1>2 DEF CacheStates
<1>3. k.lines \in [Ways(c) -> [valid : BOOLEAN, tag : Blocks, dirty : BOOLEAN, val : Val \cup {0}]]
    BY <1>2, CacheFields
<1> HIDE DEF e
<1>4. \E s \in {"WriteBack", "Allocate", "WriteAround"}, x \in {k, e}, l \in Requests :
        /\ o = Outcome(Start(x, s, r, l), FALSE, 0)
        /\ s = "WriteAround" => r.op = "Store" /\ l = StoreOf(r.block, r.val, c)
        /\ s = "WriteBack" => /\ x = e /\ victim.valid /\ victim.dirty
                              /\ l = StoreOf(victim.tag, victim.val, c)
        /\ s = "Allocate" => x = e /\ ~(victim.valid /\ victim.dirty) /\ l = LoadOf(r.block, c)
    <2>1. CASE r.op = "Store" /\ config.write_policy[c] = "WriteThroughNoWriteAllocate"
        <3>1. StoreOf(r.block, r.val, c) \in Requests
            BY <1>2, <2>1, ReqTypes DEF LookupContext, Servable
        <3> QED
            BY <2>1, <3>1 DEF MissOn, e
    <2>2. CASE ~(r.op = "Store" /\ config.write_policy[c] = "WriteThroughNoWriteAllocate")
               /\ victim.valid /\ victim.dirty
        <3>1. victim.tag \in Blocks /\ victim.val \in Val
            BY <1>3, <2>2, ReadyFacts DEF LinesInv
        <3>2. StoreOf(victim.tag, victim.val, c) \in Requests
            BY <1>2, <3>1, ReqTypes
        <3> QED
            BY <2>2, <3>2 DEF MissOn, e
    <2>3. CASE ~(r.op = "Store" /\ config.write_policy[c] = "WriteThroughNoWriteAllocate")
               /\ ~(victim.valid /\ victim.dirty)
        <3>1. LoadOf(r.block, c) \in Requests
            BY <1>2, ReqTypes
        <3> QED
            BY <2>3, <3>1 DEF MissOn, e
    <2> QED
        BY <2>1, <2>2, <2>3
<1>5. PICK s \in {"WriteBack", "Allocate", "WriteAround"}, x \in {k, e}, l \in Requests :
        /\ o = Outcome(Start(x, s, r, l), FALSE, 0)
        /\ s = "WriteAround" => r.op = "Store" /\ l = StoreOf(r.block, r.val, c)
        /\ s = "WriteBack" => /\ x = e /\ victim.valid /\ victim.dirty
                              /\ l = StoreOf(victim.tag, victim.val, c)
        /\ s = "Allocate" => x = e /\ ~(victim.valid /\ victim.dirty) /\ l = LoadOf(r.block, c)
    BY <1>4
<1>6. h = Start(x, s, r, l) /\ o.answered = FALSE /\ o.val = 0
    BY <1>5 DEF Outcome
<1> HIDE DEF o
<1>7. x \in CacheStates(c) /\ x.lines = k.lines /\ x.prefetch_queue = k.prefetch_queue
    BY <1>1, <1>2
<1>8. h \in CacheStates(c)
    BY <1>2, <1>5, <1>6, <1>7, StartType
<1>9. /\ h.fsm = s /\ h.req = r /\ h.transaction = NewTransaction(l) /\ h.lines = k.lines
      /\ h.evict_way = x.evict_way /\ h.prefetch_queue = k.prefetch_queue
    <2>1. /\ Start(x, s, r, l).fsm = s /\ Start(x, s, r, l).req = r
          /\ Start(x, s, r, l).transaction = NewTransaction(l)
          /\ Start(x, s, r, l).lines = x.lines /\ Start(x, s, r, l).evict_way = x.evict_way
          /\ Start(x, s, r, l).prefetch_queue = x.prefetch_queue
        BY <1>2, <1>7, StartFields
    <2> HIDE DEF h
    <2> QED
        BY <1>6, <1>7, <2>1
<1>10. /\ h.transaction.state = "Sending" /\ h.transaction.done = FALSE /\ h.transaction.req = l
    BY <1>9, TransactionFields
<1> HIDE DEF h
<1>11. ControlInv(config, c, h)
    <2>1. Holders(h, r.block) = {}
        BY <1>9, ViewOfLines
    <2>2. Servable(config, c, r)
        BY DEF LookupContext
    <2> QED
        BY <1>1, <1>5, <1>9, <1>10, <2>1, <2>2 DEF ControlInv
<1>12. QueueInv(config, c, h)
    BY <1>9, ReadyFacts DEF QueueInv
<1>13. LevelInv(config, c, h, low) /\ View(h, low) = View(k, low)
    <2>1. h.fsm # "Allocate" \/ ~k.lines[h.evict_way].dirty \/ ~k.lines[h.evict_way].valid
        BY <1>1, <1>5, <1>9
    <2>2. Starts(c, k, low, r, h)
        BY <1>8, <1>9, <1>10, <1>11, <1>12, <2>1 DEF Starts
    <2> QED
        BY <2>2, StartKeeps
<1> QED
    BY <1>5, <1>6, <1>9, <1>10, <1>13 DEF LookupResult, h, o

(* A hit store: the line of the block is overwritten, and what is seen with  *)
(* it.                                                                       *)
LEMMA PutKeeps ==
    ASSUME NEW c, NEW k, NEW low, NEW r, LookupContext(c, k, low, r),
           NEW w, w \in Holders(k, r.block), r.op = "Store",
           NEW p, p \in CacheStates(c), p.prefetch_queue = k.prefetch_queue,
           (p.lines[w].valid <=> k.lines[w].valid), p.lines[w].tag = k.lines[w].tag,
           p.lines[w].val = r.val,
           p.lines[w].dirty => config.write_policy[c] = "WriteBackWriteAllocate",
           \A u \in Ways(c) : u # w => p.lines[u] = k.lines[u]
    PROVE  /\ w \in Holders(p, r.block) /\ p.lines[w].tag = r.block
           /\ LinesInv(config, c, p) /\ QueueInv(config, c, p)
           /\ View(p, low) = [View(k, low) EXCEPT ![r.block] = r.val]
<1>1. /\ c \in Names /\ k \in CacheStates(c) /\ LinesInv(config, c, k) /\ QueueInv(config, c, k)
    BY ReadyFacts
<1>2. w \in Ways(c) /\ k.lines[w].valid /\ k.lines[w].tag = r.block
    BY <1>1, HolderFacts
<1>3. r.val \in Val /\ c # "L1I" /\ r.block \in Demand(config, c)
    BY DEF LookupContext, Servable
<1>4. p \in CacheStates(c) /\ \A u \in Ways(c) : u # w => p.lines[u] = k.lines[u]
    OBVIOUS
<1>5. LinesInv(config, c, p)
    <2>1. \A u \in Ways(c) : (p.lines[u].valid <=> k.lines[u].valid) /\ p.lines[u].tag = k.lines[u].tag
        BY <1>4
    <2> QED
        BY <1>1, <1>2, <1>3, <1>4, <2>1 DEF LinesInv
<1>6. r.block = k.lines[w].tag /\ p.lines[w].valid
    BY <1>2
<1>7. /\ \A b : Holders(p, b) = Holders(k, b)
      /\ View(p, low) = [View(k, low) EXCEPT ![k.lines[w].tag] = p.lines[w].val]
    <2>1. PICK g : g = config
        OBVIOUS
    <2>2. /\ c \in Names /\ k \in CacheStates(c) /\ p \in CacheStates(c)
          /\ LinesInv(g, c, k) /\ LinesInv(g, c, p) /\ w \in Ways(c)
        BY <1>1, <1>2, <1>4, <1>5, <2>1
    <2>3. k.lines[w].valid /\ p.lines[w].valid /\ p.lines[w].tag = k.lines[w].tag
        BY <1>2, <1>6
    <2> QED
        BY <1>4, <2>2, <2>3, ViewPut
<1>8. View(p, low) = [View(k, low) EXCEPT ![r.block] = r.val]
    BY <1>6, <1>7
<1>9. QueueInv(config, c, p)
    BY <1>1, <1>4 DEF QueueInv
<1> QED
    BY <1>5, <1>6, <1>7, <1>8, <1>9

LEMMA HitResult ==
    ASSUME NEW c, NEW k, NEW low, NEW r, LookupContext(c, k, low, r),
           NEW w, w \in Holders(k, r.block)
    PROVE  LookupResult(c, k, low, r, HitOn(c, k, r, w))
<1> DEFINE o == HitOn(c, k, r, w)
           h == o.cache
<1>1. /\ c \in Names /\ k \in CacheStates(c) /\ LinesInv(config, c, k) /\ QueueInv(config, c, k)
      /\ r \in Requests /\ r.block \in Blocks
    BY ReadyFacts
<1>2. w \in Ways(c) /\ k.lines[w].valid /\ k.lines[w].tag = r.block
    BY <1>1, HolderFacts
<1>3. r.op \in {"Load", "Store"}
    BY <1>1 DEF LookupContext, Servable, Requests
<1>4. CASE r.op = "Load"
    <2>1. h = Idle(k) /\ o.answered = TRUE /\ o.val = k.lines[w].val
        BY <1>4 DEF HitOn, Outcome
    <2> HIDE DEF o, h
    <2>2. /\ h.fsm = "Idle" /\ h.req = NoReq /\ h.transaction = NoTransaction
          /\ h.lines = k.lines /\ h.prefetch_queue = k.prefetch_queue /\ h \in CacheStates(c)
        BY <1>1, <2>1, IdleFields
    <2>3. ControlInv(config, c, h)
        BY <2>2, TransactionFields DEF ControlInv
    <2>7. QueueInv(config, c, h) /\ h.transaction.done = FALSE
        BY <1>1, <2>2, TransactionFields DEF QueueInv
    <2>4. LevelInv(config, c, h, low) /\ View(h, low) = View(k, low)
        <3>1. Starts(c, k, low, r, h)
            BY <2>2, <2>3, <2>7 DEF Starts
        <3> QED
            BY <3>1, StartKeeps
    <2>5. k.lines[w].val \in Val
        BY <1>1, <1>2 DEF LinesInv
    <2>6. r.block \in DOMAIN low => k.lines[w].val = View(k, low)[r.block]
        BY <1>1, ViewAt
    <2> QED
        BY <1>4, <2>1, <2>2, <2>4, <2>5, <2>6 DEF LookupResult, h, o
<1>5. CASE r.op = "Store" /\ WriteThrough(c)
    <2> DEFINE p == PutClean(k, w, r.val)
               l == StoreOf(r.block, r.val, c)
    <2>1. h = Start(p, "WriteThroughCommit", r, l) /\ o.answered = FALSE /\ o.val = 0
        BY <1>5 DEF HitOn, Outcome, PutClean, PutDirty
    <2>2. /\ p \in CacheStates(c) /\ w \in Holders(p, r.block)
          /\ p.lines[w].val = r.val /\ p.lines[w].tag = r.block /\ ~p.lines[w].dirty
          /\ LinesInv(config, c, p) /\ QueueInv(config, c, p)
          /\ \A u \in Ways(c) : u # w => p.lines[u] = k.lines[u]
          /\ View(p, low) = [View(k, low) EXCEPT ![r.block] = r.val]
        <3>1. r.val \in Val
            BY <1>5 DEF LookupContext, Servable
        <3>2. /\ p \in CacheStates(c) /\ p.prefetch_queue = k.prefetch_queue
              /\ (p.lines[w].valid <=> k.lines[w].valid) /\ p.lines[w].tag = k.lines[w].tag
              /\ p.lines[w].val = r.val /\ ~p.lines[w].dirty
              /\ \A u \in Ways(c) : u # w => p.lines[u] = k.lines[u]
            BY <1>1, <1>2, <3>1, PutCleanFields
        <3> HIDE DEF p
        <3> QED
            BY <1>5, <3>2, PutKeeps
    <2>3. l \in Requests
        BY <1>1, <1>5, ReqTypes DEF LookupContext, Servable
    <2> HIDE DEF o, h, p, l
    <2>4. /\ h.fsm = "WriteThroughCommit" /\ h.req = r /\ h.transaction = NewTransaction(l)
          /\ h.lines = p.lines /\ h.prefetch_queue = p.prefetch_queue
        BY <1>1, <2>1, <2>2, StartFields
    <2>5. h \in CacheStates(c)
        BY <1>1, <2>1, <2>2, <2>3, StartType
    <2>6. h.transaction.state = "Sending" /\ h.transaction.done = FALSE /\ h.transaction.req = l
        BY <2>4, TransactionFields
    <2>7. View(h, low) = View(p, low) /\ Holders(h, r.block) = Holders(p, r.block)
        BY <2>4, ViewOfLines
    <2>8. ControlInv(config, c, h)
        <3>1. Servable(config, c, r)
            BY DEF LookupContext
        <3> QED
            BY <1>5, <2>2, <2>4, <2>6, <2>7, <3>1 DEF ControlInv, l
    <2>9. AgreeInv(h, low)
        <3>1. DOMAIN h.lines = Ways(c)
            BY <1>1, <2>5, CacheFields
        <3> QED
            BY <2>2, <2>4, <2>6, <3>1, ReadyFacts DEF AgreeInv
    <2>10. LevelInv(config, c, h, low)
        BY <2>2, <2>4, <2>5, <2>6, <2>8, <2>9 DEF LevelInv, LinesInv, QueueInv
    <2> QED
        BY <1>5, <2>1, <2>2, <2>4, <2>6, <2>7, <2>10 DEF LookupResult, With, h, o
<1>6. CASE r.op = "Store" /\ ~WriteThrough(c)
    <2> DEFINE p == PutDirty(k, w, r.val)
    <2>1. h = Idle(p) /\ o.answered = TRUE /\ o.val = 0
        BY <1>6 DEF HitOn, Outcome, PutClean, PutDirty
    <2>2. /\ p \in CacheStates(c)
          /\ p.lines[w].dirty
          /\ LinesInv(config, c, p) /\ QueueInv(config, c, p)
          /\ \A u \in Ways(c) : u # w => p.lines[u] = k.lines[u]
          /\ View(p, low) = [View(k, low) EXCEPT ![r.block] = r.val]
        <3>1. r.val \in Val /\ config.write_policy[c] = "WriteBackWriteAllocate"
            BY <1>6 DEF LookupContext, Servable, WriteThrough
        <3>2. /\ p \in CacheStates(c) /\ p.prefetch_queue = k.prefetch_queue
              /\ (p.lines[w].valid <=> k.lines[w].valid) /\ p.lines[w].tag = k.lines[w].tag
              /\ p.lines[w].val = r.val /\ p.lines[w].dirty
              /\ \A u \in Ways(c) : u # w => p.lines[u] = k.lines[u]
            BY <1>1, <1>2, <3>1, PutDirtyFields
        <3> HIDE DEF p
        <3> QED
            BY <1>6, <3>1, <3>2, PutKeeps
    <2> HIDE DEF o, h, p
    <2>3. /\ h.fsm = "Idle" /\ h.req = NoReq /\ h.transaction = NoTransaction
          /\ h.lines = p.lines /\ h.prefetch_queue = p.prefetch_queue /\ h \in CacheStates(c)
        BY <1>1, <2>1, <2>2, IdleFields
    <2>4. ControlInv(config, c, h)
        BY <2>3, TransactionFields DEF ControlInv
    <2>5. AgreeInv(h, low)
        <3>1. DOMAIN h.lines = Ways(c)
            BY <1>1, <2>3, CacheFields
        <3>2. h.transaction.done = FALSE
            BY <2>3, TransactionFields
        <3> QED
            BY <2>2, <2>3, <3>1, <3>2, ReadyFacts DEF AgreeInv
    <2>6. LevelInv(config, c, h, low)
        BY <2>2, <2>3, <2>4, <2>5, TransactionFields DEF LevelInv, LinesInv, QueueInv
    <2>7. View(h, low) = View(p, low)
        BY <2>3, ViewOfLines
    <2> QED
        BY <1>6, <2>1, <2>2, <2>3, <2>6, <2>7 DEF LookupResult, With, h, o
<1> QED
    BY <1>3, <1>4, <1>5, <1>6

LEMMA LookupWorks ==
    ASSUME NEW c, NEW k, NEW low, NEW r, LookupContext(c, k, low, r),
           NEW o, o \in Lookup(c, k, r)
    PROVE  LookupResult(c, k, low, r, o)
<1> DEFINE hits == Holders(k, r.block)
           h == Hooked(c, k, r)
<1>1. LookupContext(c, h, low, r) /\ h.lines = k.lines
    BY HooksKeep
<1>2. View(h, low) = View(k, low) /\ Holders(h, r.block) = hits
    BY <1>1, ViewOfLines
<1>3. \/ \E w \in hits : o = HitOn(c, h, r, w)
      \/ hits = {} /\ \E w \in Ways(c) : o = MissOn(c, h, r, w)
    BY DEF Lookup, Hooked
<1> HIDE DEF h, hits
<1>4. LookupResult(c, h, low, r, o)
    BY <1>1, <1>2, <1>3, HitResult, MissResult
<1> QED
    BY <1>2, <1>4 DEF LookupResult

-----------------------------------------------------------------------------
(* The other steps of one cache. *)

LEMMA LevelFields ==
    ASSUME NEW g, NEW c \in Names, NEW k, NEW low, LevelInv(g, c, k, low)
    PROVE  /\ k \in CacheStates(c) /\ DOMAIN k.lines = Ways(c) /\ k.evict_way \in Ways(c)
           /\ k.req \in Requests /\ k.transaction \in Transactions
           /\ ControlInv(g, c, k) /\ LinesInv(g, c, k) /\ AgreeInv(k, low) /\ QueueInv(g, c, k)
           /\ k.transaction.done => k.transaction.state = "Waiting"
           /\ k.transaction.state # "None" =>
                k.fsm \in {"WriteBack", "Allocate", "WriteThroughCommit", "WriteAround"}
<1>1. /\ k \in CacheStates(c)
      /\ ControlInv(g, c, k) /\ LinesInv(g, c, k) /\ AgreeInv(k, low) /\ QueueInv(g, c, k)
    BY DEF LevelInv
<1>2. k.fsm \in {"Idle", "Lookup", "WriteBack", "Allocate", "AdditionalMissPenalty",
                 "WriteThroughCommit", "WriteAround"}
    BY <1>1, CacheFields
<1>3. k.transaction.done => k.transaction.state = "Waiting"
    BY <1>1 DEF ControlInv
<1>4. k.transaction.state # "None" =>
        k.fsm \in {"WriteBack", "Allocate", "WriteThroughCommit", "WriteAround"}
    BY <1>1, <1>2, TransactionFields DEF ControlInv
<1> QED
    BY <1>1, <1>3, <1>4, CacheFields

(* The request of a transaction is for a block the cache may ask for. *)
LEMMA TransactionAsks ==
    ASSUME PrefetchRoom, NEW g \in Configs, NEW c \in Names, NEW k, NEW low,
           LevelInv(g, c, k, low), k.transaction.state # "None"
    PROVE  LET t == k.transaction.req
           IN  /\ t \in Requests /\ t.from = c /\ t.op \in {"Load", "Store"}
               /\ t.block \in Reach(g, c)
               /\ t.op = "Store" => t.val \in Val /\ c # "L1I"
<1> DEFINE t == k.transaction.req
<1>1. /\ c \in Names /\ k \in CacheStates(c) /\ k.evict_way \in Ways(c) /\ t \in Requests
      /\ ControlInv(g, c, k) /\ LinesInv(g, c, k)
      /\ k.fsm \in {"WriteBack", "Allocate", "WriteThroughCommit", "WriteAround"}
    BY LevelFields DEF Transactions
<1>2. t.from = c /\ t.op \in {"Load", "Store"}
    BY <1>1, ReqFields DEF ControlInv
<1>3. t.block \in Reach(g, c)
    <2>1. CASE k.fsm = "WriteBack"
        <3>1. t.block = k.lines[k.evict_way].tag /\ k.lines[k.evict_way].valid
            BY <1>1, <2>1, ReqFields DEF ControlInv
        <3> QED
            BY <1>1, <3>1 DEF LinesInv
    <2>2. CASE k.fsm # "WriteBack"
        <3>1. t.block = k.req.block /\ Servable(g, c, k.req)
            BY <1>1, <2>2, ReqFields DEF ControlInv
        <3> QED
            BY <1>1, <3>1, ReachFacts DEF Servable
    <2> QED
        BY <2>1, <2>2
<1>4. t.op = "Store" => t.val \in Val /\ c # "L1I"
    <2>1. CASE k.fsm = "WriteBack"
        <3>1. /\ t.val = k.lines[k.evict_way].val
              /\ k.lines[k.evict_way].valid /\ k.lines[k.evict_way].dirty
            BY <1>1, <2>1, ReqFields DEF ControlInv
        <3> QED
            BY <1>1, <3>1 DEF LinesInv
    <2>2. CASE k.fsm = "Allocate"
        BY <1>1, <2>2, ReqFields DEF ControlInv
    <2>3. CASE k.fsm \in {"WriteThroughCommit", "WriteAround"}
        BY <1>1, <2>3, ReqFields DEF ControlInv, Servable
    <2> QED
        BY <1>1, <2>1, <2>2, <2>3
<1> QED
    BY <1>1, <1>2, <1>3, <1>4

LEMMA TransactionServable ==
    ASSUME PrefetchRoom, NEW g \in Configs, NEW c \in {"L1I", "L1D"}, NEW k, NEW low,
           LevelInv(g, c, k, low), k.transaction.state # "None"
    PROVE  Servable(g, "L2", k.transaction.req)
<1> DEFINE t == k.transaction.req
<1>1. c \in Names /\ c # "L2"
    BY DEF Names
<1>2. /\ t \in Requests /\ t.from = c /\ t.op \in {"Load", "Store"} /\ t.block \in Reach(g, c)
      /\ t.op = "Store" => t.val \in Val
    BY <1>1, TransactionAsks
<1>3. t.block \in Demand(g, "L2")
    BY <1>1, <1>2, ReachFacts
<1> QED
    BY <1>2, <1>3 DEF Servable, Callers

(* A state that differs in none of the fields the invariant is about. *)
LEMMA SameState ==
    ASSUME NEW g, NEW c \in Names, NEW k, NEW low, LevelInv(g, c, k, low),
           NEW h, h \in CacheStates(c), h.lines = k.lines, h.evict_way = k.evict_way,
           QueueInv(g, c, h), ControlInv(g, c, h), h.transaction = k.transaction,
           \/ h.fsm = k.fsm /\ h.req.block = k.req.block
           \/ k.fsm \in {"Idle", "AdditionalMissPenalty"} /\ h.fsm = "Lookup"
    PROVE  LevelInv(g, c, h, low) /\ View(h, low) = View(k, low)
<1>1. /\ k \in CacheStates(c) /\ DOMAIN k.lines = Ways(c)
      /\ LinesInv(g, c, k) /\ AgreeInv(k, low) /\ ControlInv(g, c, k)
    BY LevelFields
<1>2. LinesInv(g, c, h)
    BY <1>1 DEF LinesInv
<1>3. AgreeInv(h, low)
    BY <1>1 DEF AgreeInv
<1> QED
    BY <1>1, <1>2, <1>3, ViewOfLines DEF LevelInv

LEMMA PenaltyKeeps ==
    ASSUME NEW g, NEW c \in Names, NEW k, NEW low, LevelInv(g, c, k, low),
           k.fsm = "AdditionalMissPenalty", NEW h, h = Counted(k)
    PROVE  /\ LevelInv(g, c, h, low) /\ View(h, low) = View(k, low)
           /\ h.req = k.req /\ h.transaction = k.transaction
           /\ h.fsm \in {"Lookup", "AdditionalMissPenalty"}
<1>1. /\ k \in CacheStates(c) /\ ControlInv(g, c, k) /\ QueueInv(g, c, k)
    BY LevelFields
<1>2. /\ h.fsm \in {"Lookup", "AdditionalMissPenalty"} /\ h.req = k.req
      /\ h.transaction = k.transaction /\ h.lines = k.lines /\ h.evict_way = k.evict_way
      /\ h.prefetch_queue = k.prefetch_queue
    BY <1>1 DEF CacheStates, Goto, Counted
<1>3. h \in CacheStates(c)
    <2>1. CASE k.counter > 0
        <3>1. k.counter - 1 \in 0 .. MissPenalty
            BY <1>1, <2>1, CacheFields, HierarchyAssumption
        <3> QED
            BY <1>1, <2>1, <3>1 DEF CacheStates, Counted
    <2>2. CASE ~(k.counter > 0)
        BY <1>1, <2>2 DEF CacheStates, Goto, Counted
    <2> QED
        BY <2>1, <2>2
<1>4. ControlInv(g, c, h) /\ QueueInv(g, c, h)
    BY <1>1, <1>2 DEF ControlInv, QueueInv
<1>5. \/ h.fsm = k.fsm /\ h.req.block = k.req.block
      \/ k.fsm \in {"Idle", "AdditionalMissPenalty"} /\ h.fsm = "Lookup"
    BY <1>2
<1>6. h.lines = k.lines /\ h.evict_way = k.evict_way /\ h.transaction = k.transaction
    BY <1>2
<1>7. LevelInv(g, c, h, low) /\ View(h, low) = View(k, low)
    BY ONLY LevelInv(g, c, k, low), c \in Names, <1>3, <1>4, <1>5, <1>6, SameState
<1> QED
    BY <1>2, <1>7

LEMMA PrefetchKeeps ==
    ASSUME PrefetchRoom, NEW g \in Configs, NEW c \in Names, NEW k, NEW low,
           LevelInv(g, c, k, low), QueuedPrefetch(k), NEW h, h = Prefetching(k)
    PROVE  /\ LevelInv(g, c, h, low) /\ View(h, low) = View(k, low)
           /\ h.req.op = "Load" /\ h.req.from = "self" /\ h.transaction = k.transaction
           /\ h.fsm = "Lookup"
<1> DEFINE q == k.prefetch_queue
           b == Head(q)
<1>1. /\ k \in CacheStates(c) /\ ControlInv(g, c, k) /\ QueueInv(g, c, k) /\ k.fsm = "Idle"
      /\ q \in Seq(Blocks) /\ q # <<>>
    BY LevelFields, CacheFields DEF QueuedPrefetch
<1>2. b \in Reach(g, c) /\ b \in Blocks
    BY <1>1, ReachFacts DEF QueueInv
<1>3. Tail(q) \in Seq(Blocks) /\ \A i \in DOMAIN Tail(q) : Tail(q)[i] \in Reach(g, c)
    <2>1. \A i \in DOMAIN Tail(q) : i + 1 \in DOMAIN q /\ Tail(q)[i] = q[i + 1]
        BY <1>1
    <2> QED
        BY <1>1, <2>1 DEF QueueInv
<1>4. LoadOf(b, "self") \in Requests
    BY <1>2, ReqTypes
<1>5. /\ h.fsm = "Lookup" /\ h.req = LoadOf(b, "self") /\ h.prefetch_queue = Tail(q)
      /\ h.transaction = k.transaction /\ h.lines = k.lines /\ h.evict_way = k.evict_way
    BY <1>1 DEF CacheStates, Goto, Prefetching
<1>6. h \in CacheStates(c)
    BY <1>1, <1>3, <1>4 DEF CacheStates, Goto, Prefetching
<1>7. Servable(g, c, LoadOf(b, "self"))
    BY <1>2, <1>4, ReqFields DEF Servable
<1>8. ControlInv(g, c, h) /\ QueueInv(g, c, h)
    BY <1>1, <1>3, <1>5, <1>7 DEF ControlInv, QueueInv
<1>9. k.fsm \in {"Idle", "AdditionalMissPenalty"} /\ h.fsm = "Lookup"
    BY <1>1, <1>5
<1>10. h.lines = k.lines /\ h.evict_way = k.evict_way /\ h.transaction = k.transaction
    BY <1>5
<1>11. LevelInv(g, c, h, low) /\ View(h, low) = View(k, low)
    BY ONLY LevelInv(g, c, k, low), c \in Names, <1>6, <1>8, <1>9, <1>10, SameState
<1> QED
    BY <1>5, <1>11, ReqFields

Abandoned(k) == [k EXCEPT !.req.from = "nobody"]

LEMMA AbandonKeeps ==
    ASSUME NEW g, NEW k, NEW low, LevelInv(g, "L1I", k, low), k.req.from = "IF",
           NEW h, h = Abandoned(k)
    PROVE  /\ LevelInv(g, "L1I", h, low) /\ View(h, low) = View(k, low)
           /\ h.req.from = "nobody" /\ h.transaction = k.transaction /\ h.fsm = k.fsm
<1>1. /\ k \in CacheStates("L1I") /\ ControlInv(g, "L1I", k) /\ QueueInv(g, "L1I", k)
      /\ k.req \in Requests /\ "L1I" \in Names
    BY LevelFields DEF Names
<1> DEFINE r == [k.req EXCEPT !.from = "nobody"]
<1>2. /\ r \in Requests /\ r.op = k.req.op /\ r.block = k.req.block /\ r.val = k.req.val
      /\ r.from = "nobody"
    BY <1>1 DEF Requests
<1>3. h = [k EXCEPT !.req = r]
    BY <1>1 DEF CacheStates, Abandoned
<1> HIDE DEF r
<1>4. /\ h \in CacheStates("L1I") /\ h.req = r /\ h.fsm = k.fsm /\ h.lines = k.lines
      /\ h.evict_way = k.evict_way /\ h.transaction = k.transaction
      /\ h.prefetch_queue = k.prefetch_queue
    BY <1>1, <1>2, <1>3 DEF CacheStates
<1>5. k.fsm # "Idle" /\ Servable(g, "L1I", k.req)
    BY <1>1, ReqFields DEF ControlInv
<1>6. Servable(g, "L1I", r)
    BY <1>2, <1>5 DEF Servable, Callers
<1>7. ControlInv(g, "L1I", h) /\ QueueInv(g, "L1I", h)
    <2>1. \A b : Holders(h, b) = Holders(k, b)
        BY <1>4, ViewOfLines
    <2> QED
        BY <1>1, <1>2, <1>4, <1>5, <1>6, <2>1 DEF ControlInv, QueueInv
<1>8. h.fsm = k.fsm /\ h.req.block = k.req.block
    BY <1>2, <1>4
<1>9. /\ h.lines = k.lines /\ h.evict_way = k.evict_way /\ h.transaction = k.transaction
      /\ h \in CacheStates("L1I") /\ "L1I" \in Names
    BY <1>1, <1>4
<1>10. LevelInv(g, "L1I", h, low) /\ View(h, low) = View(k, low)
    BY ONLY LevelInv(g, "L1I", k, low), <1>7, <1>8, <1>9, SameState
<1> QED
    BY <1>2, <1>4, <1>10

(* The transaction was accepted below. *)
Sent(k) == [k EXCEPT !.transaction.state = "Waiting"]

LEMMA SentKeeps ==
    ASSUME NEW g, NEW c \in Names, NEW k, NEW low, LevelInv(g, c, k, low),
           k.transaction.state = "Sending", NEW h, h = Sent(k)
    PROVE  /\ LevelInv(g, c, h, low) /\ View(h, low) = View(k, low)
           /\ h.req = k.req /\ h.fsm = k.fsm
           /\ h.transaction.state = "Waiting" /\ ~h.transaction.done
           /\ h.transaction.req = k.transaction.req
<1>1. /\ k \in CacheStates(c) /\ ControlInv(g, c, k) /\ QueueInv(g, c, k) /\ LinesInv(g, c, k)
      /\ AgreeInv(k, low) /\ k.transaction \in Transactions /\ DOMAIN k.lines = Ways(c)
    BY LevelFields
<1> DEFINE t == [k.transaction EXCEPT !.state = "Waiting"]
<1>2. /\ t \in Transactions /\ t.state = "Waiting" /\ t.req = k.transaction.req
      /\ (t.done <=> k.transaction.done) /\ t.buf = k.transaction.buf
    BY <1>1 DEF Transactions
<1>3. h = [k EXCEPT !.transaction = t]
    BY <1>1 DEF CacheStates, Sent
<1> HIDE DEF t
<1>4. /\ h \in CacheStates(c) /\ h.req = k.req /\ h.fsm = k.fsm /\ h.lines = k.lines
      /\ h.evict_way = k.evict_way /\ h.transaction = t
      /\ h.prefetch_queue = k.prefetch_queue
    BY <1>1, <1>2, <1>3 DEF CacheStates
<1>5. ~k.transaction.done /\ k.transaction # NoTransaction
    BY <1>1, TransactionFields DEF ControlInv
<1>6. \A b : Holders(h, b) = Holders(k, b)
    BY <1>4, ViewOfLines
<1>7. ControlInv(g, c, h)
    BY <1>1, <1>2, <1>4, <1>5, <1>6 DEF ControlInv
<1>8. LinesInv(g, c, h) /\ QueueInv(g, c, h)
    BY <1>1, <1>4 DEF LinesInv, QueueInv
<1>9. AgreeInv(h, low)
    BY <1>1, <1>2, <1>4, <1>5 DEF AgreeInv
<1> QED
    BY <1>2, <1>4, <1>5, <1>7, <1>8, <1>9, ViewOfLines DEF LevelInv

(* The done cell of the transaction is set: what was asked has happened below. *)
Done(k, v) == [k EXCEPT !.transaction.done = TRUE, !.transaction.buf = v]

LEMMA DoneFields ==
    ASSUME NEW c \in Names, NEW k \in CacheStates(c), NEW v, NEW h, h = Done(k, v)
    PROVE  /\ h.req = k.req /\ h.fsm = k.fsm /\ h.transaction.done
           /\ h.transaction.req = k.transaction.req /\ h.transaction.state = k.transaction.state
BY DEF Done, CacheStates, Transactions

LEMMA DoneKeeps ==
    ASSUME NEW g, NEW c \in Names, NEW k, NEW low, LevelInv(g, c, k, low),
           k.transaction.state = "Waiting", NEW v \in Val \cup {0},
           k.transaction.req.op = "Load" => v \in Val,
           k.transaction.req.block \in DOMAIN low =>
             low[k.transaction.req.block] =
               IF k.transaction.req.op = "Load" THEN v ELSE k.transaction.req.val,
           NEW h, h = Done(k, v)
    PROVE  /\ LevelInv(g, c, h, low) /\ View(h, low) = View(k, low)
           /\ h.req = k.req /\ h.fsm = k.fsm
           /\ h.transaction.state = "Waiting" /\ h.transaction.done
           /\ h.transaction.req = k.transaction.req
<1>1. /\ k \in CacheStates(c) /\ ControlInv(g, c, k) /\ QueueInv(g, c, k) /\ LinesInv(g, c, k)
      /\ AgreeInv(k, low) /\ k.transaction \in Transactions /\ DOMAIN k.lines = Ways(c)
    BY LevelFields
<1> DEFINE t == [k.transaction EXCEPT !.done = TRUE, !.buf = v]
<1>2. /\ t \in Transactions /\ t.state = "Waiting" /\ t.req = k.transaction.req
      /\ t.done /\ t.buf = v
    BY <1>1 DEF Transactions
<1>3. h = [k EXCEPT !.transaction = t]
    BY <1>1 DEF CacheStates, Done
<1> HIDE DEF t
<1>4. /\ h \in CacheStates(c) /\ h.req = k.req /\ h.fsm = k.fsm /\ h.lines = k.lines
      /\ h.evict_way = k.evict_way /\ h.transaction = t
      /\ h.prefetch_queue = k.prefetch_queue
    BY <1>1, <1>2, <1>3 DEF CacheStates
<1>5. k.transaction # NoTransaction
    BY TransactionFields
<1>6. \A b : Holders(h, b) = Holders(k, b)
    BY <1>4, ViewOfLines
<1>7. ControlInv(g, c, h)
    BY <1>1, <1>2, <1>4, <1>5, <1>6 DEF ControlInv
<1>8. LinesInv(g, c, h) /\ QueueInv(g, c, h)
    BY <1>1, <1>4 DEF LinesInv, QueueInv
<1>9. AgreeInv(h, low)
    <2>1. ASSUME NEW w \in Ways(c), k.lines[w].valid, k.lines[w].tag \in DOMAIN low,
                 ~k.lines[w].dirty \/ (k.fsm = "Allocate" /\ w = k.evict_way)
          PROVE  k.lines[w].val = low[k.lines[w].tag]
        <3>1. CASE k.fsm = "WriteThroughCommit" /\ k.lines[w].tag = k.req.block
            <4>1. k.transaction.req = StoreOf(k.req.block, k.req.val, c)
                BY <1>1, <3>1 DEF ControlInv
            <4>2. low[k.req.block] = k.req.val
                BY <2>1, <3>1, <4>1, ReqFields
            <4>3. PICK u \in Holders(k, k.req.block) : k.lines[u].val = k.req.val
                BY <1>1, <3>1 DEF ControlInv
            <4>4. u = w
                BY <1>1, <2>1, <3>1, <4>3, HolderFacts DEF LinesInv
            <4> QED
                BY <3>1, <4>2, <4>3, <4>4
        <3>2. CASE ~(k.fsm = "WriteThroughCommit" /\ k.lines[w].tag = k.req.block)
            BY <1>1, <2>1, <3>2 DEF AgreeInv
        <3> QED
            BY <3>1, <3>2
    <2>2. t.req.block \in DOMAIN low =>
            low[t.req.block] = IF t.req.op = "Load" THEN t.buf ELSE t.req.val
        BY <1>2
    <2> QED
        BY <1>1, <1>4, <2>1, <2>2 DEF AgreeInv
<1>10. h.transaction.done /\ h.transaction.req.op = "Load" => h.transaction.buf \in Val
    BY <1>2, <1>4
<1> QED
    BY <1>2, <1>4, <1>7, <1>8, <1>9, <1>10, ViewOfLines DEF LevelInv



(* A store of the transaction takes effect below.  Nothing is seen of it     *)
(* but when it is written around.                                            *)
LEMMA StoredBelow ==
    ASSUME NEW g, NEW c \in Names, NEW k, NEW low, LevelInv(g, c, k, low),
           k.transaction.state # "None", ~k.transaction.done, k.transaction.req.op = "Store",
           k.transaction.req.block \in DOMAIN low,
           NEW new, new = With(low, k.transaction.req.block, k.transaction.req.val)
    PROVE  /\ LevelInv(g, c, k, new)
           /\ k.fsm # "WriteAround" => View(k, new) = View(k, low)
           /\ k.fsm = "WriteAround" => View(k, new) = With(View(k, low), k.req.block, k.req.val)
<1> DEFINE t == k.transaction.req
<1>1. /\ k \in CacheStates(c) /\ ControlInv(g, c, k) /\ QueueInv(g, c, k) /\ LinesInv(g, c, k)
      /\ AgreeInv(k, low) /\ DOMAIN k.lines = Ways(c) /\ k.evict_way \in Ways(c)
      /\ k.fsm \in {"WriteBack", "WriteThroughCommit", "WriteAround"}
    <2>1. k.fsm # "Allocate"
        <3>1. ControlInv(g, c, k)
            BY LevelFields
        <3>2. k.fsm = "Allocate" => k.transaction.req = LoadOf(k.req.block, c)
            BY <3>1 DEF ControlInv
        <3> QED
            BY <3>2, ReqFields
    <2> QED
        BY <2>1, LevelFields
<1>2. DOMAIN new = DOMAIN low /\ new[t.block] = t.val
      /\ \A b \in DOMAIN low : b # t.block => new[b] = low[b]
    BY DEF With
<1>3. CASE k.fsm = "WriteAround"
    <2>1. t.block = k.req.block /\ t.val = k.req.val /\ Holders(k, t.block) = {}
        BY <1>1, <1>3, ReqFields DEF ControlInv
    <2>2. \A w \in Ways(c) : k.lines[w].valid => k.lines[w].tag # t.block
        BY <1>1, <2>1, HolderFacts
    <2>3. AgreeInv(k, new)
        BY <1>1, <1>2, <1>3, <2>2 DEF AgreeInv
    <2>4. View(k, new) = [View(k, low) EXCEPT ![t.block] = t.val]
        <3>1. ASSUME NEW b \in DOMAIN low
              PROVE  View(k, new)[b] = IF b = t.block THEN t.val ELSE View(k, low)[b]
            BY <1>2, <2>1 DEF View
        <3>2. /\ DOMAIN View(k, new) = DOMAIN low /\ DOMAIN View(k, low) = DOMAIN low
              /\ View(k, new) = [b \in DOMAIN low |-> View(k, new)[b]]
              /\ View(k, low) = [b \in DOMAIN low |-> View(k, low)[b]]
            BY <1>2 DEF View
        <3> HIDE DEF t
        <3> QED
            BY <3>1, <3>2
    <2> QED
        BY <1>1, <1>3, <2>1, <2>3, <2>4 DEF LevelInv, With
<1>4. CASE k.fsm # "WriteAround"
    <2>1. PICK u \in Ways(c) : /\ k.lines[u].valid /\ k.lines[u].tag = t.block
                               /\ k.fsm = "WriteBack" => k.lines[u].dirty
                               /\ k.fsm = "WriteThroughCommit" => t.block = k.req.block
        <3>1. CASE k.fsm = "WriteBack"
            BY <1>1, <3>1, ReqFields DEF ControlInv
        <3>2. CASE k.fsm = "WriteThroughCommit"
            <4>1. t.block = k.req.block
                BY <1>1, <3>2, ReqFields DEF ControlInv
            <4>2. PICK w \in Holders(k, k.req.block) : TRUE
                BY <1>1, <3>2 DEF ControlInv
            <4> QED
                BY <1>1, <3>2, <4>1, <4>2, HolderFacts
        <3> QED
            BY <1>1, <1>4, <3>1, <3>2
    <2>2. \A w \in Ways(c) : k.lines[w].valid /\ k.lines[w].tag = t.block => w = u
        BY <1>1, <2>1 DEF LinesInv
    <2>3. AgreeInv(k, new)
        BY <1>1, <1>2, <1>4, <2>1, <2>2 DEF AgreeInv
    <2>4. u \in Holders(k, t.block)
        BY <1>1, <2>1, HolderFacts
    <2>5. View(k, new) = View(k, low)
        <3>1. \A b \in DOMAIN low : Holders(k, b) = {} => new[b] = low[b]
            BY <1>2, <2>4
        <3> QED
            BY <1>2, <3>1 DEF View
    <2> QED
        BY <1>1, <1>4, <2>3, <2>5 DEF LevelInv
<1> QED
    BY <1>3, <1>4

(* The block that was fetched replaces the victim.  Both agree with the      *)
(* level below, so nothing is seen of it.                                    *)
Refilled(k) ==
    [k EXCEPT !.lines[k.evict_way] = [valid |-> TRUE, tag |-> k.req.block,
                                      dirty |-> FALSE, val |-> k.transaction.buf],
              !.fsm = "AdditionalMissPenalty", !.counter = MissPenalty,
              !.transaction = NoTransaction]

LEMMA RefillKeeps ==
    ASSUME PrefetchRoom, NEW g \in Configs, NEW c \in Names, NEW k, NEW low,
           LevelInv(g, c, k, low), k.transaction.done, k.fsm = "Allocate",
           NEW h, h = Refilled(k)
    PROVE  /\ LevelInv(g, c, h, low) /\ View(h, low) = View(k, low)
           /\ h.req = k.req /\ h.fsm = "AdditionalMissPenalty" /\ h.transaction = NoTransaction
<1> DEFINE line == [valid |-> TRUE, tag |-> k.req.block, dirty |-> FALSE,
                    val |-> k.transaction.buf]
           e == k.evict_way
           b0 == k.req.block
<1>1. /\ k \in CacheStates(c) /\ ControlInv(g, c, k) /\ QueueInv(g, c, k) /\ LinesInv(g, c, k)
      /\ AgreeInv(k, low) /\ DOMAIN k.lines = Ways(c) /\ e \in Ways(c) /\ k.req \in Requests
      /\ k.transaction \in Transactions
    BY LevelFields
<1>2. /\ k.transaction.req = LoadOf(b0, c) /\ Servable(g, c, k.req) /\ Holders(k, b0) = {}
    BY <1>1 DEF ControlInv
<1>3. k.transaction.req.op = "Load" /\ k.transaction.req.block = b0
    BY <1>2, ReqFields
<1>4. k.transaction.buf \in Val /\ (b0 \in DOMAIN low => low[b0] = k.transaction.buf)
    BY <1>1, <1>3 DEF LevelInv, AgreeInv
<1>5. b0 \in Reach(g, c) /\ b0 \in Blocks
    BY <1>2, ReachFacts DEF Servable
<1>6. line \in [valid : BOOLEAN, tag : Blocks, dirty : BOOLEAN, val : Val \cup {0}]
      /\ line.valid /\ line.tag = b0 /\ ~line.dirty /\ line.val = k.transaction.buf
    BY <1>4, <1>5
<1> HIDE DEF line
<1>7. /\ h.req = k.req /\ h.fsm = "AdditionalMissPenalty" /\ h.transaction = NoTransaction
      /\ h.lines = [k.lines EXCEPT ![e] = line] /\ h.prefetch_queue = k.prefetch_queue
    BY <1>1 DEF Refilled, CacheStates, line
<1>8. h \in CacheStates(c)
    <2>1. MissPenalty \in 0 .. MissPenalty
        BY HierarchyAssumption
    <2>2. [k.lines EXCEPT ![e] = line]
            \in [Ways(c) -> [valid : BOOLEAN, tag : Blocks, dirty : BOOLEAN, val : Val \cup {0}]]
        BY <1>1, <1>6, CacheFields
    <2>3. h = [k EXCEPT !.lines = [k.lines EXCEPT ![e] = line],
                        !.fsm = "AdditionalMissPenalty", !.counter = MissPenalty,
                        !.transaction = NoTransaction]
        BY <1>1 DEF Refilled, CacheStates, line
    <2> HIDE DEF e
    <2> QED
        BY <1>1, <2>1, <2>2, <2>3, ReqTypes DEF CacheStates
<1>9. /\ h.lines[e] = line
      /\ \A w \in Ways(c) : w # e => h.lines[w] = k.lines[w]
    BY <1>1, <1>7
<1>10. \A w \in Ways(c) : k.lines[w].valid => k.lines[w].tag # b0
    BY <1>1, <1>2, HolderFacts
<1>11. h.transaction.done = FALSE /\ h.transaction.state = "None"
    BY <1>7, TransactionFields
<1> HIDE DEF e, b0
<1>12. LinesInv(g, c, h)
    <2>1. ASSUME NEW w \in Ways(c)
          PROVE  /\ h.lines[w].valid => h.lines[w].tag \in Reach(g, c) /\ h.lines[w].val \in Val
                 /\ h.lines[w].dirty => /\ h.lines[w].valid
                                        /\ g.write_policy[c] = "WriteBackWriteAllocate"
                                        /\ c # "L1I" /\ h.lines[w].tag \in Demand(g, c)
        <3>1. CASE w = e
            BY <1>4, <1>5, <1>6, <1>9, <3>1
        <3>2. CASE w # e
            BY <1>1, <1>9, <3>2 DEF LinesInv
        <3> QED
            BY <3>1, <3>2
    <2>2. ASSUME NEW v \in Ways(c), NEW w \in Ways(c), h.lines[v].valid, h.lines[w].valid,
                 h.lines[v].tag = h.lines[w].tag
          PROVE  v = w
        <3>1. CASE v = e \/ w = e
            BY <1>6, <1>9, <1>10, <2>2, <3>1
        <3>2. CASE v # e /\ w # e
            BY <1>1, <1>9, <2>2, <3>2 DEF LinesInv
        <3> QED
            BY <3>1, <3>2
    <2> QED
        BY <2>1, <2>2 DEF LinesInv
<1>13. AgreeInv(h, low)
    <2>1. ASSUME NEW w \in Ways(c), h.lines[w].valid, h.lines[w].tag \in DOMAIN low,
                 ~h.lines[w].dirty
          PROVE  h.lines[w].val = low[h.lines[w].tag]
        <3>1. CASE w = e
            BY <1>4, <1>6, <1>9, <2>1, <3>1
        <3>2. CASE w # e
            BY <1>1, <1>9, <2>1, <3>2 DEF AgreeInv
        <3> QED
            BY <3>1, <3>2
    <2>2. DOMAIN h.lines = Ways(c)
        BY <1>8, CacheFields
    <2> QED
        BY <1>7, <1>11, <2>1, <2>2 DEF AgreeInv
<1>14. ControlInv(g, c, h) /\ QueueInv(g, c, h)
    BY <1>1, <1>2, <1>7, <1>11 DEF ControlInv, QueueInv
<1>15. LevelInv(g, c, h, low)
    BY <1>8, <1>11, <1>12, <1>13, <1>14 DEF LevelInv
<1>16. ASSUME NEW b \in DOMAIN low PROVE View(h, low)[b] = View(k, low)[b]
    <2>1. CASE b = b0
        <3>1. View(k, low)[b] = low[b]
            BY <1>1, <1>2, <2>1, ViewAt DEF b0
        <3>2. e \in Holders(h, b)
            BY <1>1, <1>6, <1>8, <1>9, <2>1, HolderFacts DEF e
        <3>3. View(h, low)[b] = h.lines[e].val
            BY ONLY c \in Names, b \in DOMAIN low, <1>8, <1>12, <3>2, ViewAt
        <3> QED
            BY <1>4, <1>6, <1>9, <2>1, <3>1, <3>3
    <2>2. CASE b # b0
        <3>1. CASE k.lines[e].valid /\ k.lines[e].tag = b
            <4>1. e \in Holders(k, b)
                BY <1>1, <3>1, HolderFacts DEF e
            <4>2. View(k, low)[b] = k.lines[e].val
                BY <1>1, <4>1, ViewAt
            <4>3. k.lines[e].val = low[b]
                BY <1>1, <3>1 DEF AgreeInv, e
            <4>4. \A w \in Ways(c) : ~(h.lines[w].valid /\ h.lines[w].tag = b)
                BY <1>1, <1>6, <1>9, <2>2, <3>1 DEF LinesInv, e
            <4>5. Holders(h, b) = {}
                BY <1>8, <4>4, HolderFacts
            <4>6. View(h, low)[b] = low[b]
                BY <1>8, <1>12, <4>5, ViewAt
            <4> QED
                BY <4>2, <4>3, <4>6
        <3>2. CASE ~(k.lines[e].valid /\ k.lines[e].tag = b)
            <4>1. \A w \in Ways(c) : (h.lines[w].valid /\ h.lines[w].tag = b)
                                     <=> (k.lines[w].valid /\ k.lines[w].tag = b)
                BY <1>6, <1>9, <2>2, <3>2
            <4>2. Holders(h, b) = Holders(k, b)
                <5>1. Holders(h, b) = {w \in Ways(c) : h.lines[w].valid /\ h.lines[w].tag = b}
                    BY ONLY c \in Names, <1>8, HolderFacts
                <5>2. Holders(k, b) = {w \in Ways(c) : k.lines[w].valid /\ k.lines[w].tag = b}
                    BY <1>1, HolderFacts
                <5> QED
                    BY <4>1, <5>1, <5>2
            <4>3. CASE Holders(k, b) = {}
                BY <4>2, <4>3 DEF View
            <4>4. CASE Holders(k, b) # {}
                <5>1. PICK w \in Holders(k, b) : TRUE
                    BY <4>4
                <5>2. w \in Ways(c) /\ w # e /\ w \in Holders(h, b)
                    BY <1>1, <3>2, <4>2, <5>1, HolderFacts
                <5>3. View(k, low)[b] = k.lines[w].val
                    BY <1>1, <5>1, ViewAt
                <5>4. View(h, low)[b] = h.lines[w].val
                    BY ONLY c \in Names, b \in DOMAIN low, <1>8, <1>12, <5>2, ViewAt
                <5> QED
                    BY <1>9, <5>2, <5>3, <5>4
            <4> QED
                BY <4>3, <4>4
        <3> QED
            BY <3>1, <3>2
    <2> QED
        BY <2>1, <2>2
<1>17. View(h, low) = View(k, low)
    BY <1>16 DEF View
<1> QED
    BY <1>7, <1>15, <1>17

(* What the cache does when the level below is done.  A store it has passed  *)
(* on is answered, and seen.                                                 *)
LEMMA ContinueWorks ==
    ASSUME PrefetchRoom, NEW g \in Configs, NEW c \in Names, NEW k, NEW low,
           LevelInv(g, c, k, low), k.transaction.done,
           NEW o, o = Continue(c, k)
    PROVE  /\ LevelInv(g, c, o.cache, low) /\ View(o.cache, low) = View(k, low)
           /\ o.answered \in BOOLEAN /\ o.val = 0 /\ o.cache.transaction.state # "Waiting"
           /\ o.answered => /\ o.cache.fsm = "Idle" /\ k.req.op = "Store"
                            /\ k.req.block \in DOMAIN low =>
                                 View(k, low)[k.req.block] = k.req.val
           /\ ~o.answered => /\ o.cache.req = k.req
                             /\ k.fsm \in {"WriteBack", "Allocate"}
                             /\ o.cache.fsm \in {"Allocate", "AdditionalMissPenalty"}
<1> DEFINE h == o.cache
<1>1. /\ k \in CacheStates(c) /\ ControlInv(g, c, k) /\ QueueInv(g, c, k) /\ LinesInv(g, c, k)
      /\ AgreeInv(k, low) /\ DOMAIN k.lines = Ways(c) /\ k.evict_way \in Ways(c)
      /\ k.req \in Requests /\ k.transaction.state = "Waiting"
      /\ k.fsm \in {"WriteBack", "Allocate", "WriteThroughCommit", "WriteAround"}
    BY LevelFields
<1>2. Servable(g, c, k.req)
    BY <1>1 DEF ControlInv
<1>3. CASE k.fsm = "Allocate"
    <2>1. h = Refilled(k) /\ o.answered = FALSE /\ o.val = 0
        BY <1>3 DEF Continue, Outcome, Refilled
    <2>2. /\ LevelInv(g, c, h, low) /\ View(h, low) = View(k, low)
          /\ h.req = k.req /\ h.fsm = "AdditionalMissPenalty" /\ h.transaction = NoTransaction
        BY <1>3, <2>1, RefillKeeps
    <2> QED
        BY <1>3, <2>1, <2>2, TransactionFields
<1>4. CASE k.fsm = "WriteBack"
    <2> DEFINE l == LoadOf(k.req.block, c)
               victim == k.lines[k.evict_way]
    <2>1. h = Start(k, "Allocate", k.req, l) /\ o.answered = FALSE /\ o.val = 0
        BY <1>4 DEF Continue, Outcome
    <2>2. l \in Requests
        BY <1>1, ReqTypes DEF Requests
    <2> HIDE DEF h, l
    <2>3. /\ h.fsm = "Allocate" /\ h.req = k.req /\ h.transaction = NewTransaction(l)
          /\ h.lines = k.lines /\ h.prefetch_queue = k.prefetch_queue
          /\ h.evict_way = k.evict_way
        BY <1>1, <2>1, StartFields
    <2>4. h \in CacheStates(c)
        BY <1>1, <2>1, <2>2, StartType
    <2>5. ~h.transaction.done /\ h.transaction.req = l /\ h.transaction.state = "Sending"
        BY <2>3, TransactionFields
    <2>6. \A b : Holders(h, b) = Holders(k, b)
        BY <2>3, ViewOfLines
    <2>7. Holders(k, k.req.block) = {}
        BY <1>1, <1>4 DEF ControlInv
    <2>8. ControlInv(g, c, h)
        BY <1>2, <2>3, <2>5, <2>6, <2>7 DEF ControlInv, l
    <2>9. LinesInv(g, c, h) /\ QueueInv(g, c, h)
        BY <1>1, <2>3 DEF LinesInv, QueueInv
    <2>10. victim.tag \in DOMAIN low => victim.val = low[victim.tag]
        <3>1. k.transaction.req = StoreOf(victim.tag, victim.val, c)
            BY <1>1, <1>4 DEF ControlInv
        <3>2. /\ k.transaction.req.op = "Store" /\ k.transaction.req.block = victim.tag
              /\ k.transaction.req.val = victim.val
            BY <3>1, ReqFields
        <3> HIDE DEF victim
        <3> QED
            BY <1>1, <3>2 DEF AgreeInv
    <2>11. AgreeInv(h, low)
        BY <1>1, <1>4, <2>3, <2>5, <2>10 DEF AgreeInv
    <2>12. LevelInv(g, c, h, low) /\ View(h, low) = View(k, low)
        BY <2>3, <2>4, <2>5, <2>8, <2>9, <2>11, ViewOfLines DEF LevelInv
    <2> QED
        BY <1>4, <2>1, <2>3, <2>5, <2>12 DEF h
<1>5. CASE k.fsm \in {"WriteThroughCommit", "WriteAround"}
    <2>1. h = Idle(k) /\ o.answered = TRUE /\ o.val = 0
        BY <1>5 DEF Continue, Outcome
    <2> HIDE DEF h
    <2>2. /\ h.fsm = "Idle" /\ h.req = NoReq /\ h.transaction = NoTransaction
          /\ h.lines = k.lines /\ h.prefetch_queue = k.prefetch_queue /\ h \in CacheStates(c)
        BY <1>1, <2>1, IdleFields
    <2>3. ~h.transaction.done /\ h.transaction.state = "None"
        BY <2>2, TransactionFields
    <2>4. ControlInv(g, c, h)
        BY <2>2, <2>3 DEF ControlInv
    <2>5. LinesInv(g, c, h) /\ QueueInv(g, c, h)
        BY <1>1, <2>2 DEF LinesInv, QueueInv
    <2>6. AgreeInv(h, low)
        BY <1>1, <1>5, <2>2, <2>3 DEF AgreeInv
    <2>7. LevelInv(g, c, h, low) /\ View(h, low) = View(k, low)
        BY <2>2, <2>3, <2>4, <2>5, <2>6, ViewOfLines DEF LevelInv
    <2>8. k.req.op = "Store" /\ k.transaction.req = StoreOf(k.req.block, k.req.val, c)
        BY <1>1, <1>5 DEF ControlInv
    <2>9. ASSUME k.req.block \in DOMAIN low
          PROVE  View(k, low)[k.req.block] = k.req.val
        <3>1. CASE k.fsm = "WriteAround"
            <4>1. Holders(k, k.req.block) = {}
                BY <1>1, <3>1 DEF ControlInv
            <4>2. low[k.req.block] = k.req.val
                BY <1>1, <2>8, <2>9, ReqFields DEF AgreeInv
            <4> QED
                BY <2>9, <4>1, <4>2 DEF View
        <3>2. CASE k.fsm = "WriteThroughCommit"
            <4>1. PICK w \in Holders(k, k.req.block) : k.lines[w].val = k.req.val
                BY <1>1, <3>2 DEF ControlInv
            <4> QED
                BY <1>1, <2>9, <4>1, ViewAt
        <3> QED
            BY <1>5, <3>1, <3>2
    <2> QED
        BY <2>1, <2>2, <2>3, <2>7, <2>8, <2>9 DEF h
<1> QED
    BY <1>1, <1>3, <1>4, <1>5

-----------------------------------------------------------------------------
(* The data cache over L2, seen from MEM. *)

LEMMA StoreIsData ==
    ASSUME NEW g, NEW k, NEW low, LevelInv(g, "L1D", k, low)
    PROVE  /\ \A b : Pending(k, b) => b \in g.data
           /\ k.fsm = "WriteThroughCommit" => k.req.block \in g.data
           /\ \A w \in Ways("L1D") : k.lines[w].dirty => k.lines[w].tag \in g.data
<1>1. /\ "L1D" \in Names /\ ControlInv(g, "L1D", k) /\ LinesInv(g, "L1D", k)
    BY LevelFields DEF Names
<1>2. Demand(g, "L1D") = g.data
    BY DEF Demand
<1>3. k.fsm # "Idle" /\ k.req.op = "Store" => k.req.block \in g.data
    BY <1>1, <1>2 DEF ControlInv, Servable
<1>4. \A b : Pending(k, b) => b \in g.data
    BY <1>3 DEF Pending
<1>5. k.fsm = "WriteThroughCommit" => k.req.block \in g.data
    BY <1>1, <1>3 DEF ControlInv
<1> QED
    BY <1>1, <1>2, <1>4, <1>5 DEF LinesInv

(* Below the data cache everything but the data is current. *)
LEMMA CodeAgrees ==
    ASSUME NEW g, NEW k, NEW low \in [Blocks -> Val], LevelInv(g, "L1D", k, low),
           NEW st, StoredBy(k, low, st), NEW b \in Blocks, b \notin g.data
    PROVE  low[b] = st[b]
<1>1. /\ "L1D" \in Names /\ k \in CacheStates("L1D") /\ LinesInv(g, "L1D", k)
      /\ AgreeInv(k, low) /\ DOMAIN k.lines = Ways("L1D")
    BY LevelFields DEF Names
<1>2. st[b] = View(k, low)[b]
    BY StoreIsData DEF StoredBy
<1>3. CASE Holders(k, b) = {}
    BY <1>2, <1>3 DEF View
<1>4. CASE Holders(k, b) # {}
    <2>1. PICK w \in Holders(k, b) : TRUE
        BY <1>4
    <2>2. w \in Ways("L1D") /\ k.lines[w].valid /\ k.lines[w].tag = b
        BY <1>1, <2>1, HolderFacts
    <2>3. ~k.lines[w].dirty /\ ~(k.fsm = "WriteThroughCommit" /\ b = k.req.block)
        BY <2>2, StoreIsData
    <2>4. k.lines[w].val = low[b]
        BY <1>1, <2>2, <2>3 DEF AgreeInv
    <2>5. View(k, low)[b] = k.lines[w].val
        BY <1>1, <2>1, ViewAt
    <2> QED
        BY <1>2, <2>4, <2>5
<1> QED
    BY <1>3, <1>4

(* L2 may perform the store that L1D has asked for, and nothing else. *)
Progress(k, low, new) ==
    \/ new = low
    \/ /\ k.transaction.state # "None" /\ ~k.transaction.done /\ k.transaction.req.op = "Store"
       /\ new = With(low, k.transaction.req.block, k.transaction.req.val)

LEMMA DataProgress ==
    ASSUME PrefetchRoom, NEW g \in Configs, NEW k, NEW low \in [Blocks -> Val],
           LevelInv(g, "L1D", k, low), NEW st, StoredBy(k, low, st),
           NEW new, Progress(k, low, new)
    PROVE  LevelInv(g, "L1D", k, new) /\ StoredBy(k, new, st)
<1>1. CASE new = low
    BY <1>1
<1>2. CASE new # low
    <2> DEFINE t == k.transaction.req
    <2>1. /\ k.transaction.state # "None" /\ ~k.transaction.done /\ t.op = "Store"
          /\ new = With(low, t.block, t.val)
        BY <1>2 DEF Progress
    <2>2. "L1D" \in Names /\ t.block \in DOMAIN low
        <3>1. "L1D" \in Names /\ k.transaction \in Transactions
            BY LevelFields DEF Names
        <3> QED
            BY <3>1 DEF Transactions, Requests
    <2>3. /\ LevelInv(g, "L1D", k, new)
          /\ k.fsm # "WriteAround" => View(k, new) = View(k, low)
          /\ k.fsm = "WriteAround" => View(k, new) = With(View(k, low), k.req.block, k.req.val)
        BY <2>1, <2>2, StoredBelow
    <2>4. ASSUME NEW b \in Blocks
          PROVE  st[b] = IF Pending(k, b) THEN k.req.val ELSE View(k, new)[b]
        <3>1. st[b] = IF Pending(k, b) THEN k.req.val ELSE View(k, low)[b]
            BY DEF StoredBy
        <3>2. CASE k.fsm # "WriteAround"
            BY <2>3, <3>1, <3>2
        <3>3. CASE k.fsm = "WriteAround"
            <4>1. k.req.op = "Store"
                BY <2>2, <3>3, LevelFields DEF ControlInv
            <4>2. b = k.req.block => Pending(k, b)
                BY <2>1, <3>3, <4>1 DEF Pending
            <4>3. b # k.req.block => View(k, new)[b] = View(k, low)[b]
                <5>1. DOMAIN View(k, low) = DOMAIN low
                    BY ViewDomain
                <5> QED
                    BY <2>3, <3>3, <5>1 DEF With
            <4> QED
                BY <3>1, <4>2, <4>3
        <3> QED
            BY <3>2, <3>3
    <2> QED
        BY <2>3, <2>4 DEF StoredBy
<1> QED
    BY <1>1, <1>2

(* Steps of L1D that leave what is seen as it is. *)
LEMMA SeenSame ==
    ASSUME NEW k, NEW h, NEW low, NEW st, StoredBy(k, low, st),
           View(h, low) = View(k, low),
           \A b \in Blocks : Pending(h, b) <=> Pending(k, b),
           \A b \in Blocks : Pending(k, b) => h.req.val = k.req.val
    PROVE  StoredBy(h, low, st)
BY DEF StoredBy

LEMMA DataSent ==
    ASSUME NEW g, NEW k, NEW low, LevelInv(g, "L1D", k, low), NEW st, StoredBy(k, low, st),
           k.transaction.state = "Sending", NEW h, h = Sent(k)
    PROVE  StoredBy(h, low, st)
<1>1. /\ View(h, low) = View(k, low) /\ h.req = k.req /\ h.fsm = k.fsm
      /\ ~h.transaction.done
    BY SentKeeps DEF Names
<1>2. ~k.transaction.done
    BY LevelFields DEF Names
<1>3. \A b \in Blocks : Pending(h, b) <=> Pending(k, b)
    BY <1>1, <1>2 DEF Pending
<1> QED
    BY <1>1, <1>3, SeenSame

LEMMA DataDone ==
    ASSUME NEW g, NEW k, NEW low \in [Blocks -> Val], LevelInv(g, "L1D", k, low),
           NEW st, StoredBy(k, low, st),
           k.transaction.state = "Waiting", ~k.transaction.done,
           k.transaction.req.op = "Store" =>
             low[k.transaction.req.block] = k.transaction.req.val,
           NEW h, View(h, low) = View(k, low), h.req = k.req, h.fsm = k.fsm, h.transaction.done
    PROVE  StoredBy(h, low, st)
<1>1. "L1D" \in Names /\ ControlInv(g, "L1D", k) /\ k.req \in Requests
    BY LevelFields DEF Names
<1>2. CASE k.fsm # "WriteAround"
    <2>1. \A b \in Blocks : Pending(h, b) <=> Pending(k, b)
        BY <1>2 DEF Pending
    <2> QED
        BY <2>1, SeenSame
<1>3. CASE k.fsm = "WriteAround"
    <2>1. /\ k.req.op = "Store" /\ k.transaction.req = StoreOf(k.req.block, k.req.val, "L1D")
          /\ Holders(k, k.req.block) = {}
        BY <1>1, <1>3 DEF ControlInv
    <2>2. low[k.req.block] = k.req.val
        BY <2>1, ReqFields
    <2>3. k.req.block \in Blocks
        BY <1>1 DEF Requests
    <2>4. View(k, low)[k.req.block] = k.req.val
        BY <2>1, <2>2, <2>3 DEF View
    <2>5. \A b \in Blocks : ~Pending(h, b) /\ (Pending(k, b) <=> b = k.req.block)
        BY <1>3, <2>1 DEF Pending
    <2> QED
        BY <2>4, <2>5 DEF StoredBy
<1> QED
    BY <1>2, <1>3

(* A store that is looked up is seen at once or is pending, and a load is    *)
(* answered with what was stored last.  st is what is to be seen afterwards. *)
LEMMA DataLookup ==
    ASSUME NEW k, NEW low \in [Blocks -> Val], NEW r, LookupContext("L1D", k, low, r),
           NEW o, LookupResult("L1D", k, low, r, o),
           NEW st, \A b \in Blocks :
                     st[b] = IF r.op = "Store" /\ r.block = b THEN r.val ELSE View(k, low)[b]
    PROVE  /\ StoredBy(o.cache, low, st)
           /\ o.answered /\ r.op = "Load" => o.val = st[r.block]
<1> DEFINE h == o.cache
<1>1. r.block \in Blocks /\ r.op \in {"Load", "Store"}
    BY ReadyFacts DEF LookupContext, Servable, Requests
<1>2. /\ o.answered \in BOOLEAN /\ o.answered => h.fsm = "Idle"
      /\ ~o.answered =>
           /\ h.fsm \in {"WriteBack", "Allocate", "WriteThroughCommit", "WriteAround"}
           /\ h.req = r /\ h.transaction.state = "Sending"
      /\ LevelInv(config, "L1D", h, low)
      /\ o.answered /\ r.op = "Load" => o.val = View(k, low)[r.block]
    BY <1>1 DEF LookupResult
<1>3. View(h, low) = IF r.op = "Store" /\ (o.answered \/ h.fsm = "WriteThroughCommit")
                     THEN With(View(k, low), r.block, r.val) ELSE View(k, low)
    BY DEF LookupResult
<1>4. DOMAIN View(k, low) = Blocks
    BY ViewDomain
<1>5. ~h.transaction.done \/ o.answered
    BY <1>2, LevelFields DEF Names
<1> HIDE DEF h
<1>6. ASSUME NEW b \in Blocks
      PROVE  st[b] = IF Pending(h, b) THEN h.req.val ELSE View(h, low)[b]
    <2>1. CASE r.op = "Load"
        <3>1. ~Pending(h, b)
            BY <1>2, <2>1 DEF Pending
        <3> QED
            BY <1>3, <2>1, <3>1
    <2>2. CASE r.op = "Store" /\ (o.answered \/ h.fsm = "WriteThroughCommit")
        <3>1. ~Pending(h, b)
            BY <1>2, <2>2 DEF Pending
        <3>2. View(h, low)[b] = IF r.block = b THEN r.val ELSE View(k, low)[b]
            BY <1>3, <1>4, <2>2 DEF With
        <3> QED
            BY <2>2, <3>1, <3>2
    <2>3. CASE r.op = "Store" /\ ~(o.answered \/ h.fsm = "WriteThroughCommit")
        <3>1. Pending(h, b) <=> b = r.block
            BY <1>2, <1>5, <2>3 DEF Pending
        <3> QED
            BY <1>2, <1>3, <2>3, <3>1
    <2> QED
        BY <1>1, <2>1, <2>2, <2>3
<1> QED
    BY <1>1, <1>2, <1>6 DEF StoredBy, h

(* The answers of L2 to L1D and to L1I. *)
LEMMA DataContinues ==
    ASSUME PrefetchRoom, NEW g \in Configs, NEW k, NEW low,
           LevelInv(g, "L1D", k, low), k.transaction.done,
           NEW st, StoredBy(k, low, st), NEW o, o = Continue("L1D", k)
    PROVE  StoredBy(o.cache, low, st)
<1> DEFINE h == o.cache
<1>1. "L1D" \in Names
    BY DEF Names
<1>2. /\ View(h, low) = View(k, low) /\ o.answered \in BOOLEAN
      /\ o.answered => h.fsm = "Idle" /\ k.req.op = "Store"
      /\ ~o.answered => /\ h.req = k.req /\ k.fsm \in {"WriteBack", "Allocate"}
                        /\ h.fsm \in {"Allocate", "AdditionalMissPenalty"}
    BY <1>1, ContinueWorks
<1>3. CASE o.answered
    <2>1. k.fsm \in {"WriteThroughCommit", "WriteAround"}
        BY <1>3, <1>1, LevelFields DEF Continue, Outcome
    <2>2. \A b \in Blocks : ~Pending(h, b) /\ ~Pending(k, b)
        BY <1>2, <1>3, <2>1 DEF Pending
    <2> QED
        BY <1>2, <2>2, SeenSame
<1>4. CASE ~o.answered
    <2>1. \A b \in Blocks : Pending(h, b) <=> Pending(k, b)
        BY <1>2, <1>4 DEF Pending
    <2> QED
        BY <1>2, <1>4, <2>1, SeenSame
<1> QED
    BY <1>2, <1>3, <1>4

(* L1I never disagrees with the level below, as nothing is stored there. *)
LEMMA CodeSeen ==
    ASSUME NEW g, NEW k, NEW low, LevelInv(g, "L1I", k, low), NEW b \in DOMAIN low
    PROVE  View(k, low)[b] = low[b]
<1>1. /\ "L1I" \in Names /\ k \in CacheStates("L1I") /\ LinesInv(g, "L1I", k)
      /\ AgreeInv(k, low) /\ DOMAIN k.lines = Ways("L1I") /\ ControlInv(g, "L1I", k)
    BY LevelFields DEF Names
<1>2. k.fsm # "WriteThroughCommit"
    BY <1>1 DEF ControlInv, Servable
<1>3. CASE Holders(k, b) = {}
    BY <1>3 DEF View
<1>4. CASE Holders(k, b) # {}
    <2>1. PICK w \in Holders(k, b) : TRUE
        BY <1>4
    <2>2. w \in Ways("L1I") /\ k.lines[w].valid /\ k.lines[w].tag = b
        BY <1>1, <2>1, HolderFacts
    <2>3. ~k.lines[w].dirty
        BY <1>1, <2>2 DEF LinesInv
    <2>4. k.lines[w].val = low[b]
        BY <1>1, <1>2, <2>2, <2>3 DEF AgreeInv
    <2>5. View(k, low)[b] = k.lines[w].val
        BY <1>1, <2>1, ViewAt
    <2> QED
        BY <2>4, <2>5
<1> QED
    BY <1>3, <1>4

-----------------------------------------------------------------------------
(* The steps of the hierarchy. *)

(* What every step may use. *)
LEMMA InvFacts ==
    ASSUME IndInv
    PROVE  /\ config \in Configs /\ DOMAIN cache = Names /\ "L2" \in Names
           /\ "L1D" \in Names /\ "L1I" \in Names
           /\ main_mem \in [Blocks -> Val] /\ L2View \in [Blocks -> Val]
           /\ stored \in [Blocks -> Val] /\ DOMAIN CodeView = Blocks \ config.data
           /\ overtaken \in [{"L1I", "L1D"} -> Nat]
           /\ LevelInv(config, "L2", cache["L2"], main_mem)
           /\ LevelInv(config, "L1D", cache["L1D"], L2View)
           /\ LevelInv(config, "L1I", cache["L1I"], CodeView)
           /\ StoredBy(cache["L1D"], L2View, stored)
           /\ fetch \in Calls /\ data \in Calls
           /\ mem_req \in [req : Requests, countdown : 0 .. MemLatency]
           /\ turn \in {"MEM", "IF", "mem", "L1I", "L1D", "L2"}
<1>1. "L2" \in Names /\ "L1D" \in Names /\ "L1I" \in Names
    BY DEF Names
<1>2. LevelInv(config, "L2", cache["L2"], main_mem) /\ main_mem \in [Blocks -> Val]
    BY DEF IndInv, CachesInv, TypeOK
<1>3. cache["L2"] \in CacheStates("L2") /\ LinesInv(config, "L2", cache["L2"])
    BY <1>1, <1>2, LevelFields
<1>4. View(cache["L2"], main_mem) \in [Blocks -> Val]
    BY <1>1, <1>2, <1>3, ViewType
<1>5. L2View \in [Blocks -> Val]
    BY <1>4 DEF L2View
<1> QED
    BY <1>1, <1>2, <1>5 DEF IndInv, TypeOK, CachesInv, StoredInv, CodeView, Names

(* The types follow from the invariants of the levels. *)
LEMMA NewTypes ==
    ASSUME turn' \in {"MEM", "IF", "mem", "L1I", "L1D", "L2"}, config' \in Configs,
           DOMAIN cache' = Names, CachesInv', main_mem' \in [Blocks -> Val],
           mem_req' \in [req : Requests, countdown : 0 .. MemLatency],
           fetch' \in Calls, data' \in Calls, stored' \in [Blocks -> Val],
           overtaken' \in [{"L1I", "L1D"} -> Nat]
    PROVE  TypeOK'
<1>1. ASSUME NEW c \in Names PROVE cache'[c] \in CacheStates(c)
    BY <1>1 DEF CachesInv, LevelInv, Names
<1> QED
    BY <1>1 DEF TypeOK, Names

Busy(k) == k.transaction.state = "Waiting" /\ ~k.transaction.done

(* A step of L1D that does not involve L2. *)
LEMMA DataStep ==
    ASSUME IndInv, NEW h, cache' = [cache EXCEPT !["L1D"] = h],
           UNCHANGED <<config, main_mem, mem_req, fetch, overtaken>>,
           LevelInv(config, "L1D", h, L2View), StoredBy(h, L2View, stored'),
           stored' \in [Blocks -> Val], \A b \in Blocks \ config.data : stored'[b] = stored[b],
           ~Busy(cache["L1D"]), cache["L1D"].transaction.state # "Sending", ~Busy(h),
           turn' \in {"IF", "L2"}, turn # "L1D" => turn = "MEM", data' \in Calls,
           data'.state = "waiting" <=> h.req.from = "MEM",
           data'.state = "waiting" => data'.op = h.req.op /\ data'.block = h.req.block,
           data'.state = "done" /\ data'.op = "Load" => data'.buf = stored'[data'.block]
    PROVE  IndInv'
<1>1. /\ cache'["L1D"] = h /\ cache'["L2"] = cache["L2"] /\ cache'["L1I"] = cache["L1I"]
      /\ DOMAIN cache' = Names
    BY InvFacts
<1>2. CodeView' = CodeView /\ L2View' = L2View
    <2>1. L2View' = L2View
        BY <1>1 DEF L2View
    <2> QED
        BY <2>1 DEF CodeView
<1>3. CachesInv'
    BY <1>1, <1>2, InvFacts DEF CachesInv
<1>4. StoredInv'
    BY <1>1, <1>2 DEF StoredInv
<1>5. LinkInv'
    <2>1. ~Busy(cache["L1D"]) /\ cache["L2"].req.from # "L1D"
        BY DEF IndInv, LinkInv, Busy
    <2> QED
        BY <1>1, <2>1 DEF IndInv, LinkInv, Busy
<1>6. AnswersCurrent'
    <2>1. fetch.state = "done" => fetch.block \in Blocks \ config.data
        BY InvFacts, ConfigFacts DEF IndInv, LinkInv
    <2> QED
        BY <2>1 DEF IndInv, AnswersCurrent
<1>7. OvertakeInv'
    <2>1. overtaken["L1D"] = 0
        BY InvFacts DEF IndInv, OvertakeInv
    <2> QED
        BY <1>1, <2>1 DEF IndInv, OvertakeInv, BoundedOvertaking
<1>8. TypeOK'
    BY <1>1, <1>3, InvFacts, NewTypes
<1> QED
    BY <1>3, <1>4, <1>5, <1>6, <1>7, <1>8 DEF IndInv

(* A step of L1I that does not involve L2. *)
LEMMA FetchStep ==
    ASSUME IndInv, NEW h, cache' = [cache EXCEPT !["L1I"] = h],
           UNCHANGED <<config, main_mem, mem_req, data, stored, overtaken>>,
           LevelInv(config, "L1I", h, CodeView),
           \/ turn = "IF" /\ turn' = "L1I" /\ h.transaction = cache["L1I"].transaction
           \/ /\ ~Busy(cache["L1I"]) /\ cache["L1I"].transaction.state # "Sending" /\ ~Busy(h)
              /\ \/ turn = "IF" /\ turn' = "L1I" /\ cache["L1I"].transaction.state = "None"
                 \/ turn = "L1I" /\ turn' = "L1D",
           fetch' \in Calls, fetch'.state # "none" => fetch'.block \in config.code,
           fetch'.state = "waiting" <=> h.req.from = "IF",
           fetch'.state = "waiting" => fetch'.block = h.req.block,
           fetch'.state = "done" => fetch'.buf = stored[fetch'.block]
    PROVE  IndInv'
<1>1. /\ cache'["L1I"] = h /\ cache'["L2"] = cache["L2"] /\ cache'["L1D"] = cache["L1D"]
      /\ DOMAIN cache' = Names
    BY InvFacts
<1>2. CodeView' = CodeView /\ L2View' = L2View
    <2>1. L2View' = L2View
        BY <1>1 DEF L2View
    <2> QED
        BY <2>1 DEF CodeView
<1>3. CachesInv'
    BY <1>1, <1>2, InvFacts DEF CachesInv
<1>4. StoredInv'
    BY <1>1, <1>2, InvFacts DEF StoredInv
<1>5. LinkInv'
    <2>1. CASE h.transaction = cache["L1I"].transaction
        BY <1>1, <2>1 DEF IndInv, LinkInv
    <2>2. CASE ~Busy(cache["L1I"]) /\ ~Busy(h)
        <3>1. cache["L2"].req.from # "L1I"
            BY <2>2 DEF IndInv, LinkInv, Busy
        <3> QED
            BY <1>1, <2>2, <3>1 DEF IndInv, LinkInv, Busy
    <2> QED
        BY <2>1, <2>2
<1>6. AnswersCurrent'
    BY DEF IndInv, AnswersCurrent
<1>7. OvertakeInv'
    <2>1. CASE turn = "IF" /\ turn' = "L1I" /\ h.transaction = cache["L1I"].transaction
        BY <1>1, <2>1 DEF IndInv, OvertakeInv, BoundedOvertaking
    <2>2. CASE /\ ~Busy(cache["L1I"]) /\ cache["L1I"].transaction.state # "Sending" /\ ~Busy(h)
               /\ \/ turn = "IF" /\ turn' = "L1I" /\ cache["L1I"].transaction.state = "None"
                  \/ turn = "L1I" /\ turn' = "L1D"
        <3>1. overtaken["L1I"] = 0
            BY <2>2, InvFacts DEF IndInv, OvertakeInv
        <3> QED
            BY <1>1, <2>2, <3>1 DEF IndInv, OvertakeInv, BoundedOvertaking, Busy
    <2> QED
        BY <2>1, <2>2
<1>8. TypeOK'
    BY <1>1, <1>3, InvFacts, NewTypes
<1> QED
    BY <1>3, <1>4, <1>5, <1>6, <1>7, <1>8 DEF IndInv

(* A step that changes no cache. *)
LEMMA StillStep ==
    ASSUME IndInv, UNCHANGED <<config, cache, main_mem, stored, overtaken>>,
           mem_req' \in [req : Requests, countdown : 0 .. MemLatency], mem_req'.req = mem_req.req,
           turn' \in {"MEM", "IF", "mem", "L1I", "L1D", "L2"}, fetch' \in Calls, data' \in Calls,
           turn' = "L1D" => turn = "L1I",
           turn = "L1I" =>
             cache["L2"].fsm # "Idle" \/ cache["L1I"].transaction.state # "Sending",
           turn' = "L2" => turn = "L1D",
           turn = "L1D" =>
             cache["L2"].fsm # "Idle" \/ cache["L1D"].transaction.state # "Sending",
           fetch' = fetch \/ (fetch.state # "waiting" /\ fetch' = NoCall),
           data' = data \/ (data.state # "waiting" /\ data' = NoCall)
    PROVE  IndInv'
<1>1. CodeView' = CodeView /\ L2View' = L2View
    BY DEF CodeView, L2View
<1>2. CachesInv' /\ StoredInv'
    BY <1>1, InvFacts DEF CachesInv, StoredInv
<1>3. LinkInv'
    BY DEF IndInv, LinkInv, NoCall
<1>4. AnswersCurrent'
    BY DEF IndInv, AnswersCurrent, NoCall
<1>5. OvertakeInv'
    BY DEF IndInv, OvertakeInv, BoundedOvertaking
<1>6. TypeOK'
    BY <1>2, InvFacts, NewTypes
<1> QED
    BY <1>2, <1>3, <1>4, <1>5, <1>6 DEF IndInv

(* The cache c above when the outcome of request r is o. *)
Answered(k, c, r, o) == IF o.answered /\ r.from = c THEN Done(k, o.val) ELSE k

LEMMA NotifyIs ==
    ASSUME NEW caches, DOMAIN caches = Names, NEW r, NEW o, NEW new, new = Notify(caches, r, o)
    PROVE  /\ DOMAIN new = Names
           /\ \A c \in Names : new[c] = Answered(caches[c], c, r, o)
<1>1. CASE o.answered /\ r.from \in Names
    <2>1. new = [caches EXCEPT ![r.from].transaction.done = TRUE,
                               ![r.from].transaction.buf = o.val]
        BY <1>1 DEF Notify
    <2>2. new[r.from] = Done(caches[r.from], o.val)
        BY <1>1, <2>1 DEF Done
    <2>3. DOMAIN new = Names /\ \A c \in Names : c # r.from => new[c] = caches[c]
        BY <1>1, <2>1
    <2> QED
        BY <1>1, <2>2, <2>3 DEF Answered
<1>2. CASE ~(o.answered /\ r.from \in Names)
    BY <1>2 DEF Notify, Answered
<1> QED
    BY <1>1, <1>2

(* L2, or the memory below it, has worked on r, the request of an L1 or a    *)
(* prefetch.  d and i are the L1 caches while r is worked on, o says whether *)
(* it is answered now.                                                       *)
ServeContext(d, i, h, mem, r, o) ==
    /\ config \in Configs
    /\ LevelInv(config, "L2", h, mem) /\ mem \in [Blocks -> Val]
    /\ LevelInv(config, "L1D", d, L2View) /\ L2View \in [Blocks -> Val]
    /\ StoredBy(d, L2View, stored) /\ LevelInv(config, "L1I", i, CodeView)
    /\ \/ View(h, mem) = L2View
       \/ /\ r.op = "Store" /\ r.from \in {"L1I", "L1D"}
          /\ View(h, mem) = With(L2View, r.block, r.val)
    /\ o.answered \in BOOLEAN /\ o.val \in Val \cup {0}
    /\ o.answered /\ r.op = "Load" => o.val \in Val /\ o.val = L2View[r.block]
    /\ o.answered /\ r.op = "Store" => View(h, mem)[r.block] = r.val
    /\ Busy(d) <=> r.from = "L1D"
    /\ Busy(i) <=> r.from = "L1I"
    /\ r.from = "L1D" => r = d.transaction.req
    /\ r.from = "L1I" => r = i.transaction.req

(* What stays of an L1 cache whether it is answered or not. *)
AnsweredFrom(e, k, c, r, o) ==
    /\ e.req = k.req /\ e.fsm = k.fsm
    /\ e.transaction.req = k.transaction.req /\ e.transaction.state = k.transaction.state
    /\ Busy(e) <=> Busy(k) /\ ~(o.answered /\ r.from = c)
    /\ e.transaction.done <=> k.transaction.done \/ (o.answered /\ r.from = c)

LEMMA ServeData ==
    ASSUME PrefetchRoom, NEW d, NEW i, NEW h, NEW mem, NEW r, NEW o,
           ServeContext(d, i, h, mem, r, o),
           NEW e, e = Answered(d, "L1D", r, o)
    PROVE  /\ LevelInv(config, "L1D", e, View(h, mem)) /\ StoredBy(e, View(h, mem), stored)
           /\ AnsweredFrom(e, d, "L1D", r, o)
<1> DEFINE new == View(h, mem)
<1>1. /\ "L1D" \in Names /\ "L1I" \in Names /\ "L2" \in Names
      /\ config \in Configs /\ L2View \in [Blocks -> Val]
      /\ LevelInv(config, "L1D", d, L2View) /\ StoredBy(d, L2View, stored)
    BY DEF ServeContext, Names
<1>2. r.from = "L1I" => r.op # "Store"
    <2>1. ASSUME r.from = "L1I" PROVE r.op # "Store"
        <3>1. LevelInv(config, "L1I", i, CodeView) /\ i.transaction.state # "None"
            BY <2>1 DEF ServeContext, Busy
        <3>2. i.transaction.req.op # "Store"
            BY <1>1, <3>1, TransactionAsks
        <3> QED
            BY <2>1, <3>2 DEF ServeContext
    <2> QED
        BY <2>1
<1>3. Progress(d, L2View, new)
    BY <1>2 DEF ServeContext, Progress, Busy
<1>4. new \in [Blocks -> Val]
    <2>1. h \in CacheStates("L2") /\ LinesInv(config, "L2", h) /\ mem \in [Blocks -> Val]
        BY <1>1, LevelFields DEF ServeContext
    <2> QED
        BY <1>1, <2>1, ViewType
<1>5. LevelInv(config, "L1D", d, new) /\ StoredBy(d, new, stored)
    BY <1>1, <1>3, DataProgress
<1> HIDE DEF new
<1>6. CASE ~(o.answered /\ r.from = "L1D")
    <2>1. e = d
        BY <1>6 DEF Answered
    <2> QED
        BY <1>5, <1>6, <2>1 DEF AnsweredFrom, Busy, new
<1>7. CASE o.answered /\ r.from = "L1D"
    <2>1. e = Done(d, o.val) /\ d.transaction.state = "Waiting" /\ ~d.transaction.done
        BY <1>7 DEF Answered, ServeContext, Busy
    <2>2. d.transaction.req = r /\ o.val \in Val \cup {0} /\ r.op \in {"Load", "Store"}
          /\ r.block \in Blocks
        <3>1. d.transaction.req.op \in {"Load", "Store"} /\ d.transaction.req \in Requests
            BY <1>1, <2>1, TransactionAsks
        <3> QED
            BY <1>7, <3>1 DEF ServeContext, Requests
    <2>3. r.op = "Load" => o.val \in Val /\ new[r.block] = o.val
        BY <1>7 DEF ServeContext, new
    <2>4. r.op = "Store" => new[r.block] = r.val
        BY <1>7 DEF ServeContext, new
    <2>5. /\ LevelInv(config, "L1D", e, new) /\ View(e, new) = View(d, new)
          /\ e.req = d.req /\ e.fsm = d.fsm
          /\ e.transaction.state = "Waiting" /\ e.transaction.done
          /\ e.transaction.req = d.transaction.req
        <3>1. PICK v \in Val \cup {0} : v = o.val
            BY <2>2
        <3>2. PICK g : g = config
            OBVIOUS
        <3>3. d.transaction.req.op = "Load" => v \in Val
            BY <2>2, <2>3, <3>1
        <3>4. PICK low : low = new
            OBVIOUS
        <3>5. d.transaction.req.block \in DOMAIN low =>
                low[d.transaction.req.block] =
                  IF d.transaction.req.op = "Load" THEN v ELSE d.transaction.req.val
            BY <2>2, <2>3, <2>4, <3>1, <3>4
        <3>6. "L1D" \in Names /\ LevelInv(g, "L1D", d, low) /\ e = Done(d, v)
            BY <1>1, <1>5, <2>1, <3>1, <3>2, <3>4
        <3>7. LevelInv(g, "L1D", e, low)
            BY ONLY <2>1, v \in Val \cup {0}, <3>3, <3>5, <3>6, DoneKeeps
        <3>8. View(e, low) = View(d, low)
            BY ONLY <2>1, v \in Val \cup {0}, <3>3, <3>5, <3>6, DoneKeeps
        <3>9. d \in CacheStates("L1D")
            BY <1>1, LevelFields
        <3> QED
            BY <2>1, <3>2, <3>4, <3>6, <3>7, <3>8, <3>9, DoneFields
    <2>6. StoredBy(e, new, stored)
        BY <1>4, <1>5, <2>1, <2>2, <2>4, <2>5, DataDone
    <2> QED
        BY <1>7, <2>1, <2>5, <2>6 DEF AnsweredFrom, Busy, new
<1> QED
    BY <1>6, <1>7

LEMMA ServeFetch ==
    ASSUME PrefetchRoom, NEW d, NEW i, NEW h, NEW mem, NEW r, NEW o,
           ServeContext(d, i, h, mem, r, o),
           NEW e, e = Answered(i, "L1I", r, o)
    PROVE  LevelInv(config, "L1I", e, CodeView) /\ AnsweredFrom(e, i, "L1I", r, o)
<1>1. /\ "L1D" \in Names /\ "L1I" \in Names /\ config \in Configs
      /\ LevelInv(config, "L1I", i, CodeView)
    BY DEF ServeContext, Names
<1>2. CASE ~(o.answered /\ r.from = "L1I")
    <2>1. e = i
        BY <1>2 DEF Answered
    <2> QED
        BY <1>1, <1>2, <2>1 DEF AnsweredFrom, Busy
<1>3. CASE o.answered /\ r.from = "L1I"
    <2>1. e = Done(i, o.val) /\ i.transaction.state = "Waiting" /\ ~i.transaction.done
        BY <1>3 DEF Answered, ServeContext, Busy
    <2>2. i.transaction.req = r /\ o.val \in Val \cup {0} /\ r.op = "Load"
        <3>1. i.transaction.req.op = "Load"
            BY <1>1, <2>1, TransactionAsks
        <3> QED
            BY <1>3, <3>1 DEF ServeContext
    <2>3. o.val \in Val /\ o.val = L2View[r.block]
        BY <1>3, <2>2 DEF ServeContext
    <2>4. ASSUME r.block \in DOMAIN CodeView PROVE CodeView[r.block] = o.val
        <3>1. r.block \in Blocks /\ r.block \notin config.data
            BY <2>4 DEF CodeView
        <3>2. /\ L2View \in [Blocks -> Val] /\ LevelInv(config, "L1D", d, L2View)
              /\ StoredBy(d, L2View, stored)
            BY DEF ServeContext
        <3>3. L2View[r.block] = stored[r.block]
            BY <3>1, <3>2, CodeAgrees
        <3> QED
            BY <2>3, <3>1, <3>3 DEF CodeView
    <2>5. /\ LevelInv(config, "L1I", e, CodeView)
          /\ e.req = i.req /\ e.fsm = i.fsm
          /\ e.transaction.state = "Waiting" /\ e.transaction.done
          /\ e.transaction.req = i.transaction.req
        <3>1. PICK v \in Val \cup {0} : v = o.val
            BY <2>2
        <3>2. PICK g : g = config
            OBVIOUS
        <3>3. i.transaction.req.op = "Load" => v \in Val
            BY <2>2, <2>3, <3>1
        <3>4. PICK low : low = CodeView
            OBVIOUS
        <3>5. i.transaction.req.block \in DOMAIN low =>
                low[i.transaction.req.block] =
                  IF i.transaction.req.op = "Load" THEN v ELSE i.transaction.req.val
            BY <2>2, <2>4, <3>1, <3>4
        <3>6. LevelInv(g, "L1I", i, low) /\ e = Done(i, v)
            BY <1>1, <2>1, <3>1, <3>2, <3>4
        <3>7. /\ LevelInv(g, "L1I", e, low)
              /\ e.req = i.req /\ e.fsm = i.fsm
              /\ e.transaction.state = "Waiting" /\ e.transaction.done
              /\ e.transaction.req = i.transaction.req
            BY ONLY <1>1, <2>1, v \in Val \cup {0}, <3>3, <3>5, <3>6, DoneKeeps
        <3> QED
            BY <3>2, <3>4, <3>7
    <2> QED
        BY <1>3, <2>1, <2>5 DEF AnsweredFrom, Busy
<1> QED
    BY <1>2, <1>3

LEMMA ServeLevels ==
    ASSUME PrefetchRoom, IndInv, UNCHANGED <<config, stored>>,
           NEW d, NEW i, NEW h, NEW r, NEW o, ServeContext(d, i, h, main_mem', r, o),
           cache'["L2"] = h, cache'["L1D"] = Answered(d, "L1D", r, o),
           cache'["L1I"] = Answered(i, "L1I", r, o)
    PROVE  /\ CachesInv' /\ StoredInv'
           /\ AnsweredFrom(cache'["L1D"], d, "L1D", r, o)
           /\ AnsweredFrom(cache'["L1I"], i, "L1I", r, o)
<1>1. /\ LevelInv(config, "L1D", cache'["L1D"], View(h, main_mem'))
      /\ StoredBy(cache'["L1D"], View(h, main_mem'), stored)
      /\ AnsweredFrom(cache'["L1D"], d, "L1D", r, o)
    BY ServeData
<1>2. /\ LevelInv(config, "L1I", cache'["L1I"], CodeView)
      /\ AnsweredFrom(cache'["L1I"], i, "L1I", r, o)
    BY ServeFetch
<1>3. L2View' = View(h, main_mem') /\ CodeView' = CodeView
    BY DEF L2View, CodeView
<1>4. LevelInv(config, "L2", h, main_mem')
    BY DEF ServeContext
<1>5. CachesInv'
    BY <1>1, <1>2, <1>3, <1>4 DEF CachesInv
<1>6. StoredInv'
    BY <1>1, <1>3 DEF StoredInv
<1> QED
    BY <1>1, <1>2, <1>5, <1>6

LEMMA LowerStep ==
    ASSUME PrefetchRoom, IndInv, UNCHANGED <<config, stored, overtaken, fetch, data>>,
           NEW h, NEW r, r = cache["L2"].req, NEW o,
           DOMAIN cache' = Names, cache'["L2"] = h,
           cache'["L1D"] = Answered(cache["L1D"], "L1D", r, o),
           cache'["L1I"] = Answered(cache["L1I"], "L1I", r, o),
           main_mem' \in [Blocks -> Val], LevelInv(config, "L2", h, main_mem'),
           \/ View(h, main_mem') = L2View
           \/ r.op = "Store" /\ View(h, main_mem') = With(L2View, r.block, r.val),
           o.answered \in BOOLEAN, o.val \in Val \cup {0},
           o.answered /\ r.op = "Load" => o.val \in Val /\ o.val = L2View[r.block],
           o.answered /\ r.op = "Store" => View(h, main_mem')[r.block] = r.val,
           o.answered => h.fsm = "Idle",
           ~o.answered => h.req = r \/ (r = NoReq /\ h.req.from = "self"),
           mem_req' \in [req : Requests, countdown : 0 .. MemLatency],
           Busy(h) <=> mem_req'.req # NoReq,
           mem_req'.req # NoReq => mem_req'.req = h.transaction.req,
           \/ turn = "L2" /\ turn' = "mem"
           \/ turn = "mem" /\ turn' = "MEM" /\ h.fsm = cache["L2"].fsm
    PROVE  IndInv'
<1> DEFINE d == cache["L1D"]
           i == cache["L1I"]
<1>1. /\ Busy(d) <=> r.from = "L1D"
      /\ Busy(i) <=> r.from = "L1I"
      /\ r.from = "L1D" => r = d.transaction.req
      /\ r.from = "L1I" => r = i.transaction.req
    BY DEF IndInv, LinkInv, Busy
<1>2. r.op = "Store" => r.from \in {"L1I", "L1D"}
    <2>1. ControlInv(config, "L2", cache["L2"])
        BY InvFacts, LevelFields
    <2>2. CASE cache["L2"].fsm = "Idle"
        BY <2>1, <2>2, ReqFields DEF ControlInv
    <2>3. CASE cache["L2"].fsm # "Idle"
        BY <2>1, <2>3 DEF ControlInv, Servable, Callers
    <2> QED
        BY <2>2, <2>3
<1>3. ServeContext(d, i, h, main_mem', r, o)
    BY <1>1, <1>2, InvFacts DEF ServeContext
<1>4. /\ CachesInv' /\ StoredInv'
      /\ AnsweredFrom(cache'["L1D"], d, "L1D", r, o)
      /\ AnsweredFrom(cache'["L1I"], i, "L1I", r, o)
    BY <1>3, ServeLevels
<1>5. o.answered => h.req = NoReq
    BY InvFacts, LevelFields DEF ControlInv
<1>6. LinkInv'
    <2>1. h.req.from = IF o.answered THEN "nobody"
                       ELSE IF h.req = r THEN r.from ELSE "self"
        BY <1>5, ReqFields
    <2>2. \A c \in {"L1I", "L1D"} :
            LET t == cache'[c].transaction
            IN  /\ Busy(cache'[c]) <=> h.req.from = c
                /\ h.req.from = c => h.req = t.req
        <3>1. /\ Busy(cache'["L1D"]) <=> h.req.from = "L1D"
              /\ h.req.from = "L1D" => h.req = cache'["L1D"].transaction.req
            BY <1>1, <1>4, <2>1, ReqFields DEF AnsweredFrom
        <3>2. /\ Busy(cache'["L1I"]) <=> h.req.from = "L1I"
              /\ h.req.from = "L1I" => h.req = cache'["L1I"].transaction.req
            BY <1>1, <1>4, <2>1, ReqFields DEF AnsweredFrom
        <3> QED
            BY <3>1, <3>2
    <2>3. cache'["L1D"].req = d.req /\ cache'["L1I"].req = i.req
        BY <1>4 DEF AnsweredFrom
    <2> QED
        BY <2>2, <2>3 DEF IndInv, LinkInv, Busy
<1>7. AnswersCurrent'
    BY DEF IndInv, AnswersCurrent
<1>8. OvertakeInv'
    <2>1. /\ cache'["L1D"].transaction.state = d.transaction.state
          /\ cache'["L1I"].transaction.state = i.transaction.state
          /\ cache'["L1I"].transaction.done => i.transaction.done \/ h.fsm = "Idle"
        BY <1>4 DEF AnsweredFrom
    <2> QED
        BY <2>1 DEF IndInv, OvertakeInv, BoundedOvertaking
<1>9. TypeOK'
    BY <1>4, InvFacts, NewTypes
<1> QED
    BY <1>4, <1>6, <1>7, <1>8, <1>9 DEF IndInv

(* A cache without a transaction. *)
LEMMA RestFields ==
    ASSUME NEW g, NEW c \in Names, NEW k, NEW low, LevelInv(g, c, k, low),
           k.fsm \in {"Idle", "Lookup", "AdditionalMissPenalty"}
    PROVE  /\ k.transaction = NoTransaction /\ k.transaction.state = "None" /\ ~Busy(k)
           /\ ~k.transaction.done
           /\ k.fsm = "Idle" => k.req = NoReq /\ k.req.from = "nobody"
BY LevelFields, TransactionFields, ReqFields DEF ControlInv, Busy

(* No cache waits for the answer to r, or r is not answered yet. *)
LEMMA BecomesIs ==
    ASSUME IndInv, NEW c \in Names, NEW r, NEW o, r.from \notin Names \/ ~o.answered
    PROVE  Becomes(c, r, o) = [cache EXCEPT ![c] = o.cache]
BY DEF Becomes, Notify

LEMMA MemStageKeeps ==
    ASSUME PrefetchRoom, IndInv, MemStage
    PROVE  IndInv'
<1> DEFINE k == cache["L1D"]
<1>1. turn = "MEM" /\ turn' = "IF" /\ UNCHANGED <<config, main_mem, mem_req, fetch, overtaken>>
    BY DEF MemStage
<1>2. CASE MemRegister
    <2>1. data.state = "none" /\ k.fsm = "Idle"
        BY <1>2 DEF MemRegister
    <2>2. PICK a \in config.data, v \in Val :
            \E r \in {LoadOf(a, "MEM"), StoreOf(a, v, "MEM")} :
            \E o \in Lookup("L1D", cache["L1D"], r) :
              /\ cache' = Becomes("L1D", r, o)
              /\ data' = [state |-> IF o.answered THEN "done" ELSE "waiting",
                          op |-> r.op, block |-> r.block, buf |-> o.val]
              /\ stored' = IF r.op = "Store" THEN [stored EXCEPT ![r.block] = r.val] ELSE stored
        BY <1>2 DEF MemRegister
    <2> PICK r : /\ r \in {LoadOf(a, "MEM"), StoreOf(a, v, "MEM")}
                 /\ \E o \in Lookup("L1D", cache["L1D"], r) :
                      /\ cache' = Becomes("L1D", r, o)
                      /\ data' = [state |-> IF o.answered THEN "done" ELSE "waiting",
                                  op |-> r.op, block |-> r.block, buf |-> o.val]
                      /\ stored' = IF r.op = "Store" THEN [stored EXCEPT ![r.block] = r.val]
                                   ELSE stored
        BY <2>2
    <2>3. PICK o \in Lookup("L1D", k, r) :
              /\ cache' = Becomes("L1D", r, o)
              /\ data' = [state |-> IF o.answered THEN "done" ELSE "waiting",
                          op |-> r.op, block |-> r.block, buf |-> o.val]
              /\ stored' = IF r.op = "Store" THEN [stored EXCEPT ![r.block] = r.val] ELSE stored
        BY <2>2
    <2>4. /\ r.op \in {"Load", "Store"} /\ r.from = "MEM" /\ r.block \in config.data
          /\ r.op = "Store" => r.val \in Val
        BY <2>2, ReqFields
    <2>5. r \in Requests /\ r.block \in Blocks
        <3>1. config.data \subseteq Blocks
            BY InvFacts, ConfigFacts
        <3> QED
            BY <2>2, <3>1 DEF LoadOf, StoreOf, Requests
    <2>6. Servable(config, "L1D", r)
        BY <2>4, <2>5 DEF Servable, Callers, Demand
    <2>7. LookupContext("L1D", k, L2View, r) /\ LookupResult("L1D", k, L2View, r, o)
        <3>1. LookupContext("L1D", k, L2View, r)
            BY <2>1, <2>6, InvFacts DEF LookupContext
        <3> QED
            BY <2>3, <3>1, LookupWorks
    <2> PICK h : h = o.cache
        OBVIOUS
    <2>8. /\ LevelInv(config, "L1D", h, L2View) /\ o.val \in Val \cup {0}
          /\ o.answered \in BOOLEAN
          /\ o.answered => h.fsm = "Idle"
          /\ ~o.answered => h.req = r /\ h.transaction.state = "Sending"
        BY <2>7 DEF LookupResult
    <2>9. \A b \in Blocks : stored[b] = View(k, L2View)[b]
        BY <2>1, InvFacts DEF StoredBy, Pending
    <2>10. \A b \in Blocks : stored'[b] = IF r.op = "Store" /\ r.block = b THEN r.val
                                          ELSE View(k, L2View)[b]
        BY <2>3, <2>4, <2>5, <2>9, InvFacts
    <2>11. /\ StoredBy(h, L2View, stored')
           /\ o.answered /\ r.op = "Load" => o.val = stored'[r.block]
        <3>1. PICK st : st = stored'
            OBVIOUS
        <3>2. PICK low : low = L2View
            OBVIOUS
        <3>3. /\ LookupContext("L1D", k, low, r) /\ LookupResult("L1D", k, low, r, o)
              /\ low \in [Blocks -> Val]
            BY <2>7, <3>2, InvFacts
        <3>4. \A b \in Blocks :
                st[b] = IF r.op = "Store" /\ r.block = b THEN r.val ELSE View(k, low)[b]
            BY <2>10, <3>1, <3>2
        <3>5. StoredBy(o.cache, low, st) /\ (o.answered /\ r.op = "Load" => o.val = st[r.block])
            BY ONLY <3>3, <3>4, DataLookup
        <3> QED
            BY <3>1, <3>2, <3>5
    <2>12. /\ stored' \in [Blocks -> Val]
           /\ \A b \in Blocks \ config.data : stored'[b] = stored[b]
        BY <2>3, <2>4, <2>5, InvFacts
    <2>13. cache' = [cache EXCEPT !["L1D"] = h]
        BY <2>3, <2>4, InvFacts, BecomesIs DEF Names
    <2>14. k.transaction.state = "None" /\ ~Busy(k)
        BY <2>1, InvFacts, RestFields
    <2>15. ~Busy(h) /\ (o.answered => h.req.from = "nobody")
        <3>1. h.fsm = "Idle" => ~Busy(h) /\ h.req.from = "nobody"
            BY <2>8, InvFacts, RestFields
        <3> QED
            BY <2>8, <3>1 DEF Busy
    <2>16. /\ data'.state = IF o.answered THEN "done" ELSE "waiting"
           /\ data'.op = r.op /\ data'.block = r.block /\ data'.buf = o.val
           /\ data' \in Calls
        BY <2>3, <2>4, <2>5, <2>8 DEF Calls
    <2>17. data'.state = "waiting" <=> h.req.from = "MEM"
        BY <2>4, <2>8, <2>15, <2>16
    <2>18. data'.state = "waiting" => data'.op = h.req.op /\ data'.block = h.req.block
        BY <2>8, <2>16
    <2>19. data'.state = "done" /\ data'.op = "Load" => data'.buf = stored'[data'.block]
        BY <2>11, <2>16
    <2> QED
        BY ONLY IndInv, <1>1, <2>8, <2>11, <2>12, <2>13, <2>14, <2>15, <2>16, <2>17, <2>18, <2>19,
                DataStep
<1>3. CASE data.state = "done" /\ data' = NoCall /\ UNCHANGED <<cache, stored>>
    <2>1. NoCall \in Calls
        BY BlockFacts DEF NoCall, Calls
    <2> QED
        BY <1>1, <1>3, <2>1, InvFacts, StillStep
<1>4. CASE UNCHANGED <<data, cache, stored>>
    BY <1>1, <1>4, InvFacts, StillStep
<1> QED
    BY <1>2, <1>3, <1>4 DEF MemStage

(* What L1I answers a fetch with is what was stored last. *)
LEMMA FetchAnswer ==
    ASSUME PrefetchRoom, IndInv, NEW r, NEW o, r.block \in config.code, r.op = "Load",
           o.answered, LookupResult("L1I", cache["L1I"], CodeView, r, o)
    PROVE  o.val = stored[r.block]
<1>1. r.block \in Blocks \ config.data /\ r.block \in DOMAIN CodeView
    BY InvFacts, ConfigFacts
<1>2. o.val = View(cache["L1I"], CodeView)[r.block]
    BY <1>1 DEF LookupResult
<1>3. View(cache["L1I"], CodeView)[r.block] = CodeView[r.block]
    BY <1>1, InvFacts, CodeSeen
<1> QED
    BY <1>1, <1>2, <1>3 DEF CodeView

LEMMA IfStageKeeps ==
    ASSUME PrefetchRoom, IndInv, IfStage
    PROVE  IndInv'
<1> DEFINE k == cache["L1I"]
<1>1. /\ turn = "IF" /\ turn' = "L1I"
      /\ UNCHANGED <<config, main_mem, mem_req, data, stored, overtaken>>
    BY DEF IfStage
<1>2. CASE FetchRegister
    <2>1. fetch.state = "none" /\ k.fsm = "Idle"
        BY <1>2 DEF FetchRegister
    <2>2. PICK b \in config.code : \E o \in Lookup("L1I", k, LoadOf(b, "IF")) :
             /\ cache' = Becomes("L1I", LoadOf(b, "IF"), o)
             /\ fetch' = [state |-> IF o.answered THEN "done" ELSE "waiting",
                          op |-> "Load", block |-> b, buf |-> o.val]
        BY <1>2 DEF FetchRegister
    <2> PICK r : r = LoadOf(b, "IF")
        OBVIOUS
    <2>3. PICK o \in Lookup("L1I", k, r) :
             /\ cache' = Becomes("L1I", r, o)
             /\ fetch' = [state |-> IF o.answered THEN "done" ELSE "waiting",
                          op |-> "Load", block |-> b, buf |-> o.val]
        BY <2>2
    <2>4. r.op = "Load" /\ r.from = "IF" /\ r.block = b
        BY ReqFields
    <2>5. r \in Requests /\ b \in Blocks
        <3>1. config.code \subseteq Blocks
            BY InvFacts, ConfigFacts
        <3> QED
            BY <3>1 DEF LoadOf, Requests
    <2>6. Servable(config, "L1I", r)
        BY <2>4, <2>5 DEF Servable, Callers, Demand
    <2>7. LookupResult("L1I", k, CodeView, r, o)
        <3>1. LookupContext("L1I", k, CodeView, r)
            BY <2>1, <2>6, InvFacts DEF LookupContext
        <3> QED
            BY <2>3, <3>1, LookupWorks
    <2> PICK h : h = o.cache
        OBVIOUS
    <2>8. /\ LevelInv(config, "L1I", h, CodeView) /\ o.val \in Val \cup {0}
          /\ o.answered \in BOOLEAN
          /\ o.answered => h.fsm = "Idle"
          /\ ~o.answered => h.req = r /\ h.transaction.state = "Sending"
        BY <2>7 DEF LookupResult
    <2>9. o.answered => o.val = stored[b]
        BY <2>4, <2>7, FetchAnswer
    <2>10. cache' = [cache EXCEPT !["L1I"] = h]
        BY <2>3, <2>4, InvFacts, BecomesIs DEF Names
    <2>11. k.transaction.state = "None" /\ ~Busy(k)
        BY <2>1, InvFacts, RestFields
    <2>12. ~Busy(h) /\ (o.answered => h.req.from = "nobody")
        <3>1. h.fsm = "Idle" => ~Busy(h) /\ h.req.from = "nobody"
            BY <2>8, InvFacts, RestFields
        <3> QED
            BY <2>8, <3>1 DEF Busy
    <2>13. /\ fetch'.state = IF o.answered THEN "done" ELSE "waiting"
           /\ fetch'.block = b /\ fetch'.buf = o.val
           /\ fetch' \in Calls
        BY <2>3, <2>5, <2>8 DEF Calls
    <2>14. fetch'.state = "waiting" <=> h.req.from = "IF"
        BY <2>4, <2>8, <2>12, <2>13
    <2>15. fetch'.state = "waiting" => fetch'.block = h.req.block
        BY <2>4, <2>8, <2>13
    <2>16. fetch'.state = "done" => fetch'.buf = stored[fetch'.block]
        BY <2>9, <2>13
    <2>17. fetch'.state # "none" => fetch'.block \in config.code
        BY <2>13
    <2> QED
        BY ONLY IndInv, <1>1, <2>8, <2>10, <2>11, <2>12, <2>13, <2>14, <2>15, <2>16, <2>17,
                FetchStep
<1>3. NoCall \in Calls /\ NoCall.state = "none"
    BY BlockFacts DEF NoCall, Calls
<1>4. CASE FetchAbandon
    <2>1. /\ fetch.state = "waiting" /\ fetch' = NoCall
          /\ cache' = [cache EXCEPT !["L1I"].req.from = "nobody"]
        BY <1>4 DEF FetchAbandon
    <2> PICK h : h = Abandoned(k)
        OBVIOUS
    <2>2. cache' = [cache EXCEPT !["L1I"] = h]
        BY <2>1, InvFacts DEF Abandoned
    <2>3. k.req.from = "IF"
        BY <2>1 DEF IndInv, LinkInv
    <2>4. /\ LevelInv(config, "L1I", h, CodeView)
          /\ h.req.from = "nobody" /\ h.transaction = k.transaction
        BY <2>3, InvFacts, AbandonKeeps
    <2>5. fetch'.state = "none" /\ fetch' \in Calls
        BY <1>3, <2>1
    <2> QED
        BY ONLY IndInv, <1>1, <2>2, <2>4, <2>5, FetchStep
<1>5. CASE fetch.state = "done" /\ fetch' = NoCall /\ UNCHANGED cache
    BY <1>1, <1>3, <1>5, InvFacts, StillStep
<1>6. CASE UNCHANGED <<fetch, cache>>
    BY <1>1, <1>6, InvFacts, StillStep
<1> QED
    BY <1>2, <1>4, <1>5, <1>6 DEF IfStage

(* The ticks of L1D but for the one that hands its request to L2. *)
LEMMA DataTakesPrefetch ==
    ASSUME PrefetchRoom, IndInv, turn = "L1D", turn' = "L2", TakePrefetch("L1D"),
           UNCHANGED <<config, main_mem, stored>>
    PROVE  IndInv'
<1> DEFINE k == cache["L1D"]
<1> PICK h : h = Prefetching(k)
    OBVIOUS
<1>1. /\ QueuedPrefetch(k) /\ cache' = [cache EXCEPT !["L1D"] = h]
      /\ UNCHANGED <<fetch, data, mem_req, overtaken>>
    BY DEF TakePrefetch
<1>2. k.fsm = "Idle"
    BY <1>1 DEF QueuedPrefetch
<1>3. /\ LevelInv(config, "L1D", h, L2View) /\ View(h, L2View) = View(k, L2View)
      /\ h.req.op = "Load" /\ h.req.from = "self" /\ h.transaction = k.transaction
      /\ h.fsm = "Lookup"
    BY <1>1, InvFacts, PrefetchKeeps
<1>4. /\ k.transaction.state = "None" /\ ~Busy(k) /\ ~Busy(h) /\ k.req.from = "nobody"
    <2>1. k.transaction = NoTransaction /\ k.transaction.state = "None" /\ k.req.from = "nobody"
        BY <1>2, InvFacts, RestFields
    <2> QED
        BY <1>3, <2>1 DEF Busy
<1>5. StoredBy(h, L2View, stored')
    <2>1. \A b \in Blocks : ~Pending(h, b) /\ ~Pending(k, b)
        BY <1>2, <1>3 DEF Pending
    <2> QED
        BY <1>3, <2>1, InvFacts, SeenSame
<1>6. data.state # "waiting" /\ data' = data /\ data \in Calls
    BY <1>1, <1>4, InvFacts DEF IndInv, LinkInv
<1>7. data.state = "done" /\ data.op = "Load" => data.buf = stored[data.block]
    BY DEF IndInv, AnswersCurrent
<1>8. stored' = stored /\ stored \in [Blocks -> Val]
    BY InvFacts
<1> QED
    BY <1>1, <1>3, <1>4, <1>5, <1>6, <1>7, <1>8, DataStep

LEMMA DataLooksUp ==
    ASSUME PrefetchRoom, IndInv, turn = "L1D", turn' = "L2", TickLookup("L1D"),
           UNCHANGED <<config, main_mem, stored>>
    PROVE  IndInv'
<1> DEFINE k == cache["L1D"]
<1>1. k.fsm = "Lookup" /\ UNCHANGED <<mem_req, overtaken>>
    BY DEF TickLookup
<1> PICK r : r = k.req
    OBVIOUS
<1>2. PICK o \in Lookup("L1D", k, r) : cache' = Becomes("L1D", r, o) /\ NotifyStages(r, o)
    BY DEF TickLookup
<1>3. Servable(config, "L1D", r) /\ r \in Requests
    BY <1>1, InvFacts, LevelFields DEF ControlInv
<1>4. r.from \in {"MEM", "self"} /\ r.op \in {"Load", "Store"} /\ r.block \in Blocks
    BY <1>3 DEF Servable, Callers, Requests
<1>5. LookupContext("L1D", k, L2View, r) /\ LookupResult("L1D", k, L2View, r, o)
    <2>1. LookupContext("L1D", k, L2View, r)
        BY <1>1, <1>3, InvFacts DEF LookupContext
    <2> QED
        BY <1>2, <2>1, LookupWorks
<1> PICK h : h = o.cache
    OBVIOUS
<1>6. /\ LevelInv(config, "L1D", h, L2View) /\ o.val \in Val \cup {0}
      /\ o.answered \in BOOLEAN
      /\ o.answered => h.fsm = "Idle"
      /\ ~o.answered => h.req = r /\ h.transaction.state = "Sending"
    BY <1>5 DEF LookupResult
<1>7. /\ StoredBy(h, L2View, stored)
      /\ o.answered /\ r.op = "Load" => o.val = stored[r.block]
    <2>1. \A b \in Blocks : stored[b] = IF r.op = "Store" /\ r.block = b THEN r.val
                                        ELSE View(k, L2View)[b]
        BY <1>1, InvFacts DEF StoredBy, Pending
    <2>2. PICK st : st = stored
        OBVIOUS
    <2>3. PICK low : low = L2View
        OBVIOUS
    <2>4. /\ LookupContext("L1D", k, low, r) /\ LookupResult("L1D", k, low, r, o)
          /\ low \in [Blocks -> Val]
        BY <1>5, <2>3, InvFacts
    <2>5. \A b \in Blocks :
            st[b] = IF r.op = "Store" /\ r.block = b THEN r.val ELSE View(k, low)[b]
        BY <2>1, <2>2, <2>3
    <2>6. StoredBy(o.cache, low, st) /\ (o.answered /\ r.op = "Load" => o.val = st[r.block])
        BY ONLY <2>4, <2>5, DataLookup
    <2> QED
        BY <2>2, <2>3, <2>6
<1>8. cache' = [cache EXCEPT !["L1D"] = h] /\ fetch' = fetch
    BY <1>2, <1>4, InvFacts, BecomesIs DEF Names, NotifyStages
<1>9. k.transaction.state = "None" /\ ~Busy(k)
    BY <1>1, InvFacts, RestFields
<1>10. ~Busy(h) /\ (o.answered => h.req.from = "nobody")
    <2>1. h.fsm = "Idle" => ~Busy(h) /\ h.req.from = "nobody"
        BY <1>6, InvFacts, RestFields
    <2> QED
        BY <1>6, <2>1 DEF Busy
<1>11. /\ data.state = "waiting" <=> r.from = "MEM"
       /\ data.state = "waiting" => data.op = r.op /\ data.block = r.block
       /\ data.state = "done" /\ data.op = "Load" => data.buf = stored[data.block]
       /\ data \in Calls
    BY InvFacts DEF IndInv, LinkInv, AnswersCurrent
<1>12. CASE o.answered /\ r.from = "MEM"
    <2>1. data' = [data EXCEPT !.state = "done", !.buf = o.val]
        BY <1>2, <1>12 DEF NotifyStages
    <2>2. /\ data'.state = "done" /\ data'.op = r.op /\ data'.block = r.block
          /\ data'.buf = o.val /\ data' \in Calls
        BY <1>6, <1>11, <1>12, <2>1 DEF Calls
    <2>3. data'.state # "waiting" /\ h.req.from # "MEM"
        BY <1>10, <1>12, <2>2
    <2>4. data'.state = "done" /\ data'.op = "Load" => data'.buf = stored[data'.block]
        BY <1>7, <1>12, <2>2
    <2>5. stored' = stored /\ stored \in [Blocks -> Val]
        BY InvFacts
    <2> QED
        BY <1>1, <1>6, <1>7, <1>8, <1>9, <1>10, <2>2, <2>3, <2>4, <2>5, DataStep
<1>13. CASE ~(o.answered /\ r.from = "MEM")
    <2>1. data' = data
        BY <1>2, <1>13 DEF NotifyStages
    <2>2. /\ data'.state = "waiting" <=> h.req.from = "MEM"
          /\ data'.state = "waiting" => data'.op = h.req.op /\ data'.block = h.req.block
        BY <1>6, <1>10, <1>11, <1>13, <2>1
    <2>3. stored' = stored /\ stored \in [Blocks -> Val]
        BY InvFacts
    <2> QED
        BY <1>1, <1>6, <1>7, <1>8, <1>9, <1>10, <1>11, <2>1, <2>2, <2>3, DataStep
<1> QED
    BY <1>12, <1>13

LEMMA DataCounts ==
    ASSUME PrefetchRoom, IndInv, turn = "L1D", turn' = "L2", TickPenalty("L1D"),
           UNCHANGED <<config, main_mem, stored>>
    PROVE  IndInv'
<1> DEFINE k == cache["L1D"]
<1> PICK h : h = Counted(k)
    OBVIOUS
<1>1. /\ k.fsm = "AdditionalMissPenalty" /\ cache' = [cache EXCEPT !["L1D"] = h]
      /\ UNCHANGED <<fetch, data, mem_req, overtaken>>
    BY DEF TickPenalty
<1>2. /\ LevelInv(config, "L1D", h, L2View) /\ View(h, L2View) = View(k, L2View)
      /\ h.req = k.req /\ h.transaction = k.transaction
      /\ h.fsm \in {"Lookup", "AdditionalMissPenalty"}
    BY <1>1, InvFacts, PenaltyKeeps
<1>3. k.transaction.state = "None" /\ ~Busy(k) /\ ~Busy(h)
    <2>1. k.transaction = NoTransaction /\ k.transaction.state = "None"
        BY <1>1, InvFacts, RestFields
    <2> QED
        BY <1>2, <2>1 DEF Busy
<1>4. StoredBy(h, L2View, stored')
    <2>1. \A b \in Blocks : Pending(h, b) <=> Pending(k, b)
        BY <1>1, <1>2 DEF Pending
    <2> QED
        BY <1>2, <2>1, InvFacts, SeenSame
<1>5. /\ data.state = "waiting" <=> h.req.from = "MEM"
      /\ data.state = "waiting" => data.op = h.req.op /\ data.block = h.req.block
      /\ data.state = "done" /\ data.op = "Load" => data.buf = stored[data.block]
      /\ data \in Calls /\ stored' = stored /\ stored \in [Blocks -> Val]
    BY <1>2, InvFacts DEF IndInv, LinkInv, AnswersCurrent
<1> QED
    BY <1>1, <1>2, <1>3, <1>4, <1>5, DataStep

LEMMA DataAwaits ==
    ASSUME PrefetchRoom, IndInv, turn = "L1D", turn' = "L2", AwaitLower("L1D"),
           UNCHANGED <<config, main_mem, stored>>
    PROVE  IndInv'
<1> DEFINE k == cache["L1D"]
<1>1. k.transaction.state = "Waiting" /\ UNCHANGED <<mem_req, overtaken>>
    BY DEF AwaitLower
<1>2. CASE ~k.transaction.done
    <2>1. UNCHANGED <<cache, fetch, data>>
        BY <1>2 DEF AwaitLower
    <2> QED
        BY <1>1, <2>1, InvFacts, StillStep
<1>3. CASE k.transaction.done
    <2> PICK r : r = k.req
        OBVIOUS
    <2> PICK o : o = Continue("L1D", k)
        OBVIOUS
    <2> PICK h : h = o.cache
        OBVIOUS
    <2>1. cache' = Becomes("L1D", r, o) /\ NotifyStages(r, o)
        BY <1>3 DEF AwaitLower
    <2>2. Servable(config, "L1D", r)
        <3>1. k.fsm # "Idle" /\ ControlInv(config, "L1D", k)
            BY <1>1, InvFacts, LevelFields
        <3> QED
            BY <3>1 DEF ControlInv
    <2>3. r.from \in {"MEM", "self"}
        BY <2>2 DEF Servable, Callers
    <2>4. /\ LevelInv(config, "L1D", h, L2View)
          /\ o.answered \in BOOLEAN /\ o.val = 0 /\ h.transaction.state # "Waiting"
          /\ o.answered => h.fsm = "Idle" /\ r.op = "Store"
          /\ ~o.answered => h.req = r
        BY <1>3, InvFacts, ContinueWorks
    <2>5. StoredBy(h, L2View, stored)
        BY <1>3, InvFacts, DataContinues
    <2>6. cache' = [cache EXCEPT !["L1D"] = h] /\ fetch' = fetch
        BY <2>1, <2>3, InvFacts, BecomesIs DEF Names, NotifyStages
    <2>7. ~Busy(k) /\ ~Busy(h) /\ k.transaction.state # "Sending"
        BY <1>1, <1>3, <2>4 DEF Busy
    <2>8. o.answered => h.req.from = "nobody"
        BY <2>4, InvFacts, RestFields
    <2>9. /\ data.state = "waiting" <=> r.from = "MEM"
          /\ data.state = "waiting" => data.op = r.op /\ data.block = r.block
          /\ data.state = "done" /\ data.op = "Load" => data.buf = stored[data.block]
          /\ data \in Calls /\ stored' = stored /\ stored \in [Blocks -> Val]
        BY InvFacts DEF IndInv, LinkInv, AnswersCurrent
    <2>10. CASE o.answered /\ r.from = "MEM"
        <3>1. data' = [data EXCEPT !.state = "done", !.buf = o.val]
            BY <2>1, <2>10 DEF NotifyStages
        <3>2. data'.state = "done" /\ data'.op = "Store" /\ data' \in Calls
            BY <2>4, <2>9, <2>10, <3>1 DEF Calls
        <3>3. data'.state # "waiting" /\ h.req.from # "MEM"
            BY <2>8, <2>10, <3>2
        <3> QED
            BY <1>1, <2>4, <2>5, <2>6, <2>7, <2>9, <3>2, <3>3, DataStep
    <2>11. CASE ~(o.answered /\ r.from = "MEM")
        <3>1. data' = data
            BY <2>1, <2>11 DEF NotifyStages
        <3>2. /\ data'.state = "waiting" <=> h.req.from = "MEM"
              /\ data'.state = "waiting" => data'.op = h.req.op /\ data'.block = h.req.block
            BY <2>4, <2>8, <2>9, <2>11, <3>1
        <3> QED
            BY <1>1, <2>4, <2>5, <2>6, <2>7, <2>9, <3>1, <3>2, DataStep
    <2> QED
        BY <2>10, <2>11
<1> QED
    BY <1>2, <1>3

(* The ticks of L1I but for the one that hands its request to L2. *)
LEMMA FetchTakesPrefetch ==
    ASSUME PrefetchRoom, IndInv, turn = "L1I", turn' = "L1D", TakePrefetch("L1I"),
           UNCHANGED <<config, main_mem, stored>>
    PROVE  IndInv'
<1> DEFINE k == cache["L1I"]
<1> PICK h : h = Prefetching(k)
    OBVIOUS
<1>1. /\ QueuedPrefetch(k) /\ cache' = [cache EXCEPT !["L1I"] = h]
      /\ UNCHANGED <<fetch, data, mem_req, overtaken>>
    BY DEF TakePrefetch
<1>2. k.fsm = "Idle"
    BY <1>1 DEF QueuedPrefetch
<1>3. /\ LevelInv(config, "L1I", h, CodeView)
      /\ h.req.from = "self" /\ h.transaction = k.transaction
    BY <1>1, InvFacts, PrefetchKeeps
<1>4. k.transaction.state = "None" /\ ~Busy(k) /\ ~Busy(h) /\ k.req.from = "nobody"
    <2>1. k.transaction = NoTransaction /\ k.transaction.state = "None" /\ k.req.from = "nobody"
        BY <1>2, InvFacts, RestFields
    <2> QED
        BY <1>3, <2>1 DEF Busy
<1>5. /\ fetch.state # "waiting" /\ fetch' = fetch /\ fetch \in Calls
      /\ fetch.state # "none" => fetch.block \in config.code
      /\ fetch.state = "done" => fetch.buf = stored[fetch.block]
    BY <1>1, <1>4, InvFacts DEF IndInv, LinkInv, AnswersCurrent
<1> QED
    BY <1>1, <1>3, <1>4, <1>5, FetchStep

LEMMA FetchLooksUp ==
    ASSUME PrefetchRoom, IndInv, turn = "L1I", turn' = "L1D", TickLookup("L1I"),
           UNCHANGED <<config, main_mem, stored>>
    PROVE  IndInv'
<1> DEFINE k == cache["L1I"]
<1>1. k.fsm = "Lookup" /\ UNCHANGED <<mem_req, overtaken>>
    BY DEF TickLookup
<1> PICK r : r = k.req
    OBVIOUS
<1>2. PICK o \in Lookup("L1I", k, r) : cache' = Becomes("L1I", r, o) /\ NotifyStages(r, o)
    BY DEF TickLookup
<1>3. Servable(config, "L1I", r) /\ r \in Requests
    BY <1>1, InvFacts, LevelFields DEF ControlInv
<1>4. r.from \in {"IF", "nobody", "self"} /\ r.op = "Load"
    BY <1>3 DEF Servable, Callers, Requests
<1>5. LookupResult("L1I", k, CodeView, r, o)
    <2>1. LookupContext("L1I", k, CodeView, r)
        BY <1>1, <1>3, InvFacts DEF LookupContext
    <2> QED
        BY <1>2, <2>1, LookupWorks
<1> PICK h : h = o.cache
    OBVIOUS
<1>6. /\ LevelInv(config, "L1I", h, CodeView) /\ o.val \in Val \cup {0}
      /\ o.answered \in BOOLEAN
      /\ o.answered => h.fsm = "Idle"
      /\ ~o.answered => h.req = r /\ h.transaction.state = "Sending"
    BY <1>5 DEF LookupResult
<1>7. cache' = [cache EXCEPT !["L1I"] = h] /\ data' = data
    BY <1>2, <1>4, InvFacts, BecomesIs DEF Names, NotifyStages
<1>8. k.transaction.state = "None" /\ ~Busy(k)
    BY <1>1, InvFacts, RestFields
<1>9. ~Busy(h) /\ (o.answered => h.req.from = "nobody")
    <2>1. h.fsm = "Idle" => ~Busy(h) /\ h.req.from = "nobody"
        BY <1>6, InvFacts, RestFields
    <2> QED
        BY <1>6, <2>1 DEF Busy
<1>10. /\ fetch.state = "waiting" <=> r.from = "IF"
       /\ fetch.state = "waiting" => fetch.block = r.block
       /\ fetch.state # "none" => fetch.block \in config.code
       /\ fetch.state = "done" => fetch.buf = stored[fetch.block]
       /\ fetch \in Calls
    BY InvFacts DEF IndInv, LinkInv, AnswersCurrent
<1>11. CASE o.answered /\ r.from = "IF"
    <2>1. fetch' = [fetch EXCEPT !.state = "done", !.buf = o.val]
        BY <1>2, <1>11 DEF NotifyStages
    <2>2. /\ fetch'.state = "done" /\ fetch'.block = r.block
          /\ fetch'.buf = o.val /\ fetch' \in Calls
        BY <1>6, <1>10, <1>11, <2>1 DEF Calls
    <2>3. r.block \in config.code
        BY <1>10, <1>11
    <2>4. o.val = stored[r.block]
        BY <1>4, <1>5, <1>11, <2>3, FetchAnswer
    <2>5. fetch'.state # "waiting" /\ h.req.from # "IF"
        BY <1>9, <1>11, <2>2
    <2>6. fetch'.state = "done" => fetch'.buf = stored[fetch'.block]
        BY <2>2, <2>4
    <2>7. fetch'.state # "none" => fetch'.block \in config.code
        BY <2>2, <2>3
    <2> QED
        BY <1>1, <1>6, <1>7, <1>8, <1>9, <2>2, <2>5, <2>6, <2>7, FetchStep
<1>12. CASE ~(o.answered /\ r.from = "IF")
    <2>1. fetch' = fetch
        BY <1>2, <1>12 DEF NotifyStages
    <2>2. /\ fetch'.state = "waiting" <=> h.req.from = "IF"
          /\ fetch'.state = "waiting" => fetch'.block = h.req.block
        BY <1>6, <1>9, <1>10, <1>12, <2>1
    <2> QED
        BY <1>1, <1>6, <1>7, <1>8, <1>9, <1>10, <2>1, <2>2, FetchStep
<1> QED
    BY <1>11, <1>12

LEMMA FetchCounts ==
    ASSUME PrefetchRoom, IndInv, turn = "L1I", turn' = "L1D", TickPenalty("L1I"),
           UNCHANGED <<config, main_mem, stored>>
    PROVE  IndInv'
<1> DEFINE k == cache["L1I"]
<1> PICK h : h = Counted(k)
    OBVIOUS
<1>1. /\ k.fsm = "AdditionalMissPenalty" /\ cache' = [cache EXCEPT !["L1I"] = h]
      /\ UNCHANGED <<fetch, data, mem_req, overtaken>>
    BY DEF TickPenalty
<1>2. LevelInv(config, "L1I", h, CodeView) /\ h.req = k.req /\ h.transaction = k.transaction
    BY <1>1, InvFacts, PenaltyKeeps
<1>3. k.transaction.state = "None" /\ ~Busy(k) /\ ~Busy(h)
    <2>1. k.transaction = NoTransaction /\ k.transaction.state = "None"
        BY <1>1, InvFacts, RestFields
    <2> QED
        BY <1>2, <2>1 DEF Busy
<1>4. /\ fetch.state = "waiting" <=> h.req.from = "IF"
      /\ fetch.state = "waiting" => fetch.block = h.req.block
      /\ fetch.state # "none" => fetch.block \in config.code
      /\ fetch.state = "done" => fetch.buf = stored[fetch.block]
      /\ fetch \in Calls
    BY <1>2, InvFacts DEF IndInv, LinkInv, AnswersCurrent
<1> QED
    BY <1>1, <1>2, <1>3, <1>4, FetchStep

LEMMA FetchAwaits ==
    ASSUME PrefetchRoom, IndInv, turn = "L1I", turn' = "L1D", AwaitLower("L1I"),
           UNCHANGED <<config, main_mem, stored>>
    PROVE  IndInv'
<1> DEFINE k == cache["L1I"]
<1>1. k.transaction.state = "Waiting" /\ UNCHANGED <<mem_req, overtaken>>
    BY DEF AwaitLower
<1>2. CASE ~k.transaction.done
    <2>1. UNCHANGED <<cache, fetch, data>>
        BY <1>2 DEF AwaitLower
    <2> QED
        BY <1>1, <2>1, InvFacts, StillStep
<1>3. CASE k.transaction.done
    <2> PICK r : r = k.req
        OBVIOUS
    <2> PICK o : o = Continue("L1I", k)
        OBVIOUS
    <2> PICK h : h = o.cache
        OBVIOUS
    <2>1. cache' = Becomes("L1I", r, o) /\ NotifyStages(r, o)
        BY <1>3 DEF AwaitLower
    <2>2. Servable(config, "L1I", r)
        <3>1. k.fsm # "Idle" /\ ControlInv(config, "L1I", k)
            BY <1>1, InvFacts, LevelFields
        <3> QED
            BY <3>1 DEF ControlInv
    <2>3. r.from \in {"IF", "nobody", "self"} /\ r.op # "Store"
        BY <2>2 DEF Servable, Callers
    <2>4. /\ LevelInv(config, "L1I", h, CodeView) /\ h.transaction.state # "Waiting"
          /\ ~o.answered /\ h.req = r
        BY <1>3, <2>3, InvFacts, ContinueWorks
    <2>5. /\ cache' = [cache EXCEPT !["L1I"] = h] /\ UNCHANGED <<fetch, data>>
        BY <2>1, <2>3, <2>4, InvFacts, BecomesIs DEF Names, NotifyStages
    <2>6. ~Busy(k) /\ ~Busy(h) /\ k.transaction.state # "Sending"
        BY <1>1, <1>3, <2>4 DEF Busy
    <2>7. /\ fetch.state = "waiting" <=> h.req.from = "IF"
          /\ fetch.state = "waiting" => fetch.block = h.req.block
          /\ fetch.state # "none" => fetch.block \in config.code
          /\ fetch.state = "done" => fetch.buf = stored[fetch.block]
          /\ fetch \in Calls
        BY <2>4, InvFacts DEF IndInv, LinkInv, AnswersCurrent
    <2> QED
        BY <1>1, <2>4, <2>5, <2>6, <2>7, FetchStep
<1> QED
    BY <1>2, <1>3

(* L2 is idle and takes request r of an L1 cache: the lookup is part of the  *)
(* call.  d and i are the L1 caches with the request sent.                   *)
LEMMA SendStep ==
    ASSUME PrefetchRoom, IndInv, UNCHANGED <<config, main_mem, stored, fetch, data, mem_req>>,
           cache["L2"].fsm = "Idle",
           NEW c \in {"L1I", "L1D"}, cache[c].transaction.state = "Sending",
           NEW r, r = cache[c].transaction.req, NEW o \in Lookup("L2", cache["L2"], r),
           NEW d, d = IF c = "L1D" THEN Sent(cache["L1D"]) ELSE cache["L1D"],
           NEW i, i = IF c = "L1I" THEN Sent(cache["L1I"]) ELSE cache["L1I"],
           DOMAIN cache' = Names, cache'["L2"] = o.cache,
           cache'["L1D"] = Answered(d, "L1D", r, o), cache'["L1I"] = Answered(i, "L1I", r, o)
    PROVE  /\ CachesInv' /\ StoredInv' /\ LinkInv'
           /\ \A e \in {"L1I", "L1D"} :
                e # c => cache'[e].transaction.state = cache[e].transaction.state
           /\ cache'[c].transaction.state = "Waiting"
           /\ cache'[c].transaction.done => cache'["L2"].fsm = "Idle"
<1> PICK h : h = o.cache
    OBVIOUS
<1> PICK low : low = L2View
    OBVIOUS
<1>1. c \in Names /\ LevelInv(config, "L2", cache["L2"], main_mem)
    BY InvFacts
<1>2. Servable(config, "L2", r) /\ r.from = c /\ r.op \in {"Load", "Store"} /\ r.block \in Blocks
    <2>1. CASE c = "L1I"
        BY <1>1, <2>1, InvFacts, TransactionServable, TransactionAsks DEF Requests
    <2>2. CASE c = "L1D"
        BY <1>1, <2>2, InvFacts, TransactionServable, TransactionAsks DEF Requests
    <2> QED
        BY <2>1, <2>2
<1>3. LookupResult("L2", cache["L2"], main_mem, r, o)
    <2>1. LookupContext("L2", cache["L2"], main_mem, r)
        BY <1>1, <1>2, InvFacts DEF LookupContext
    <2> QED
        BY <2>1, LookupWorks
<1>4. /\ LevelInv(config, "L2", h, main_mem) /\ o.val \in Val \cup {0} /\ o.answered \in BOOLEAN
      /\ o.answered => h.fsm = "Idle"
      /\ ~o.answered => h.req = r /\ h.transaction.state = "Sending"
      /\ o.answered /\ r.op = "Load" => o.val \in Val /\ o.val = low[r.block]
      /\ View(h, main_mem) = IF r.op = "Store" /\ (o.answered \/ h.fsm = "WriteThroughCommit")
                             THEN With(low, r.block, r.val) ELSE low
    BY <1>2, <1>3, InvFacts DEF LookupResult, L2View
<1>5. /\ View(h, main_mem) = low \/ (r.op = "Store" /\ View(h, main_mem) = With(low, r.block, r.val))
      /\ o.answered /\ r.op = "Store" => View(h, main_mem)[r.block] = r.val
    BY <1>2, <1>4, InvFacts DEF With
<1>6. cache["L2"].req.from = "nobody" /\ ~Busy(cache["L2"])
    BY <1>1, InvFacts, RestFields
<1>7. ~Busy(cache["L1D"]) /\ ~Busy(cache["L1I"]) /\ mem_req.req = NoReq
    BY <1>6 DEF IndInv, LinkInv, Busy
<1>8. ~Busy(h) /\ (o.answered => h.req.from = "nobody")
    <2>1. h.fsm = "Idle" => ~Busy(h) /\ h.req.from = "nobody"
        BY <1>4, InvFacts, RestFields
    <2> QED
        BY <1>4, <2>1 DEF Busy
<1>9. /\ LevelInv(config, "L1D", d, low) /\ StoredBy(d, low, stored) /\ d.req = cache["L1D"].req
      /\ Busy(d) <=> c = "L1D"
      /\ c = "L1D" => d.transaction.req = r /\ d.transaction.state = "Waiting"
      /\ c = "L1I" => d = cache["L1D"]
    <2>1. CASE c = "L1D"
        <3>1. d = Sent(cache["L1D"]) /\ LevelInv(config, "L1D", cache["L1D"], low)
              /\ cache["L1D"].transaction.state = "Sending" /\ "L1D" \in Names
              /\ StoredBy(cache["L1D"], low, stored)
            BY <2>1, InvFacts
        <3>2. /\ LevelInv(config, "L1D", d, low) /\ d.req = cache["L1D"].req
              /\ d.transaction.state = "Waiting" /\ ~d.transaction.done
              /\ d.transaction.req = cache["L1D"].transaction.req
            BY <3>1, SentKeeps
        <3>3. StoredBy(d, low, stored)
            BY <3>1, DataSent
        <3> QED
            BY <2>1, <3>2, <3>3 DEF Busy
    <2>2. CASE c = "L1I"
        BY <1>7, <2>2, InvFacts
    <2> QED
        BY <2>1, <2>2
<1>10. /\ LevelInv(config, "L1I", i, CodeView) /\ i.req = cache["L1I"].req
       /\ Busy(i) <=> c = "L1I"
       /\ c = "L1I" => i.transaction.req = r /\ i.transaction.state = "Waiting"
       /\ c = "L1D" => i = cache["L1I"]
    <2>1. CASE c = "L1I"
        <3>1. i = Sent(cache["L1I"]) /\ LevelInv(config, "L1I", cache["L1I"], CodeView)
              /\ cache["L1I"].transaction.state = "Sending" /\ "L1I" \in Names
            BY <2>1, InvFacts
        <3>2. /\ LevelInv(config, "L1I", i, CodeView) /\ i.req = cache["L1I"].req
              /\ i.transaction.state = "Waiting" /\ ~i.transaction.done
              /\ i.transaction.req = cache["L1I"].transaction.req
            BY <3>1, SentKeeps
        <3> QED
            BY <2>1, <3>2 DEF Busy
    <2>2. CASE c = "L1D"
        BY <1>7, <2>2, InvFacts
    <2> QED
        BY <2>1, <2>2
<1>11. ServeContext(d, i, h, main_mem', r, o)
    BY <1>2, <1>4, <1>5, <1>9, <1>10, InvFacts DEF ServeContext
<1>12. /\ CachesInv' /\ StoredInv'
       /\ AnsweredFrom(cache'["L1D"], d, "L1D", r, o)
       /\ AnsweredFrom(cache'["L1I"], i, "L1I", r, o)
    BY <1>11, ServeLevels
<1>13. LinkInv'
    <2>1. h.req.from = IF o.answered THEN "nobody" ELSE c
        BY <1>2, <1>4, <1>8
    <2>2. /\ Busy(cache'["L1D"]) <=> h.req.from = "L1D"
          /\ h.req.from = "L1D" => h.req = cache'["L1D"].transaction.req
        BY <1>2, <1>4, <1>9, <1>12, <2>1 DEF AnsweredFrom
    <2>3. /\ Busy(cache'["L1I"]) <=> h.req.from = "L1I"
          /\ h.req.from = "L1I" => h.req = cache'["L1I"].transaction.req
        BY <1>2, <1>4, <1>10, <1>12, <2>1 DEF AnsweredFrom
    <2>4. cache'["L1D"].req = cache["L1D"].req /\ cache'["L1I"].req = cache["L1I"].req
        BY <1>9, <1>10, <1>12 DEF AnsweredFrom
    <2> QED
        BY <1>7, <1>8, <2>2, <2>3, <2>4 DEF IndInv, LinkInv, Busy
<1>14. /\ \A e \in {"L1I", "L1D"} :
            e # c => cache'[e].transaction.state = cache[e].transaction.state
       /\ cache'[c].transaction.state = "Waiting"
       /\ cache'[c].transaction.done => o.answered
    <2>1. CASE c = "L1I"
        BY <1>9, <1>10, <1>12, <2>1 DEF AnsweredFrom, Busy
    <2>2. CASE c = "L1D"
        BY <1>9, <1>10, <1>12, <2>2 DEF AnsweredFrom, Busy
    <2> QED
        BY <2>1, <2>2
<1> QED
    BY <1>4, <1>12, <1>13, <1>14

(* An L1 cache hands its request to L2, or finds it busy.  L1I is never      *)
(* overtaken while L2 is idle at the turn of L1D, nor L1D while L1I has      *)
(* nothing at L2.                                                            *)
LEMMA SendKeeps ==
    ASSUME PrefetchRoom, IndInv, NEW c \in {"L1I", "L1D"}, turn = c, turn' = After(c),
           SendToL2(c), UNCHANGED <<config, main_mem, stored>>
    PROVE  IndInv'
<1>1. /\ cache[c].transaction.state = "Sending" /\ UNCHANGED <<fetch, data, mem_req>>
      /\ turn' = IF c = "L1I" THEN "L1D" ELSE "L2"
    BY DEF SendToL2, After
<1>2. CASE cache["L2"].fsm # "Idle" /\ UNCHANGED <<cache, overtaken>>
    BY <1>1, <1>2, InvFacts, StillStep
<1>3. CASE ~(cache["L2"].fsm # "Idle" /\ UNCHANGED <<cache, overtaken>>)
    <2> PICK r : r = cache[c].transaction.req
        OBVIOUS
    <2>1. /\ cache["L2"].fsm = "Idle"
          /\ overtaken' = [overtaken EXCEPT
               ![c] = 0,
               ![Other(c)] = @ + (IF cache[Other(c)].transaction.state = "Sending" THEN 1 ELSE 0)]
          /\ \E o \in Lookup("L2", cache["L2"], r) :
               cache' = Notify([cache EXCEPT !["L2"] = o.cache,
                                             ![c].transaction.state = "Waiting"], r, o)
        BY <1>3 DEF SendToL2
    <2>2. PICK o \in Lookup("L2", cache["L2"], r) :
               cache' = Notify([cache EXCEPT !["L2"] = o.cache,
                                             ![c].transaction.state = "Waiting"], r, o)
        BY <2>1
    <2> PICK caches : caches = [cache EXCEPT !["L2"] = o.cache,
                                             ![c].transaction.state = "Waiting"]
        OBVIOUS
    <2> PICK d : d = IF c = "L1D" THEN Sent(cache["L1D"]) ELSE cache["L1D"]
        OBVIOUS
    <2> PICK i : i = IF c = "L1I" THEN Sent(cache["L1I"]) ELSE cache["L1I"]
        OBVIOUS
    <2>3. /\ DOMAIN caches = Names /\ caches["L2"] = o.cache
          /\ caches["L1D"] = d /\ caches["L1I"] = i
        BY InvFacts DEF Sent
    <2>4. r.from = c
        BY <1>1, InvFacts, TransactionAsks
    <2>5. /\ DOMAIN cache' = Names /\ cache'["L2"] = o.cache
          /\ cache'["L1D"] = Answered(d, "L1D", r, o) /\ cache'["L1I"] = Answered(i, "L1I", r, o)
        <3>1. cache' = Notify(caches, r, o)
            BY <2>2
        <3>2. /\ DOMAIN cache' = Names
              /\ \A e \in Names : cache'[e] = Answered(caches[e], e, r, o)
            BY ONLY <2>3, <3>1, NotifyIs
        <3>3. Answered(caches["L2"], "L2", r, o) = caches["L2"]
            BY <2>4 DEF Answered
        <3> QED
            BY <2>3, <3>2, <3>3, InvFacts
    <2>6. /\ CachesInv' /\ StoredInv' /\ LinkInv'
          /\ \A e \in {"L1I", "L1D"} :
               e # c => cache'[e].transaction.state = cache[e].transaction.state
          /\ cache'[c].transaction.state = "Waiting"
          /\ cache'[c].transaction.done => cache'["L2"].fsm = "Idle"
        <3>1. PrefetchRoom /\ IndInv /\ UNCHANGED <<config, main_mem, stored, fetch, data, mem_req>>
            BY <1>1
        <3>2. /\ cache["L2"].fsm = "Idle" /\ c \in {"L1I", "L1D"}
              /\ cache[c].transaction.state = "Sending"
            BY <1>1, <2>1
        <3>3. /\ r = cache[c].transaction.req /\ o \in Lookup("L2", cache["L2"], r)
              /\ d = IF c = "L1D" THEN Sent(cache["L1D"]) ELSE cache["L1D"]
              /\ i = IF c = "L1I" THEN Sent(cache["L1I"]) ELSE cache["L1I"]
            BY <2>2
        <3> QED
            BY ONLY <2>5, <3>1, <3>2, <3>3, SendStep
    <2>7. AnswersCurrent'
        BY <1>1 DEF IndInv, AnswersCurrent
    <2>8. overtaken' \in [{"L1I", "L1D"} -> Nat]
        BY <2>1, InvFacts DEF Other
    <2>9. TypeOK'
        BY <1>1, <2>5, <2>6, <2>8, InvFacts, NewTypes
    <2>10. CASE c = "L1I"
        <3>1. /\ overtaken'["L1I"] = 0
              /\ overtaken'["L1D"] =
                   overtaken["L1D"] + IF cache["L1D"].transaction.state = "Sending" THEN 1 ELSE 0
            BY <2>1, <2>10, InvFacts DEF Other
        <3>2. overtaken["L1D"] = 0
            BY <1>1, <2>10, InvFacts DEF IndInv, OvertakeInv
        <3>3. OvertakeInv'
            BY <1>1, <2>6, <2>10, <3>1, <3>2 DEF OvertakeInv, BoundedOvertaking
        <3> QED
            BY <2>6, <2>7, <2>9, <3>3 DEF IndInv
    <2>11. CASE c = "L1D"
        <3>1. /\ overtaken'["L1D"] = 0
              /\ overtaken'["L1I"] =
                   overtaken["L1I"] + IF cache["L1I"].transaction.state = "Sending" THEN 1 ELSE 0
            BY <2>1, <2>11, InvFacts DEF Other
        <3>2. overtaken["L1I"] = 0
            BY <2>1, <2>11, InvFacts DEF IndInv, OvertakeInv
        <3>3. OvertakeInv'
            BY <1>1, <2>6, <2>11, <3>1, <3>2 DEF OvertakeInv, BoundedOvertaking
        <3> QED
            BY <2>6, <2>7, <2>9, <3>3 DEF IndInv
    <2> QED
        BY <2>10, <2>11
<1> QED
    BY <1>2, <1>3

(* L2 works on a request, its own tick or that of the memory: the L1 caches  *)
(* change only when it is answered.                                          *)
LEMMA NotAnswered ==
    ASSUME IndInv, NEW h, cache' = [cache EXCEPT !["L2"] = h], NEW r, NEW o, ~o.answered
    PROVE  /\ DOMAIN cache' = Names /\ cache'["L2"] = h
           /\ cache'["L1D"] = Answered(cache["L1D"], "L1D", r, o)
           /\ cache'["L1I"] = Answered(cache["L1I"], "L1I", r, o)
BY InvFacts DEF Answered

LEMMA L2Answers ==
    ASSUME IndInv, NEW r, NEW o, cache' = Becomes("L2", r, o), r.from # "L2"
    PROVE  /\ DOMAIN cache' = Names /\ cache'["L2"] = o.cache
           /\ cache'["L1D"] = Answered(cache["L1D"], "L1D", r, o)
           /\ cache'["L1I"] = Answered(cache["L1I"], "L1I", r, o)
<1> PICK caches : caches = [cache EXCEPT !["L2"] = o.cache]
    OBVIOUS
<1>1. /\ DOMAIN caches = Names /\ caches["L2"] = o.cache /\ cache' = Notify(caches, r, o)
      /\ caches["L1D"] = cache["L1D"] /\ caches["L1I"] = cache["L1I"]
    BY InvFacts DEF Becomes
<1>2. /\ DOMAIN cache' = Names
      /\ \A e \in Names : cache'[e] = Answered(caches[e], e, r, o)
    BY ONLY <1>1, NotifyIs
<1>3. Answered(caches["L2"], "L2", r, o) = caches["L2"]
    BY DEF Answered
<1> QED
    BY <1>1, <1>2, <1>3, InvFacts

(* A step of L2 that answers nothing and changes nothing that is seen. *)
LEMMA L2Quietly ==
    ASSUME PrefetchRoom, IndInv, turn = "L2", turn' = "mem",
           UNCHANGED <<config, main_mem, stored, overtaken, fetch, data>>,
           NEW h, cache' = [cache EXCEPT !["L2"] = h],
           LevelInv(config, "L2", h, main_mem), View(h, main_mem) = View(cache["L2"], main_mem),
           h.req = cache["L2"].req \/ (cache["L2"].req = NoReq /\ h.req.from = "self"),
           mem_req' \in [req : Requests, countdown : 0 .. MemLatency],
           Busy(h) <=> mem_req'.req # NoReq,
           mem_req'.req # NoReq => mem_req'.req = h.transaction.req
    PROVE  IndInv'
<1> PICK r : r = cache["L2"].req
    OBVIOUS
<1> PICK o : o = Outcome(h, FALSE, 0)
    OBVIOUS
<1>1. ~o.answered /\ o.answered \in BOOLEAN /\ o.val \in Val \cup {0}
    BY DEF Outcome
<1>2. /\ DOMAIN cache' = Names /\ cache'["L2"] = h
      /\ cache'["L1D"] = Answered(cache["L1D"], "L1D", r, o)
      /\ cache'["L1I"] = Answered(cache["L1I"], "L1I", r, o)
    BY ONLY IndInv, cache' = [cache EXCEPT !["L2"] = h], <1>1, NotAnswered
<1>3. /\ main_mem' \in [Blocks -> Val] /\ LevelInv(config, "L2", h, main_mem')
      /\ View(h, main_mem') = L2View
    BY InvFacts DEF L2View
<1> QED
    BY <1>1, <1>2, <1>3, LowerStep

LEMMA L2TakesPrefetch ==
    ASSUME PrefetchRoom, IndInv, turn = "L2", turn' = "mem", TakePrefetch("L2"),
           UNCHANGED <<config, main_mem, stored>>
    PROVE  IndInv'
<1> DEFINE k == cache["L2"]
<1> PICK h : h = Prefetching(k)
    OBVIOUS
<1>1. /\ QueuedPrefetch(k) /\ cache' = [cache EXCEPT !["L2"] = h]
      /\ UNCHANGED <<fetch, data, mem_req, overtaken>>
    BY DEF TakePrefetch
<1>2. k.fsm = "Idle"
    BY <1>1 DEF QueuedPrefetch
<1>3. /\ LevelInv(config, "L2", h, main_mem) /\ View(h, main_mem) = View(k, main_mem)
      /\ h.req.from = "self" /\ h.transaction = k.transaction
    BY <1>1, InvFacts, PrefetchKeeps
<1>4. k.req = NoReq
    BY <1>2, InvFacts, RestFields
<1>5. /\ Busy(h) <=> mem_req'.req # NoReq
      /\ mem_req'.req # NoReq => mem_req'.req = h.transaction.req
      /\ mem_req' \in [req : Requests, countdown : 0 .. MemLatency]
    BY <1>1, <1>3, InvFacts DEF IndInv, LinkInv, Busy
<1> QED
    BY <1>1, <1>3, <1>4, <1>5, L2Quietly

LEMMA L2Counts ==
    ASSUME PrefetchRoom, IndInv, turn = "L2", turn' = "mem", TickPenalty("L2"),
           UNCHANGED <<config, main_mem, stored>>
    PROVE  IndInv'
<1> DEFINE k == cache["L2"]
<1> PICK h : h = Counted(k)
    OBVIOUS
<1>1. /\ k.fsm = "AdditionalMissPenalty" /\ cache' = [cache EXCEPT !["L2"] = h]
      /\ UNCHANGED <<fetch, data, mem_req, overtaken>>
    BY DEF TickPenalty
<1>2. /\ LevelInv(config, "L2", h, main_mem) /\ View(h, main_mem) = View(k, main_mem)
      /\ h.req = k.req /\ h.transaction = k.transaction
    BY <1>1, InvFacts, PenaltyKeeps
<1>3. /\ Busy(h) <=> mem_req'.req # NoReq
      /\ mem_req'.req # NoReq => mem_req'.req = h.transaction.req
      /\ mem_req' \in [req : Requests, countdown : 0 .. MemLatency]
    BY <1>1, <1>2, InvFacts DEF IndInv, LinkInv, Busy
<1> QED
    BY <1>1, <1>2, <1>3, L2Quietly

LEMMA L2Sends ==
    ASSUME PrefetchRoom, IndInv, turn = "L2", turn' = "mem", SendToMemory("L2"),
           UNCHANGED <<config, main_mem, stored>>
    PROVE  IndInv'
<1> DEFINE k == cache["L2"]
<1> PICK h : h = Sent(k)
    OBVIOUS
<1>1. /\ k.transaction.state = "Sending" /\ cache' = [cache EXCEPT !["L2"] = h]
      /\ mem_req' = [req |-> k.transaction.req, countdown |-> MemLatency]
      /\ UNCHANGED <<fetch, data, overtaken>>
    BY InvFacts DEF SendToMemory, Sent
<1>2. /\ LevelInv(config, "L2", h, main_mem) /\ View(h, main_mem) = View(k, main_mem)
      /\ h.req = k.req /\ h.transaction.state = "Waiting" /\ ~h.transaction.done
      /\ h.transaction.req = k.transaction.req
    <2>1. PICK low : low = main_mem
        OBVIOUS
    <2>2. PICK x : x = cache["L2"]
        OBVIOUS
    <2>3. PICK g : g = config
        OBVIOUS
    <2>4. /\ LevelInv(g, "L2", x, low) /\ "L2" \in Names /\ x.transaction.state = "Sending"
          /\ h = Sent(x)
        BY <1>1, <2>1, <2>2, <2>3, InvFacts
    <2>5. /\ LevelInv(g, "L2", h, low) /\ View(h, low) = View(x, low)
          /\ h.req = x.req /\ h.transaction.state = "Waiting" /\ ~h.transaction.done
          /\ h.transaction.req = x.transaction.req
        BY ONLY <2>4, SentKeeps
    <2> QED
        BY <2>1, <2>2, <2>3, <2>5
<1>3. k.transaction.req \in Requests /\ k.transaction.req # NoReq
    BY <1>1, InvFacts, TransactionAsks, ReqFields
<1>4. Busy(h) /\ mem_req'.req = h.transaction.req /\ mem_req'.req # NoReq
    BY <1>1, <1>2, <1>3 DEF Busy
<1>5. mem_req' \in [req : Requests, countdown : 0 .. MemLatency]
    BY <1>1, <1>3, HierarchyAssumption
<1> QED
    BY <1>1, <1>2, <1>4, <1>5, L2Quietly

LEMMA L2LooksUp ==
    ASSUME PrefetchRoom, IndInv, turn = "L2", turn' = "mem", TickLookup("L2"),
           UNCHANGED <<config, main_mem, stored>>
    PROVE  IndInv'
<1> DEFINE k == cache["L2"]
<1>1. k.fsm = "Lookup" /\ UNCHANGED <<mem_req, overtaken>>
    BY DEF TickLookup
<1> PICK r : r = k.req
    OBVIOUS
<1>2. PICK o \in Lookup("L2", k, r) : cache' = Becomes("L2", r, o) /\ NotifyStages(r, o)
    BY DEF TickLookup
<1>3. Servable(config, "L2", r) /\ r \in Requests
    BY <1>1, InvFacts, LevelFields DEF ControlInv
<1>4. r.from \in {"L1I", "L1D", "self"} /\ r.op \in {"Load", "Store"} /\ r.block \in Blocks
    BY <1>3 DEF Servable, Callers, Requests
<1>5. LookupResult("L2", k, main_mem, r, o)
    <2>1. LookupContext("L2", k, main_mem, r)
        BY <1>1, <1>3, InvFacts DEF LookupContext
    <2> QED
        BY <1>2, <2>1, LookupWorks
<1> PICK h : h = o.cache
    OBVIOUS
<1>6. /\ LevelInv(config, "L2", h, main_mem) /\ o.val \in Val \cup {0}
      /\ o.answered \in BOOLEAN
      /\ o.answered => h.fsm = "Idle"
      /\ ~o.answered => h.req = r /\ h.transaction.state = "Sending"
      /\ o.answered /\ r.op = "Load" => o.val \in Val /\ o.val = L2View[r.block]
      /\ View(h, main_mem) = IF r.op = "Store" /\ (o.answered \/ h.fsm = "WriteThroughCommit")
                             THEN With(L2View, r.block, r.val) ELSE L2View
    BY <1>4, <1>5, InvFacts DEF LookupResult, L2View
<1>7. /\ View(h, main_mem) = L2View
         \/ (r.op = "Store" /\ View(h, main_mem) = With(L2View, r.block, r.val))
      /\ o.answered /\ r.op = "Store" => View(h, main_mem)[r.block] = r.val
    BY <1>4, <1>6, InvFacts DEF With
<1>8. /\ DOMAIN cache' = Names /\ cache'["L2"] = h
      /\ cache'["L1D"] = Answered(cache["L1D"], "L1D", r, o)
      /\ cache'["L1I"] = Answered(cache["L1I"], "L1I", r, o)
    BY <1>2, <1>4, L2Answers
<1>9. UNCHANGED <<fetch, data>>
    BY <1>2, <1>4 DEF NotifyStages
<1>10. ~Busy(k) /\ ~Busy(h)
    <2>1. h.fsm = "Idle" => ~Busy(h)
        BY <1>6, InvFacts, RestFields
    <2>2. ~Busy(k)
        BY <1>1, InvFacts, RestFields
    <2> QED
        BY <1>6, <2>1, <2>2 DEF Busy
<1>11. mem_req'.req = NoReq /\ mem_req' \in [req : Requests, countdown : 0 .. MemLatency]
    BY <1>1, <1>10, InvFacts DEF IndInv, LinkInv, Busy
<1>12. main_mem' = main_mem /\ main_mem \in [Blocks -> Val]
    BY InvFacts
<1> QED
    BY <1>1, <1>6, <1>7, <1>8, <1>9, <1>10, <1>11, <1>12, LowerStep

LEMMA L2Awaits ==
    ASSUME PrefetchRoom, IndInv, turn = "L2", turn' = "mem", AwaitLower("L2"),
           UNCHANGED <<config, main_mem, stored>>
    PROVE  IndInv'
<1> DEFINE k == cache["L2"]
<1>1. k.transaction.state = "Waiting" /\ UNCHANGED <<mem_req, overtaken>>
    BY DEF AwaitLower
<1>2. CASE ~k.transaction.done
    <2>1. UNCHANGED <<cache, fetch, data>>
        BY <1>2 DEF AwaitLower
    <2> QED
        BY <1>1, <2>1, InvFacts, StillStep
<1>3. CASE k.transaction.done
    <2> PICK r : r = k.req
        OBVIOUS
    <2> PICK o : o = Continue("L2", k)
        OBVIOUS
    <2> PICK h : h = o.cache
        OBVIOUS
    <2>1. cache' = Becomes("L2", r, o) /\ NotifyStages(r, o)
        BY <1>3 DEF AwaitLower
    <2>2. Servable(config, "L2", r) /\ r \in Requests
        <3>1. k.fsm # "Idle" /\ ControlInv(config, "L2", k)
            BY <1>1, InvFacts, LevelFields
        <3> QED
            BY <3>1 DEF ControlInv, Servable
    <2>3. r.from \in {"L1I", "L1D", "self"} /\ r.block \in Blocks
        BY <2>2 DEF Servable, Callers, Requests
    <2>4. /\ LevelInv(config, "L2", h, main_mem) /\ View(h, main_mem) = L2View
          /\ o.answered \in BOOLEAN /\ o.val = 0 /\ h.transaction.state # "Waiting"
          /\ o.answered => h.fsm = "Idle" /\ r.op = "Store" /\ L2View[r.block] = r.val
          /\ ~o.answered => h.req = r
        BY <1>3, <2>3, InvFacts, ContinueWorks DEF L2View
    <2>5. /\ DOMAIN cache' = Names /\ cache'["L2"] = h
          /\ cache'["L1D"] = Answered(cache["L1D"], "L1D", r, o)
          /\ cache'["L1I"] = Answered(cache["L1I"], "L1I", r, o)
        BY <2>1, <2>3, L2Answers
    <2>6. UNCHANGED <<fetch, data>>
        BY <2>1, <2>3 DEF NotifyStages
    <2>7. ~Busy(k) /\ ~Busy(h)
        BY <1>1, <1>3, <2>4 DEF Busy
    <2>8. mem_req'.req = NoReq /\ mem_req' \in [req : Requests, countdown : 0 .. MemLatency]
        BY <1>1, <2>7, InvFacts DEF IndInv, LinkInv, Busy
    <2>9. main_mem' = main_mem /\ main_mem \in [Blocks -> Val] /\ o.val \in Val \cup {0}
        BY <2>4, InvFacts
    <2> QED
        BY <1>1, <2>4, <2>5, <2>6, <2>7, <2>8, <2>9, LowerStep
<1> QED
    BY <1>2, <1>3

(* The tick of a cache. *)
LEMMA TickKeeps ==
    ASSUME PrefetchRoom, IndInv, NEW c \in Names, TickCache(c)
    PROVE  IndInv'
<1>1. /\ turn = c /\ turn' = After(c) /\ UNCHANGED <<config, main_mem, stored>>
      /\ c \in {"L1I", "L1D", "L2"}
    BY DEF TickCache, Names
<1>2. CASE NothingToDo(c)
    <2>1. /\ cache[c].fsm = "Idle" /\ UNCHANGED <<cache, fetch, data, mem_req, overtaken>>
        BY <1>2 DEF NothingToDo
    <2>2. turn' = IF c = "L1I" THEN "L1D" ELSE IF c = "L1D" THEN "L2" ELSE "mem"
        BY <1>1 DEF After
    <2>3. c = "L1I" => cache["L1I"].transaction.state # "Sending"
        BY <2>1, InvFacts, RestFields
    <2>4. c = "L1D" => cache["L1D"].transaction.state # "Sending"
        BY <2>1, InvFacts, RestFields
    <2> QED
        BY <1>1, <2>1, <2>2, <2>3, <2>4, InvFacts, StillStep
<1>3. CASE c = "L1I" /\ ~NothingToDo(c)
    <2>1. turn' = "L1D"
        BY <1>1, <1>3 DEF After
    <2>2. \/ TakePrefetch("L1I") \/ TickLookup("L1I") \/ SendToL2("L1I")
          \/ AwaitLower("L1I") \/ TickPenalty("L1I")
        BY <1>3 DEF TickCache, SendToMemory
    <2> QED
        BY <1>1, <1>3, <2>1, <2>2, FetchTakesPrefetch, FetchLooksUp, SendKeeps, FetchAwaits,
           FetchCounts
<1>4. CASE c = "L1D" /\ ~NothingToDo(c)
    <2>1. turn' = "L2"
        BY <1>1, <1>4 DEF After
    <2>2. \/ TakePrefetch("L1D") \/ TickLookup("L1D") \/ SendToL2("L1D")
          \/ AwaitLower("L1D") \/ TickPenalty("L1D")
        BY <1>4 DEF TickCache, SendToMemory
    <2> QED
        BY <1>1, <1>4, <2>1, <2>2, DataTakesPrefetch, DataLooksUp, SendKeeps, DataAwaits, DataCounts
<1>5. CASE c = "L2" /\ ~NothingToDo(c)
    <2>1. turn' = "mem"
        BY <1>1, <1>5 DEF After
    <2>2. \/ TakePrefetch("L2") \/ TickLookup("L2") \/ SendToMemory("L2")
          \/ AwaitLower("L2") \/ TickPenalty("L2")
        BY <1>5 DEF TickCache, SendToL2
    <2> QED
        BY <1>1, <1>5, <2>1, <2>2, L2TakesPrefetch, L2LooksUp, L2Sends, L2Awaits, L2Counts
<1> QED
    BY <1>1, <1>2, <1>3, <1>4, <1>5

(* The memory performs the request of L2.  A store is seen above L2 only     *)
(* when it was written around, and then it is the one L2 is working on.      *)
LEMMA MemoryKeeps ==
    ASSUME PrefetchRoom, IndInv, TickMemory
    PROVE  IndInv'
<1> DEFINE k == cache["L2"]
<1>1. turn = "mem" /\ turn' = "MEM" /\ UNCHANGED <<config, fetch, data, stored, overtaken>>
    BY DEF TickMemory
<1>2. CASE mem_req.req = NoReq
    BY <1>1, <1>2, InvFacts, StillStep DEF TickMemory
<1>3. CASE mem_req.req # NoReq /\ mem_req.countdown > 0
    <2>1. mem_req.countdown \in 0 .. MemLatency /\ mem_req.req \in Requests
        BY InvFacts
    <2>2. mem_req.countdown # 0
        BY <1>3, <2>1, HierarchyAssumption
    <2>3. mem_req' = [mem_req EXCEPT !.countdown = @ - 1] /\ UNCHANGED <<main_mem, cache>>
        BY <1>3, <2>2 DEF TickMemory
    <2>4. mem_req.countdown - 1 \in 0 .. MemLatency
        BY <1>3, <2>1, HierarchyAssumption
    <2>5. /\ mem_req' \in [req : Requests, countdown : 0 .. MemLatency]
          /\ mem_req'.req = mem_req.req
        BY <2>3, <2>4, InvFacts
    <2> QED
        BY <1>1, <2>3, <2>5, InvFacts, StillStep
<1>4. CASE mem_req.req # NoReq /\ ~(mem_req.countdown > 0)
    <2> PICK t : t = mem_req.req
        OBVIOUS
    <2> PICK v : v = main_mem[t.block]
        OBVIOUS
    <2> PICK r : r = k.req
        OBVIOUS
    <2>1. /\ main_mem' = IF t.op = "Store" THEN With(main_mem, t.block, t.val) ELSE main_mem
          /\ cache' = Notify(cache, t, Outcome(NoReq, TRUE, v))
          /\ mem_req' = [mem_req EXCEPT !.req = NoReq]
        BY <1>4 DEF TickMemory, With
    <2>2. k.transaction.state = "Waiting" /\ ~k.transaction.done /\ k.transaction.req = t
        BY <1>4 DEF IndInv, LinkInv
    <2>3. /\ t \in Requests /\ t.from = "L2" /\ t.op \in {"Load", "Store"} /\ t.block \in Blocks
          /\ t.op = "Store" => t.val \in Val
        BY <2>2, InvFacts, TransactionAsks DEF Requests
    <2> PICK h : h = Done(k, v)
        OBVIOUS
    <2> PICK o : o = Outcome(NoReq, FALSE, 0)
        OBVIOUS
    <2>4. /\ DOMAIN cache' = Names /\ cache'["L2"] = h
          /\ cache'["L1D"] = Answered(cache["L1D"], "L1D", r, o)
          /\ cache'["L1I"] = Answered(cache["L1I"], "L1I", r, o)
        <3> PICK a : a = Outcome(NoReq, TRUE, v)
            OBVIOUS
        <3>1. cache' = Notify(cache, t, a) /\ DOMAIN cache = Names
            BY <2>1, InvFacts
        <3>2. DOMAIN cache' = Names /\ \A e \in Names : cache'[e] = Answered(cache[e], e, t, a)
            BY ONLY <3>1, NotifyIs
        <3>3. /\ Answered(k, "L2", t, a) = h
              /\ \A x, e : e # "L2" => Answered(x, e, t, a) = x
              /\ \A x, e : Answered(x, e, r, o) = x
            BY <2>3 DEF Answered, Outcome
        <3>4. cache'["L2"] = Answered(cache["L2"], "L2", t, a)
            BY <3>2, InvFacts
        <3>5. cache'["L1D"] = Answered(cache["L1D"], "L1D", t, a)
            BY <3>2, InvFacts
        <3>6. cache'["L1I"] = Answered(cache["L1I"], "L1I", t, a)
            BY <3>2, InvFacts
        <3> QED
            BY ONLY <3>2, <3>3, <3>4, <3>5, <3>6
    <2>5. /\ LevelInv(config, "L2", k, main_mem')
          /\ \/ View(k, main_mem') = L2View
             \/ r.op = "Store" /\ View(k, main_mem') = With(L2View, r.block, r.val)
        <3>1. CASE t.op = "Load"
            BY <2>1, <3>1, InvFacts DEF L2View
        <3>2. CASE t.op = "Store"
            <4>1. PICK low : low = main_mem
                OBVIOUS
            <4>2. PICK new : new = main_mem'
                OBVIOUS
            <4>3. PICK x : x = cache["L2"]
                OBVIOUS
            <4>4. PICK g : g = config
                OBVIOUS
            <4>5. /\ "L2" \in Names /\ LevelInv(g, "L2", x, low) /\ x.transaction.state # "None"
                  /\ ~x.transaction.done /\ x.transaction.req.op = "Store"
                  /\ x.transaction.req.block \in DOMAIN low
                  /\ new = With(low, x.transaction.req.block, x.transaction.req.val)
                BY <2>1, <2>2, <2>3, <3>2, <4>1, <4>2, <4>3, <4>4, InvFacts
            <4>6. /\ LevelInv(g, "L2", x, new)
                  /\ x.fsm # "WriteAround" => View(x, new) = View(x, low)
                  /\ x.fsm = "WriteAround" =>
                       View(x, new) = With(View(x, low), x.req.block, x.req.val)
                BY ONLY <4>5, StoredBelow
            <4>7. x.fsm = "WriteAround" => x.req.op = "Store"
                <5>1. ControlInv(config, "L2", x)
                    BY <4>3, InvFacts, LevelFields
                <5> QED
                    BY <5>1 DEF ControlInv
            <4> QED
                BY <4>1, <4>2, <4>3, <4>4, <4>6, <4>7 DEF L2View
        <3> QED
            BY <2>3, <3>1, <3>2
    <2>6. /\ v \in Val /\ main_mem' \in [Blocks -> Val]
          /\ main_mem'[t.block] = IF t.op = "Load" THEN v ELSE t.val
        BY <2>1, <2>3, InvFacts DEF With
    <2>7. /\ LevelInv(config, "L2", h, main_mem') /\ View(h, main_mem') = View(k, main_mem')
          /\ h.req = k.req /\ h.fsm = k.fsm /\ h.transaction.done
        <3>1. PICK low : low = main_mem'
            OBVIOUS
        <3>2. PICK x : x = cache["L2"]
            OBVIOUS
        <3>3. PICK g : g = config
            OBVIOUS
        <3>4. /\ "L2" \in Names /\ LevelInv(g, "L2", x, low) /\ x.transaction.state = "Waiting"
              /\ v \in Val \cup {0} /\ v \in Val /\ h = Done(x, v)
            BY <2>2, <2>5, <2>6, <3>1, <3>2, <3>3, InvFacts
        <3>5. x.transaction.req.block \in DOMAIN low =>
                low[x.transaction.req.block] =
                  IF x.transaction.req.op = "Load" THEN v ELSE x.transaction.req.val
            BY <2>2, <2>6, <3>1, <3>2
        <3>6. /\ LevelInv(g, "L2", h, low) /\ View(h, low) = View(x, low)
            BY ONLY <3>4, <3>5, DoneKeeps
        <3>7. k \in CacheStates("L2")
            BY InvFacts, LevelFields
        <3>8. h.req = k.req /\ h.fsm = k.fsm /\ h.transaction.done
            BY <3>7, InvFacts, DoneFields
        <3> QED
            BY <3>1, <3>2, <3>3, <3>6, <3>8
    <2>8. ~Busy(h) /\ mem_req'.req = NoReq
          /\ mem_req' \in [req : Requests, countdown : 0 .. MemLatency]
        BY <2>1, <2>7, InvFacts, ReqTypes DEF Busy
    <2>9. ~o.answered /\ o.answered \in BOOLEAN /\ o.val \in Val \cup {0}
        BY DEF Outcome
    <2>10. \/ View(h, main_mem') = L2View
           \/ r.op = "Store" /\ View(h, main_mem') = With(L2View, r.block, r.val)
        BY <2>5, <2>7
    <2> QED
        BY <1>1, <2>4, <2>6, <2>7, <2>8, <2>9, <2>10, LowerStep
<1> QED
    BY <1>2, <1>3, <1>4

-----------------------------------------------------------------------------
LEMMA IndInvInit ==
    ASSUME PrefetchRoom, Init
    PROVE  IndInv
<1>1. /\ config \in Configs /\ main_mem = Image /\ Image \in [Blocks -> Val] /\ stored = main_mem
      /\ mem_req = [req |-> NoReq, countdown |-> 0] /\ fetch = NoCall /\ data = NoCall
      /\ overtaken = [c \in {"L1I", "L1D"} |-> 0] /\ turn = "MEM"
      /\ DOMAIN cache = Names /\ \A c \in Names : cache[c] = NewCache(c)
    BY HierarchyAssumption DEF Init
<1>2. ASSUME NEW c \in Names, NEW low, NEW k, k = NewCache(c)
      PROVE  /\ LevelInv(config, c, k, low) /\ \A b : Holders(k, b) = {}
             /\ k.fsm = "Idle" /\ k.transaction = NoTransaction /\ k.req = NoReq
    <2>1. /\ k.fsm = "Idle" /\ k.req = NoReq /\ k.transaction = NoTransaction
          /\ k.lines = [w \in Ways(c) |-> EmptyLine] /\ k.prefetch_queue = <<>>
        BY <1>2 DEF NewCache
    <2>2. k \in CacheStates(c)
        <3>1. EmptyLine \in [valid : BOOLEAN, tag : Blocks, dirty : BOOLEAN, val : Val \cup {0}]
            BY BlockFacts DEF EmptyLine
        <3>2. <<>> \in Seq(Blocks) /\ 0 \in 0 .. MissPenalty
            BY HierarchyAssumption
        <3> QED
            BY <1>2, <3>1, <3>2, ReqTypes, WayFacts DEF NewCache, CacheStates
    <2>3. \A w \in Ways(c) : ~k.lines[w].valid /\ ~k.lines[w].dirty
        BY <2>1 DEF EmptyLine
    <2>4. \A b : Holders(k, b) = {}
        BY <1>2, <2>2, <2>3, HolderFacts
    <2>5. ~k.transaction.done
        BY <2>1, TransactionFields
    <2>6. ControlInv(config, c, k)
        BY <2>1, <2>5 DEF ControlInv
    <2>7. LinesInv(config, c, k) /\ AgreeInv(k, low)
        <3>1. DOMAIN k.lines = Ways(c)
            BY <2>1
        <3> QED
            BY <2>3, <2>5, <3>1 DEF LinesInv, AgreeInv
    <2>8. QueueInv(config, c, k)
        BY <2>1 DEF QueueInv
    <2> QED
        BY <2>1, <2>2, <2>4, <2>5, <2>6, <2>7, <2>8 DEF LevelInv
<1>3. \A c \in Names : /\ \A low : LevelInv(config, c, cache[c], low)
                       /\ \A b : Holders(cache[c], b) = {}
                       /\ cache[c].fsm = "Idle" /\ cache[c].transaction = NoTransaction
                       /\ cache[c].req = NoReq
    BY <1>1, <1>2
<1>4. CachesInv
    BY <1>3 DEF CachesInv, Names
<1>5. StoredInv
    <2>1. L2View = main_mem
        BY <1>1, <1>3 DEF L2View, View, Names
    <2>2. \A b \in Blocks : View(cache["L1D"], main_mem)[b] = main_mem[b]
        BY <1>1, <1>3 DEF View, Names
    <2>3. \A b \in Blocks : ~Pending(cache["L1D"], b)
        BY <1>3 DEF Pending, Names
    <2> QED
        BY <1>1, <2>1, <2>2, <2>3 DEF StoredInv, StoredBy
<1>6. LinkInv
    <2>1. \A c \in Names : cache[c].transaction.state = "None" /\ cache[c].req.from = "nobody"
        BY <1>3, TransactionFields, ReqFields
    <2> QED
        BY <1>1, <2>1 DEF LinkInv, NoCall, Names
<1>7. AnswersCurrent
    BY <1>1 DEF AnswersCurrent, NoCall
<1>8. OvertakeInv
    BY <1>1 DEF OvertakeInv, BoundedOvertaking
<1>9. TypeOK
    <2>1. \A c \in Names : cache[c] \in CacheStates(c)
        BY <1>3 DEF LevelInv
    <2>2. NoCall \in Calls
        BY BlockFacts DEF NoCall, Calls
    <2>3. mem_req \in [req : Requests, countdown : 0 .. MemLatency]
        BY <1>1, ReqTypes, HierarchyAssumption
    <2> QED
        BY <1>1, <2>1, <2>2, <2>3 DEF TypeOK
<1> QED
    BY <1>4, <1>5, <1>6, <1>7, <1>8, <1>9 DEF IndInv

LEMMA IndInvNext ==
    ASSUME PrefetchRoom, IndInv, [Next]_vars
    PROVE  IndInv'
<1>1. CASE MemStage
    BY <1>1, MemStageKeeps
<1>2. CASE IfStage
    BY <1>2, IfStageKeeps
<1>3. CASE \E c \in Names : TickCache(c)
    BY <1>3, TickKeeps
<1>4. CASE TickMemory
    BY <1>4, MemoryKeeps
<1>5. CASE UNCHANGED vars
    BY <1>5 DEF vars, IndInv, TypeOK, CachesInv, L2View, CodeView, StoredInv, LinkInv,
                AnswersCurrent, OvertakeInv, BoundedOvertaking
<1> QED
    BY <1>1, <1>2, <1>3, <1>4, <1>5 DEF Next

(* While nothing is in progress no store is pending, so what MEM sees        *)
(* through L1D and L2 is what was stored.                                    *)
LEMMA QuietIsStored ==
    ASSUME IndInv
    PROVE  NothingLost
<1> SUFFICES ASSUME Quiet, NEW b \in Blocks
             PROVE  /\ Newest(b) = stored[b]
                    /\ \A c \in Names : Cardinality(Holders(cache[c], b)) <= 1
    BY DEF NothingLost
<1>1. Newest(b) = stored[b]
    <2>1. stored[b] = View(cache["L1D"], L2View)[b]
        BY InvFacts DEF Quiet, Pending, StoredBy
    <2>2. View(cache["L1D"], L2View)[b] =
            IF Holders(cache["L1D"], b) = {} THEN L2View[b] ELSE Copy("L1D", b)
        BY InvFacts DEF View, Copy
    <2>3. L2View[b] = IF Holders(cache["L2"], b) = {} THEN main_mem[b] ELSE Copy("L2", b)
        BY InvFacts DEF L2View, View, Copy
    <2> QED
        BY <2>1, <2>2, <2>3 DEF Newest
<1>2. ASSUME NEW c \in Names PROVE Cardinality(Holders(cache[c], b)) <= 1
    <2>1. cache[c] \in CacheStates(c) /\ LinesInv(config, c, cache[c])
        BY InvFacts, LevelFields DEF Names
    <2>2. \A v, w \in Holders(cache[c], b) : v = w
        BY <2>1, HolderFacts DEF LinesInv
    <2>3. CASE Holders(cache[c], b) = {}
        BY <2>3, FS_EmptySet
    <2>4. CASE Holders(cache[c], b) # {}
        <3>1. PICK w : Holders(cache[c], b) = {w}
            BY <2>2, <2>4
        <3>2. Cardinality({w}) = 1
            BY FS_Singleton
        <3> QED
            BY <3>1, <3>2
    <2> QED
        BY <2>3, <2>4
<1> QED
    BY <1>1, <1>2

-----------------------------------------------------------------------------
(* The inductive invariant of the three caches and the memory. *)
THEOREM HierarchyInvariant ==
    ASSUME PrefetchRoom
    PROVE  Spec => []IndInv
<1>1. Init => IndInv
    BY IndInvInit
<1>2. IndInv /\ [Next]_vars => IndInv'
    BY IndInvNext
<1> QED
    BY <1>1, <1>2, PTL DEF Spec

(* Type correctness: every request at every level is for a block of the      *)
(* memory, and no countdown of a cache or of the memory leaves its range.    *)
THEOREM HierarchyTypes ==
    ASSUME PrefetchRoom
    PROVE  Spec => []TypeOK
<1>1. IndInv => TypeOK
    BY DEF IndInv
<1> QED
    BY <1>1, HierarchyInvariant, PTL

(* A load of MEM and a fetch of IF are answered with what was stored last,   *)
(* whichever levels the block went through on the way.                       *)
THEOREM AnswersAlwaysCurrent ==
    ASSUME PrefetchRoom
    PROVE  Spec => []AnswersCurrent
<1>1. IndInv => AnswersCurrent
    BY DEF IndInv
<1> QED
    BY <1>1, HierarchyInvariant, PTL

(* No stored value is lost between the levels: once the caches are idle, the *)
(* copy nearest to MEM is the last stored value, and there is one per cache. *)
THEOREM NothingEverLost ==
    ASSUME PrefetchRoom
    PROVE  Spec => []NothingLost
<1>1. IndInv => NothingLost
    BY QuietIsStored
<1> QED
    BY <1>1, HierarchyInvariant, PTL

(* Neither L1 cache is overtaken twice at L2 while it tries to send, though  *)
(* the order of the ticks always favours L1I.                                *)
THEOREM OvertakenAtMostOnce ==
    ASSUME PrefetchRoom
    PROVE  Spec => []BoundedOvertaking
<1>1. IndInv => BoundedOvertaking
    BY DEF IndInv, OvertakeInv
<1> QED
    BY <1>1, HierarchyInvariant, PTL
=============================================================================
