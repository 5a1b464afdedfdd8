--------------------------- MODULE CacheStatistics ---------------------------
(* The counters hpm of a cache (general_cache/statistic.rs), added to the    *)
(* cache of GeneralCache: which of its steps count what.                     *)
EXTENDS MCGeneralCache

CONSTANT MaxLookups   \* bound on the lookups that are counted

VARIABLES load_cnt, load_miss_cnt, store_cnt, store_miss_cnt, prefetch_issued_cnt,
          prefetch_accesses   \* history: refills the prefetches asked the next level for

demandCounters == <<load_cnt, load_miss_cnt, store_cnt, store_miss_cnt>>
counters == <<demandCounters, prefetch_issued_cnt, prefetch_accesses>>

CountersInit ==
    /\ load_cnt = 0 /\ load_miss_cnt = 0
    /\ store_cnt = 0 /\ store_miss_cnt = 0
    /\ prefetch_issued_cnt = 0 /\ prefetch_accesses = 0

One(condition) == IF condition THEN 1 ELSE 0

(* StatisticInfo::load and store. *)
CountAccess(op, is_miss) ==
    /\ load_cnt' = load_cnt + One(op = "Load")
    /\ load_miss_cnt' = load_miss_cnt + One(op = "Load" /\ is_miss)
    /\ store_cnt' = store_cnt + One(op = "Store")
    /\ store_miss_cnt' = store_miss_cnt + One(op = "Store" /\ is_miss)

(* What the Lookup arm counts for request r: a prefetch nothing, a demand    *)
(* access at every lookup, the one that follows its own refill included.     *)
CountLookup(r) ==
    LET miss == ~IsHit(set[Index(r.addr)], Tag(r.addr))
    IN  IF prefetch_in_flight
        THEN /\ prefetch_accesses' = prefetch_accesses + One(miss)
             /\ UNCHANGED <<demandCounters, prefetch_issued_cnt>>
        ELSE /\ CountAccess(r.op, miss)
             /\ UNCHANGED <<prefetch_issued_cnt, prefetch_accesses>>

CountIssue ==
    /\ prefetch_issued_cnt' = prefetch_issued_cnt + 1
    /\ UNCHANGED <<demandCounters, prefetch_accesses>>

CountingNext ==
    \/ /\ load_cnt + store_cnt < MaxLookups
       /\ \E r \in Reqs : TryRegisterReq(r) /\ CountLookup(r)
    \/ TickLookup /\ CountLookup(cur)
    \/ TickIssuePrefetch /\ CountIssue
    \/ /\ CollectDone \/ TickSend \/ TickWrittenBack \/ TickRefilled \/ TickPenalty
          \/ TickStored \/ LowStep
       /\ UNCHANGED counters

CountingSpec == Init /\ CountersInit /\ [][CountingNext]_<<vars, counters>>

(* statistic.rs on prefetch_issued_cnt: a prefetch that is counted           *)
(* "materialised as a real next-level memory access".                        *)
IssuedPrefetchesGoBelow == fsm = "Idle" => prefetch_issued_cnt = prefetch_accesses
=============================================================================
