# A TLA+ model of SimplePipeSim

SimplePipeSim is a cycle-stepped simulator of a five-stage RISC-V pipeline over
a hierarchy of blocking caches and a main memory, written in Rust
(`src/simulator`). This directory holds TLA+ modules translated from that
source, the TLC configurations that check them on small instances, and theorems
about them that TLAPS checks for every value of the constants. The simulator is
single-threaded: what is hard about it is not locks but components that each
advance one step per cycle, hand requests to each other through shared cells,
and keep several copies of the same fact (the byte in a cache and below it, the
valid bit in a cache set and in its replacement policy).

## The system

| Component | State | Operations | Talks to |
|---|---|---|---|
| Memory interface, `abstract_mem.rs` | a request's `done` cell and load buffer, shared by caller and device | `try_register_req`, `complete_*`, `is_done`, `load_data` | every pair of levels |
| Replacement policies, `replacement_policy.rs` | valid bits, FIFO queue, pseudo-LRU tree | `insert`, `invalidate`, `promote`, `evict` | called by the cache set |
| Cache set, `cache_set.rs` | valid, tag, dirty and data arrays | `tag_compare`, `read_block`, `write_block`, `write_block_clean`, `insert_block` | called by the cache |
| General cache, `general_cache/mod.rs`, `lower_memory.rs`, `write_policy.rs`, `prefetcher.rs`, `config.rs` | state machine, backup request, lower transaction, prefetch queue, counters | `try_register_req`, `tick` | the caller above, the device below |
| Flat memory, `simple_mem.rs` | bytes, pending request, countdown | `try_register_req`, `tick` | the cache above |
| DRAM controller, `simple_dram/` | bytes, bank state, pending request, row counters | `try_register_req`, `tick` | the cache above |
| Memory hierarchy | L1-I and L1-D over one L2 over one memory | order of the ticks in a cycle | pipeline, run loop |
| Pipeline, `pipeline_processor/` | stage registers, program counter, register file, stall and recovery flags | `tick`: recovery, forwarding, WB, MEM, EXE, ID, IF, then the caches | L1-I, L1-D, predictor |
| Branch predictors, `branch_predictor/` | two-bit counter, target table | `branch_predict`, `mispredict_recovery` | IF and recovery |
| Decoding, `decode.rs`, `uop.rs`, `riscv/` | none | pure functions on instruction words | ID, EXE |
| Statistics | counters | increments, rates | all |
| Runner, CLI, ELF loader | configuration, the run loop | `run` | all |
| Guest runtime and programs, scripts | bump allocator | `alloc`, `dealloc` | not part of the simulator |

What makes each one correct:

* a device takes every accepted request into effect once, at one instant, before
  it sets the request's `done` cell, and always sets it in the end;
* a cache is invisible but for time: no block is held twice, a clean line agrees
  with the level below, a dirty one is not dropped before it is written back, and
  a prefetch changes nothing that a caller can read;
* a replacement policy always has a victim, names one the set really holds, in
  its advertised order, and its private valid bits do not drift from the set's;
* the DRAM controller serves each request in exactly the cycles of its latency
  path and counts it once;
* the pipeline retires what the instruction set says, whatever the stalls,
  forwarding and mispredictions; a predictor affects time only.

The hard behaviours are the interplay of caller, prefetch, cache and device
between two ticks; the second lookup of a missed request; a store that is
visible in the cache before it is below; off-by-one in the countdowns; and the
request that a branch recovery abandons in flight. `PROJECT.json` lists them as
hazards, each at its line.

## Modules

| Module | What it is |
|---|---|
| `AbstractMem` | the promise of `AbstractMemoryInterface` to one caller with one request outstanding |
| `ReplacementPolicy` | FIFO, random and tree pseudo-LRU as operators on the policy's state |
| `EvictionOrder` | a policy driven by every sequence of calls, with the insertion order and the last victims as history |
| `EvictionOrderInvariant` | its inductive invariant |
| `CacheSet` | one set: arrays and policy, as operators |
| `GeneralCache` | the cache as a state machine; the device below is an instance of `AbstractMem`, and the caller's view is another |
| `GeneralCacheInvariant` | its inductive invariants |
| `SimpleMem`, `SimpleDram` | the two main memories; each is shown to implement `AbstractMem` |
| `CacheStatistics` | the counters of the cache, added to the steps of `GeneralCache` |
| `MemoryHierarchy` | L1-I and L1-D over one L2 over the main memory, one cycle as six turns |
| `Instruction`, `Alu` | the decoded instructions and what each reads, writes and computes |
| `BranchPredictor` | `dummy` and `bimodal` |
| `Pipeline` | `PipelineProcessor::tick`, call by call |
| `ISA` | the abstract machine of one instruction per step that `Pipeline` implements |
| `PipelineInvariant` | its inductive invariants: one for the pipeline's own properties, one for the refinement |
| `MemoryHierarchyInvariant` | the inductive invariant of the hierarchy, and `PrefetchRoom`, which its theorems assume |
| `EvictionOrderProofs`, `GeneralCacheProofs`, `GeneralCacheRefinement`, `SimpleMemProofs`, `SimpleDramProofs`, `MemoryHierarchyProofs`, `PipelineProofs`, `PipelineRefinement` | theorems and proofs |
| `MCGeneralCache`, `MCMainMemory`, `MCSimpleMem`, `MCSimpleDram`, `MCMemoryHierarchy`, `MCPipeline` | instances for TLC |

`AbstractMem` is used on both sides of `GeneralCache`, so the devices compose
level by level: a main memory implements it, and a cache over anything that
implements it implements it again. `Pipeline` takes that promise for its two
caches: which accesses hit and how long a miss takes is left open.
`MemoryHierarchy` looks at what the promise does not cover, L2 with two callers
and a caller that goes away.

### How state and actions correspond to the code

**AbstractMem.** `pending`, `phase` and `buf` stand for the shared request
object. `Register` is `try_register_req` answering `Ok(())`; an answer `Err(())`
changes nothing and the caller tries again, so it is no action. A device may
complete a request during registration (a cache hit), complete it later, or let
a store take effect some time before it sets `done` (a write-through). `Collect`
is the caller noticing `done` and dropping the request.

**ReplacementPolicy.** Each operation of the trait is an operator from state to
state; `Evict` gives the set of its possible answers, one answer for FIFO and
pseudo-LRU and any way for random. The leaf-to-root loop of `promote` and the
root-to-leaf loop of `evict` are stated without recursion: `Below` says that a
node is an ancestor of a leaf, `PromoteTree` sets all bits on the path,
`PointsAt` says that all of them point at a way. The invariant `PlruWalk`
compares this with the loop itself. `Without` is the `retain` of FIFO's queue,
stated by the number of entries kept so far instead of by recursion. `invalidate`
has no caller in the repository; `EvictionOrder` drives it because the trait offers
it, so its properties would hold of a cache that used it.

**CacheSet.** One operator per method. `tag_compare` is `HitWay` on a hit and
`MissOutcomes` on a miss; the latter has already changed the policy, as in the
code. `TouchBlock` is the effect of `read_block`. On a store hit the code reads
and then writes the block, which promotes the way twice; promoting twice is the
same as once.

**GeneralCache.** `fsm` is the variant of `MainStates`, and its payloads are
variables of their own. `cur` is the request in service, wherever the code keeps
it. `try_register_req` ticks twice, from `Idle` through the whole `Lookup` arm,
so `TryRegisterReq` is one action and `pending_req` is never set between calls.
`Lookup` has one operator for each of its six ways and ends with the prefetcher
hooks. `Tick` has one action for each arm of `tick`. The prefetch request is a
synthetic load that nobody collects: while `prefetch_in_flight` holds, `caller`
does not change. `low_*` is the device below.

**SimpleMem, SimpleDram.** `TryRegisterReq`, `Tick` and `CollectDone` each. The
DRAM tick issues a command and then advances the bank, in that order, in one
action. `waited`, `path` and `registered` are history.

**CacheStatistics.** The cache's steps with the counters of `StatisticInfo`
conjoined: `CountLookup` to the two steps that run the `Lookup` arm, `CountIssue`
to the start of a prefetch. `prefetch_accesses` is history.

**MemoryHierarchy.** `turn` goes through MEM, IF, L1I, L1D, L2 and the main
memory, which is the order of `tick` and of the run loop. The stages may skip
their turn, because instructions that do not access memory and stalls do. Each
cache has the states of `GeneralCache`, with one set, whole blocks as the unit
of transfer, and any way as the victim of a miss. A request names the holder of
its `done` cell; an L1 that finds L2 idle runs L2's lookup within its own tick,
as `try_register_req` does. `FetchAbandon` is what branch recovery does to a
fetch. A stage that got its answer needs one more turn before it registers again,
while the code can register in the next cycle; what reaches L2 is as arbitrary
either way, because a stage may also wait. `stored` and `overtaken` are history.

**Pipeline.** `stage` is the next call of `tick`: recovery and forwarding at the
start of the cycle, then `pipe_stage_wb`, `pipe_stage_mem`, `pipe_stage_exe`, the
load-use check with `pipe_stage_decode`, `pipe_stage_fetch` with the placeholder,
and the caches. The variables are the fields of `PipelineProcessor`; a stage
register is `NoOp` for `None`. A micro-op keeps the instruction, its operand
values and its result; the selectors that `decode` computes are functions of the
instruction (`Op1`, `Op2`, `AluOpType`, `WritesRd`). `icache` and `dcache` say
whether the cache is busy, for how many more ticks, whether a stage still holds
the request, and whether a prefetch is queued: several queued prefetches look like
one that takes longer, and the latencies are arbitrary. A fetch that is sent again keeps
the `done` cell of its first answer, as in the code. `branch_flushes` is always 3
and is not a variable. A panic (an illegal word in ID, a fence in IF, a
misaligned access in MEM) stops the machine. `retired_data` and `hpm_balance` are
history: the memory as of the last retirement, and fetched minus retired minus
flushed instructions.

**ISA.** Its arithmetic is stated by what a result satisfies (a quotient and
remainder, single bits, a product up to a multiple of the word size), so that the
refinement also checks `AluResult`, `LoadedValue` and `StoreBytes`. The pipeline's
program counter maps to the oldest instruction in flight, its memory to
`retired_data`, its register file and halt flag to themselves.

Operators marked *Defect* are plausible wrong versions of the definition that
follows them. No specification uses them; replacing the definition by its defect
must make TLC report the property named for it in `PROJECT.json`.

## Runs

| Run | Instance | Distinct states | Shows |
|---|---|---|---|
| `replacement` | 4 ways, three policies | 1 771 | FIFO's queue is the insertion order and never empty when needed; pseudo-LRU spares the newest way; any four consecutive victims differ |
| `cache_policies` | 1 set, 2 ways, FIFO, 2-byte blocks, 3 blocks, three write policies | 763 648 | the cache implements `AbstractMem`; no duplicate block; clean lines agree; no lost store |
| `cache_prefetch` | 2 direct-mapped sets, next-line prefetcher, miss penalty 1, 3 of 4 blocks used | 277 272 | prefetches are invisible and in bounds; refills stick; every request and prefetch ends |
| `simple_mem` | 4 bytes, latency 2, 3 requests | 8 440 | implements `AbstractMem`; every request takes latency + 1 ticks |
| `simple_dram` | 4 bytes, rows of 2, tRCD 2, tCL 3, tRP 4, 3 requests | 18 820 | implements `AbstractMem`; exact latency; exact counters |
| `hierarchy` | three direct-mapped caches, 5 blocks, seven configurations | 1 241 911 | every answer is the last stored value; nothing is lost between levels; each L1 is overtaken at most once at L2; every access is served |
| `pipeline` | 4-bit words, 4 registers, 258 programs and images, latencies 0 and 2, both caches prefetching | 950 667 | implements `ISA`; fresh operands; fetch and recovery are for the right instruction; counters add up; no stall is for ever |
| `muldiv_stall` | the same programs | violated | a multiplication stalls one cycle, documented 8 |
| `prefetch_count` | as `cache_prefetch`, write-back | violated | a prefetch that hits is counted as issued |
| `cache_wb_nwa` | write-back, no write-allocate | violated | a dirty block is dropped |
| `prefetch_past_end` | caller uses the last block | violated | the prefetcher leaves the memory |
| `simple_mem_latency` | latency 15 | violated | 16 ticks, documented 15 |

**Bounds.** Three blocks compete for two ways in `cache_policies`, so a victim is
dirty or clean, replaced and fetched again, and every pair of bytes in a block
differs in some state; stores are of one byte and of whole blocks. In
`cache_prefetch` blocks 0 and 2 share a set and block 1 has the other, so a
prefetch can evict the dirty block of the caller, and prefetch and caller can
want the same block. Two sets and several byte offsets make the address
arithmetic count. Three requests reach every path of the DRAM, each after every
other. `tCL` is above one so that a CAS is visible between ticks, and the three
timings give three different sums. `MaxRequests` is the one artificial bound; the behaviours of the main
memories stop there, and so `CHECK_DEADLOCK FALSE` is set in their
configurations. The caches need no such bound: their state is finite. Symmetry
is not used, because values and addresses are numbers.

In `hierarchy` every cache has one way, so that two code blocks, two data blocks,
and code and data in L2 evict each other all the time; both first-level caches
are overtaken once in some state. The configurations mix the three safe write
policies over the levels and put the prefetcher into each level, and in the last one
into all three, which is what `--prefetcher next-line` does; where L2 prefetches the
workload is smaller, because its queue multiplies the states. With all three,
L1I also prefetches the one data block, and its copy grows stale without anyone
fetching it. The block behind the last one used is there to be prefetched.

In `pipeline` a word has four bytes of one bit, enough for both signs, wrapping,
sub-word accesses at all offsets and addresses that differ in every bit; `pc` is
counted in instructions. 160 programs put each kind of producer, each kind of
instruction between and each kind of consumer in a row (loads, stores, jumps,
branches, multiplications), the loops train and then surprise the predictor, and
the arithmetic programs apply every instruction to the corner values 0, 7, 8 and
15. Latency 0 is a hit, 2 a miss during which other stages move on; latencies 0,
1 and 3 have also been run and give the same result. Reached, among others: a
fetch sent again with its answer still in hand, a word buffered under a stalled
ID, a data request refused because of a prefetch, a fetch abandoned in the cache,
right and wrong predictions of both directions. Program and data are separate, so
self-modifying code is not covered. `MaxLookups` bounds the counters of
`prefetch_count`, and its behaviours stop there.

**Fairness.** The run loop (`runner.rs`, `while !cpu.halt`) ticks the processor,
which ticks the caches, and then the memory in every cycle; so `WF(Tick)` for
each device and `WF(LowStep)` for the device below. Nothing obliges the caller
to make requests or to collect answers, and neither is fair. `Pipeline` has
`WF(Step)`, the calls of `tick` one after the other until halt or panic, and
`MemoryHierarchy` `WF(Next)`, the turns of a cycle; the stages may use every turn
to do nothing.

### Findings

1. **Write-back without write-allocate loses stores.** On a store miss
   `tag_compare` makes the policy give up a victim, but the store is written
   around and the victim stays in the set, valid and maybe dirty. The next miss
   finds the policy "not full", takes that way and skips the write-back. Every
   theorem about the cache therefore assumes `SafePolicies`, which leaves this
   one write policy out.
2. **The next-line prefetcher runs past the end of memory.** An access to the
   last block queues a prefetch of the block after it, and the main memory
   panics on it. On its instance `cache_prefetch` finds no other way for a
   request to leave the memory: it passes because the caller keeps off the last
   block.
3. **The flat memory takes 16 ticks**, one more than the documentation says; the
   DRAM, counted the same way, takes exactly its documented cycles. The comment on
   the constant (`simple_mem.rs:5`) speaks of 50 cycles, a third number.
4. **MUL and DIV stall for one cycle**, not for 8 and 32: the countdown is
   started and decremented but never tested.
5. **A prefetch of a block that is already there is counted as issued**, although
   the comment on the counter speaks of a real next-level access.

Two more things a reader of the model will notice, for which the repository says
nothing to compare with. An illegal word behind a jump panics in ID in the cycle
in which the jump is resolved, although it is never executed. And a demand access
that misses is counted twice, as a miss and, when it is looked up again after the
refill, as a hit, so that the reported miss rate is at most one half.

## What is proved

All for every value of the constants that satisfies the named assumptions.

* `GeneralCacheProofs`, on the policies. `EvictContract`: whatever the policy, `evict` names
  a way, its valid bit is clear afterwards and no other valid bit has changed,
  and it reports a full set only when every way was valid.
  `PlruSparesAccessed`: after an access or a fill of way `w`, pseudo-LRU does not
  name `w`, for every associativity above one; the argument needs only the parent
  of the leaf.
* `EvictionOrderProofs`, for every associativity (a power of two for pseudo-LRU) and
  every sequence of calls: `EvictionTypes`, `FifoReplacesInOrder`
  (`FifoQueueIsOrder`), `NewestIsSpared` (`PlruSparesNewest`), `WalkFindsVictim`
  (`PlruWalk`), `VictimAlwaysFound` (`AlwaysAVictim`) and `EveryWayTakesItsTurn`
  (`EveryWayInTurn`), from `EvictionInvariant`.
* `GeneralCacheProofs`, on the cache, under `SafePolicies`: `CacheTypes`, `NoBlockCachedTwice`,
  `CleanLinesAlwaysAgree`, `VictimsAlwaysHeld` and `EvictionsLoseNothing`
  (`NoLostWrite`), from `CacheInvariant`, that `IndInv` is an invariant.
* `GeneralCacheRefinement`, under `SafePolicies`: `CacheImplements`, the safety
  part of `ImplementsMem`: a cache over anything that keeps the promise of
  `AbstractMem` keeps it again. `RefilledBlockStays` (`RefillSticks`), and, with
  `PrefetchRoom`, `LowRequestsStayInBounds` (`LowRequestsInBounds`).
* `SimpleMemProofs`: `MemTypes`, `MemLatencyFlat` (`FlatLatency`) and, for
  requests within the memory, `MemImplements` (`ImplementsMem`).
* `SimpleDramProofs`: `DramTypes`, `DramCountsExact`, `DramCasMatches`,
  `DramLatencyExact` and `DramImplements` (`ImplementsMem`), from `DramInvariant`.
* `MemoryHierarchyProofs`, under `PrefetchRoom`: `HierarchyTypes`,
  `AnswersAlwaysCurrent` (`AnswersCurrent`), `NothingEverLost` (`NothingLost`) and
  `OvertakenAtMostOnce` (`BoundedOvertaking`), from `HierarchyInvariant`: for every
  number of blocks and ways, every latency and every mix of the three safe write
  policies and of prefetchers over the levels.
* `PipelineProofs`, on the arithmetic: `AluResultIsWord` and `StoredWordIsLoaded`, over
  lemmas on division, remainders and single bits.
* `PipelineProofs`, on the pipeline: `PipelineTypes`, `ForwardingIsSound` (`OperandsFresh`),
  `FetchStaysCurrent` (`FetchIsCurrent`), `RecoveriesAreForMem`
  (`RecoveryIsForMem`), `PlaceholderAlwaysFits` (`PlaceholderFindsRoom`) and
  `CountersAgree` (`CountersConserve`), from `PipelineInvariantHolds`.
* `PipelineRefinement`: `PipelineImplementsISA` (`ImplementsISA`): for every width
  of a word, number of registers, program, data image, predictor and sequence of
  cache latencies, the pipeline retires the sequential execution. It rests on
  `StreamInvariant`.

**The policies' argument.** `OrderInv`: `order` lists the valid ways, each once, and
FIFO's queue is that list back to front. So the back of the queue is the oldest
way, is there whenever the set is full, and `pop_back` removes the same as
`retain` would. `FifoTurnInv`: the last victims are the end of `order`, which has
no way twice.

`EveryWayInTurn` says of pseudo-LRU only that the last victims differ, and says it
of the leaves; the reason is in all levels of the tree. `Up(w, k)` is the node `k`
levels above way `w`. `PlruTurnInv`: two victims go through the same node `d`
levels below the root exactly when a multiple of `2^d` lies between them.
`BitsInv`: the bit of a node points away from the victim that went through it
last. Both hold of no victims at all, whatever the tree looks like, and each new
victim keeps them (`NextTurn`, by induction over the depth): if it is the turn of
a node, its last visit was `2^d` victims ago and its bit now points to the other
child; the turns of that child are the visits before, every second one. At the
depth of the leaves `2^d` is the associativity. The induction is over an interval
of numbers, from the least-number principle. `Walk` is a recursive function: the
proof first shows that a function with its equation exists (`WalkExists`), then
follows it down (`WalkReaches`). A victim is unique because two leaves part at a
node whose bit points at one of them only (`OneVictim`).

**The cache's argument.** `NoLostWrite` is not inductive: it says that a line
dropped now agrees with the memory now, and the reason lies several states back.
`IndInv` carries it forward. `LowInv`: the device below has done what the
transaction asked once it says so. `ControlInv`: the transaction of a write-back
is the victim as it still stands in the set, that of a refill is the block of
`cur`. `VictimInv`: while a refill is under way the victim agrees with the
memory, because its write-back is done or because it was clean. `KnownInv`: in a
write-back cache the policy knows every valid line except the victim in hand, so
"not full" really means an empty way; this is the part that fails for
write-back without write-allocate. `DirtyInv`: a write-through cache has no
dirty lines. `MissInv`: the block being fetched is not cached yet, which gives
`UniqueTags`. `ThroughInv` covers the bytes of a write-through on its way. The
proof has one lemma per action, and one per way through `Lookup`, over lemmas on
addresses (`AddrParts`, `AddrJoin`, `BlockBytes`) and on the set's operators.

**The cache as a memory.** The refinement maps the memory of `AbstractMem` to the
cached byte where there is one and to the byte below otherwise. `ViewInv` adds to
`IndInv` that the caller waits exactly while its own request is in the state
machine (`CallerInv`), that a block being written through stays cached
(`ThroughHeld`), and `RefillSticks`. A store takes effect in the view at the lookup
that hits, or, when it is written around, at the step of the device below;
eviction, refill and prefetch leave the view as it is, because a dropped line
agrees with the memory (`NoLostWrite`). `RoomInv` says that every block the cache
holds, fetches or has queued is in memory. It needs `PrefetchRoom`, a block of
room behind every block the caller uses; finding 2 is what happens without.

**The DRAM's argument.** `ToCome` is the number of ticks left, as a function of
the bank's state; `PathInv` says that the ticks spent and `ToCome` add up to the
nominal latency in every state, and that the activate flag says which path the
request is on. Each tick moves one from `ToCome` to `waited`. `MemInv` does the same
for the flat memory with its one countdown. Both implement `AbstractMem` because
the request takes effect in the tick that sets `done`, and in no other.

**The hierarchy's argument.** `CacheImplements` covers a cache with one caller; L2
has two, one of which may lose interest in its answer. `LevelInv` says what holds
of one cache over a level with contents `low`: the transaction is the one its
state calls for, no block is held twice, and a line that is not dirty agrees with
`low`, as does the victim of a refill. `View` is what the cache then shows its
caller. `IndInv` has `LevelInv` three times: for L2 over the main memory, for L1D
over the view of L2, and for L1I over the code blocks, which nobody stores to.
`StoredInv` says that the view of L1D is what was stored last, but for the one
store it is still working on (`Pending`). `LinkInv` says who waits for whom, with
the same request on both sides; it is what makes an answer reach the transaction
that asked for it, and what lets an abandoned fetch fill its line and nothing else.
`AnswersCurrent` follows where a lookup hits, `NothingLost` from `StoredInv` when
nothing is pending.

`BoundedOvertaking` needs the state of the other cache too (`OvertakeInv`): L1D
gets in before a sending L1I only in the cycle in which L1I started to send, and
L1I, once its own request is done, has to go back to its lookup before it can send
again, by which time L1D has had its turn at an idle L2. The proof first says what
a step of one cache does to `LevelInv`, `View` and `Pending`, then puts the steps
together: a hit, a miss, a prefetch, an answer from below, in each of the three
caches, and a store of L1D that L2 looks up within the same tick.

**The pipeline's argument.** `OperandsFresh` is not inductive: an operand read in
ID may be stale until the `Forward` of the next cycle, and then has to be the
newest one. `FreshInv` says which of the two holds at which call of `tick`, and
that no load in MEM will change the operand, which is the work of the load-use
interlock (`StallInv`). `BranchInv` says that a branch to be recovered from is the
op in MEM, has no memory transaction, and is there only from the end of EXE to the
start of the next cycle. `MemInv` and `FetchIsCurrent` tie each memory state
machine to its op or pc and to its cache, through abandoned and repeated fetches.
One lemma per call of `tick` shows that `IndInv` is kept.

**The refinement to the ISA.** The program counter of `ISA` is that of the oldest
op in flight. `StreamInv` says that each op is followed by what was predicted for
it, and from MEM on by what is right, unless its recovery is still pending;
`PathInv` that each op is the instruction at its pc; `ValueInv` that an op past EXE
has the operands and the result the machine gives it; `DataInv` that the cache's
memory is that of the last retirement, but for one store that has reached memory
before it retires. Under these `RefInv` every step but a retirement is a stutter,
and a retirement is the step of `ISA` for that instruction, one lemma for each
class of instruction.

`ISA` states its arithmetic independently of `Alu`: bit by bit for the logical
operations, shifts, loads and comparisons, by quotient and remainder for division,
up to a multiple of the word size for products. `AluComputes` and the `*Agree`
lemmas show that the two are the same for every width of a word. A word is
determined by its bits: that is proved by induction over the index set
(`WellFoundedInduction` on a set, through its least element), since induction over
recursive data is out of reach. `FromBits` is therefore stated by the bits it has,
and `LoadedValue` as a sum of four bytes.

**Assumptions.** Positive associativity, block size, sets, row size and timings;
a power-of-two associativity for pseudo-LRU; a memory of whole blocks; requests
that lie in one block and in the memory; for the hierarchy at least one block,
code and data apart, and, as `PrefetchRoom`, memory behind every block a prefetcher
may run ahead of (`MCMemoryHierarchy` has TLC evaluate it); for the pipeline a positive width of a
byte and of a register number, and programs of instructions. `PowerAssumption`,
in `EvictionOrder` and for the words of the pipeline, states laws of exponentiation
that hold of all numbers and that the provers lack. Each is named where its constant is declared. That requests lie in one block is what the pipeline's aligned accesses
and an upper cache with blocks no larger give; the check at the head of
`try_register_req` alone does not, for blocks smaller than a word.

## Only model-checked

The liveness properties `Served`, `PrefetchEnds` and `Progress`, which are
outside this prover's reach. `PrefetchEnds` is about the prefetch in flight; one
that is queued may wait for ever behind a caller that always comes back first. Every invariant and every action property of a
passing run, and the safety part of every refinement, is proved.

## Not modelled

* The rates and reports of all components, `total_ticked_cycle` and the branch
  counters.
* The 32-bit width of addresses: the wrap of the prefetch address and of the tag
  shift in `addr_transfer`.
* A jump to an address that is not a multiple of four or lies outside the memory:
  the instruction cache or the memory panics on the fetch. `pc` counts instructions
  and nops follow the program; in an image that `elf.rs` loads zero
  words follow, which are illegal, and a program that ends in an illegal instruction
  models them.
* The extraction of fields and immediates from instruction words
  (`format_types.rs`): functions on 32-bit data, which TLC cannot enumerate.
* `two_level_adaptive.rs`, which is `todo!()` throughout.
* Write-back without write-allocate in the hierarchy: finding 1 already makes a
  single cache lose data.
* ELF loading, the command line, guest programs, scripts: I/O, or not part of
  the simulator.

## Plan

1. *Done*: `AbstractMem`, `ReplacementPolicy`, `CacheSet`, `GeneralCache`,
   `SimpleMem`, `SimpleDram`, their runs and first theorems.
2. *Done*: `MemoryHierarchy`, `Pipeline` with `Instruction`, `Alu`,
   `BranchPredictor` and `ISA`, `CacheStatistics`.
3. *Done*: all three devices implement `AbstractMem`; the invariants of the
   pipeline and its refinement of `ISA`.
4. *Done*: the invariants of `MemoryHierarchy`.
5. *Done*: the invariants of `EvictionOrder`.
6. Still worth having: the counters of `CacheStatistics` against the lookups they
   count; the 32-bit wrap of the address arithmetic.
