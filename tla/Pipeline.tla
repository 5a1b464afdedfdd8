------------------------------ MODULE Pipeline ------------------------------
(* PipelineProcessor of pipe.rs: the five stages, the forwarding paths, the  *)
(* load-use interlock, branch recovery and the two first-level caches as the *)
(* stages see them.  One cycle is one call of tick; its calls are actions of *)
(* their own, in the order of the code:                                      *)
(*   start (Recover, then Forward), wb, mem, exe, id, if, caches, start ...  *)
(*                                                                           *)
(* A cache is what GeneralCache promises to one caller (AbstractMem): it     *)
(* refuses a request while it works on another, answers a hit within the     *)
(* call that registers it and a miss some cycles later.  Which it is, and    *)
(* how long, is left open within ILatencies and DLatencies; 0 is a hit.      *)
EXTENDS Alu

CONSTANTS Setups,        \* what is simulated: program, initial data, predictor
          ILatencies,    \* cycles an instruction cache access may take
          DLatencies,    \* cycles a data cache access may take
          Prefetching    \* the caches that prefetch, of {"icache", "dcache"}

ASSUME PipelineAssumption ==
    /\ \A setup \in Setups : /\ setup.program \in Seq(Instructions)
                              /\ setup.data \in [Word -> Byte]
                              /\ setup.predictor \in {"dummy", "bimodal"}
    /\ ILatencies \subseteq Nat /\ ILatencies \ {0} # {}
    /\ DLatencies \subseteq Nat /\ DLatencies \ {0} # {}

VARIABLES
    stage,                       \* the next call of tick
    program,                     \* the image's instructions (never changes)
    halt, panicked,
    if_pc, if_raw_inst_buffer, if_fsm, branch_predictor,
    id_regs, id_op, exe_op, mem_op, wb_op,
    mem_transaction,
    branch_recover, branch_correct_direction, branch_destination,
    int_mul_div_stall_countdown,
    id_load_use_stall,           \* local variable of tick
    icache, dcache,              \* occupation of the two caches
    data,                        \* memory behind the data cache, by byte
    retired_data,                \* history: data as of the last retirement
    hpm_balance                  \* of the counters of hpm: inst_fetched
                                 \* - inst_retire - actual_flushed_inst_cnt

fetch_vars == <<if_pc, if_raw_inst_buffer, if_fsm, icache>>
memory_vars == <<mem_transaction, dcache, data>>
branch_vars == <<branch_recover, branch_correct_direction, branch_destination>>
ops == <<id_op, exe_op, mem_op, wb_op>>
vars == <<stage, program, halt, panicked, fetch_vars, branch_predictor, id_regs, ops,
          memory_vars, branch_vars, int_mul_div_stall_countdown, id_load_use_stall,
          retired_data, hpm_balance>>

BP == INSTANCE BranchPredictor WITH Pcs <- Word, NoTarget <- NoValue

-----------------------------------------------------------------------------
(* Micro-ops.  rs1 and rs2 are the operand values decode and forwarding put  *)
(* there, rd_write_value the value for rd once it is known.                  *)

NoOp == [placeholder |-> FALSE]

NoInst == [op |-> "None"]

Fetched(inst, pc, bp) ==
    [inst |-> inst, pc |-> pc, bp_result |-> bp, rs1 |-> NoValue, rs2 |-> NoValue,
     alu_result |-> 0, rd_write_value |-> NoValue, placeholder |-> FALSE]

PlaceholderNop ==
    [Fetched(Nop, NoValue, BP!NotTaken) EXCEPT !.rs1 = 0, !.rs2 = 0, !.placeholder = TRUE]

MicroOps ==
    [inst : Instructions, pc : Word \cup {NoValue},
     bp_result : [direction : BOOLEAN, addr : Word],
     rs1 : Word \cup {NoValue}, rs2 : Word \cup {NoValue}, alu_result : Word,
     rd_write_value : Word \cup {NoValue}, placeholder : BOOLEAN]

(* PreDecodeMicroOp::writeback: op has a destination and its value. *)
Writeback(op) ==
    /\ op # NoOp
    /\ ~op.placeholder /\ WritesRd(op.inst)
    /\ op.rd_write_value # NoValue

IsLoad(op) == op.inst.op \in LoadInsts

AccessesMemory(op) == op.inst.op \in LoadInsts \cup StoreInsts

-----------------------------------------------------------------------------
IdleFsm == [state |-> "Idle", addr |-> 0, done |-> FALSE]

(* A cache that works on a request is busy for left more of its ticks; live  *)
(* says whether a stage still holds that request; queued, whether a prefetch *)
(* waits for the cache to be idle.                                           *)
IdleCache == [busy |-> FALSE, left |-> 0, live |-> FALSE, queued |-> FALSE]

Caches == [busy : BOOLEAN, left : Nat, live : BOOLEAN, queued : BOOLEAN]

(* The idle cache c after it accepted a request that takes latency cycles;   *)
(* looking it up may queue a prefetch.                                       *)
Accept(c, latency, queues) ==
    [busy |-> latency > 0, left |-> latency, live |-> latency > 0,
     queued |-> c.queued \/ queues]

MayQueue(name) == IF name \in Prefetching THEN BOOLEAN ELSE {FALSE}

(* One tick of a cache that is not busy: it may take a queued prefetch. *)
StartPrefetch(c, latency) ==
    [busy |-> TRUE, left |-> latency, live |-> FALSE, queued |-> FALSE]

CountDown(c) == [c EXCEPT !.left = @ - 1]

Release(c) == [IdleCache EXCEPT !.queued = c.queued]

TickCache(c, latencies) ==
    IF c.busy THEN {IF c.left > 1 THEN CountDown(c) ELSE Release(c)}
    ELSE IF c.queued THEN {StartPrefetch(c, n) : n \in latencies \ {0}}
    ELSE {c}

Answers(c) == c.busy /\ c.left = 1 /\ c.live

(* What the data cache does for the op in MEM. *)
Perform(op) ==
    IF op.inst.op \in StoreInsts
    THEN [a \in Word |->
            IF a \in op.alu_result .. (op.alu_result + AccessLen(op.inst) - 1)
            THEN StoreBytes(op.inst, op.rs2)[a - op.alu_result + 1]
            ELSE data[a]]
    ELSE data

LoadBytes(op) == [k \in 1 .. AccessLen(op.inst) |-> data[op.alu_result + k - 1]]

-----------------------------------------------------------------------------
Init ==
    /\ stage = "start"
    /\ \E setup \in Setups : /\ program = setup.program
                             /\ data = setup.data
                             /\ branch_predictor = BP!NewPredictor(setup.predictor)
    /\ retired_data = data
    /\ halt = FALSE
    /\ panicked = FALSE
    /\ if_pc = 0
    /\ if_raw_inst_buffer = NoInst
    /\ if_fsm = IdleFsm
    /\ id_regs = [r \in Regs |-> 0]
    /\ id_op = NoOp
    /\ exe_op = NoOp
    /\ mem_op = NoOp
    /\ wb_op = NoOp
    /\ mem_transaction = [state |-> "Idle", done |-> FALSE]
    /\ branch_recover = FALSE
    /\ branch_correct_direction = FALSE
    /\ branch_destination = 0
    /\ int_mul_div_stall_countdown = NoValue
    /\ id_load_use_stall = FALSE
    /\ icache = IdleCache
    /\ dcache = IdleCache
    /\ hpm_balance = 0

(* The runner calls tick while the halt flag is not set; a panic ends it. *)
Running == ~panicked /\ ~(halt /\ stage = "start")

Enter(s) == Running /\ stage = s

Goto(s) == stage' = s /\ UNCHANGED program

-----------------------------------------------------------------------------
(* What inst_flush adds to actual_flushed_inst_cnt for a stage. *)
Flushed(op) == IF op # NoOp THEN 1 ELSE 0

(* Defect: the placeholder of a load-use stall is counted as retired. *)
RetiredAnyOp(op) == IF op # NoOp THEN 1 ELSE 0

(* What inst_ret adds for the op in WB: a placeholder is not an instruction. *)
Retired(op) == IF op # NoOp /\ ~op.placeholder THEN 1 ELSE 0

(* Defect: recovery empties the buffer but keeps the fetch in progress. *)
DropFetchInBufferOnly ==
    /\ if_raw_inst_buffer' = NoInst
    /\ UNCHANGED <<if_fsm, icache>>

(* The cache goes on with an abandoned request; only IF forgets it. *)
DropFetch ==
    /\ if_fsm' = IdleFsm
    /\ icache' = [icache EXCEPT !.live = FALSE]
    /\ if_raw_inst_buffer' = NoInst

(* The branch in MEM was mispredicted: refetch from its destination, drop    *)
(* the fetch in progress, flush ID and EXE (branch_flushes is always 3), and *)
(* teach the predictor.                                                      *)
Recover ==
    /\ Enter("start")
    /\ branch_recover
    /\ if_pc' = branch_destination
    /\ DropFetch
    /\ id_op' = NoOp
    /\ exe_op' = NoOp
    /\ branch_predictor' = BP!MispredictRecovery(branch_predictor, branch_correct_direction,
                                                 mem_op.pc, branch_destination)
    /\ branch_recover' = FALSE
    /\ hpm_balance' = hpm_balance - Flushed(id_op) - Flushed(exe_op)
    /\ Goto("start")
    /\ UNCHANGED <<halt, panicked, id_regs, mem_op, wb_op, memory_vars,
                   branch_correct_direction, branch_destination,
                   int_mul_div_stall_countdown, id_load_use_stall, retired_data>>

(* Defect: the older value of WB has precedence over that of MEM. *)
ForwardedFromWbFirst(r, value) ==
    IF r # 0 /\ value # NoValue /\ Writeback(wb_op) /\ wb_op.inst.rd = r
    THEN wb_op.rd_write_value
    ELSE IF r # 0 /\ value # NoValue /\ Writeback(mem_op) /\ mem_op.inst.rd = r
    THEN mem_op.rd_write_value
    ELSE value

(* The newest value of register r in MEM or WB, else the value ID has read. *)
Forwarded(r, value) ==
    IF r # 0 /\ value # NoValue /\ Writeback(mem_op) /\ mem_op.inst.rd = r
    THEN mem_op.rd_write_value
    ELSE IF r # 0 /\ value # NoValue /\ Writeback(wb_op) /\ wb_op.inst.rd = r
    THEN wb_op.rd_write_value
    ELSE value

Forward ==
    /\ Enter("start")
    /\ ~branch_recover
    /\ exe_op' = IF exe_op = NoOp THEN NoOp
                 ELSE [exe_op EXCEPT !.rs1 = Forwarded(exe_op.inst.rs1, @),
                                     !.rs2 = Forwarded(exe_op.inst.rs2, @)]
    /\ Goto("wb")
    /\ UNCHANGED <<halt, panicked, fetch_vars, branch_predictor, id_regs, id_op, mem_op,
                   wb_op, memory_vars, branch_vars, int_mul_div_stall_countdown,
                   id_load_use_stall, retired_data, hpm_balance>>

(* An ecall that finds 0 in a0 ends the simulation. *)
WriteBack ==
    /\ Enter("wb")
    /\ halt' = (halt \/ (wb_op # NoOp /\ wb_op.inst.op = "Ecall" /\ id_regs[A0] = 0))
    /\ id_regs' = IF Writeback(wb_op) /\ wb_op.inst.rd # 0
                  THEN [id_regs EXCEPT ![wb_op.inst.rd] = wb_op.rd_write_value]
                  ELSE id_regs
    /\ retired_data' = IF wb_op = NoOp THEN retired_data ELSE data
    /\ wb_op' = NoOp
    /\ hpm_balance' = hpm_balance - Retired(wb_op)
    /\ Goto("mem")
    /\ UNCHANGED <<panicked, fetch_vars, branch_predictor, id_op, exe_op, mem_op,
                   memory_vars, branch_vars, int_mul_div_stall_countdown, id_load_use_stall>>

(* The access of MEM is complete: a load gets its value, and the op moves on *)
(* when WB is free.                                                          *)
LeaveMem(op) ==
    LET done == IF IsLoad(op)
                THEN [op EXCEPT !.rd_write_value = LoadedValue(op.inst, LoadBytes(op))]
                ELSE op
    IN  IF wb_op = NoOp
        THEN /\ wb_op' = done
             /\ mem_op' = NoOp
             /\ mem_transaction' = [state |-> "Idle", done |-> FALSE]
        ELSE /\ mem_op' = done
             /\ mem_transaction' = [state |-> "Complete", done |-> TRUE]
             /\ UNCHANGED wb_op

StayInMem == UNCHANGED <<mem_op, wb_op>>

(* try_register_req asserts the alignment before it looks at its state. *)
MemSend ==
    /\ mem_transaction.state \in {"Idle", "Sending"}
    /\ Aligned(mem_op.inst, mem_op.alu_result)
    /\ \/ /\ dcache.busy
          /\ mem_transaction' = [state |-> "Sending", done |-> FALSE]
          /\ StayInMem
          /\ UNCHANGED <<dcache, data>>
       \/ /\ ~dcache.busy
          /\ \E n \in DLatencies, q \in MayQueue("dcache") :
               /\ dcache' = Accept(dcache, n, q)
               /\ IF n = 0
                  THEN data' = Perform(mem_op) /\ LeaveMem(mem_op)
                  ELSE /\ mem_transaction' = [state |-> "Waiting", done |-> FALSE]
                       /\ StayInMem
                       /\ UNCHANGED data

MemWait ==
    /\ mem_transaction.state \in {"Waiting", "Complete"}
    /\ IF mem_transaction.done THEN LeaveMem(mem_op)
       ELSE StayInMem /\ UNCHANGED mem_transaction
    /\ UNCHANGED <<dcache, data>>

Misaligned ==
    /\ mem_op # NoOp /\ AccessesMemory(mem_op)
    /\ mem_transaction.state \in {"Idle", "Sending"}
    /\ ~Aligned(mem_op.inst, mem_op.alu_result)

MemoryAccess ==
    /\ Enter("mem")
    /\ ~Misaligned
    /\ \/ mem_op = NoOp /\ UNCHANGED <<mem_op, wb_op, memory_vars>>
       \/ /\ mem_op # NoOp /\ ~AccessesMemory(mem_op)
          /\ LeaveMem(mem_op)
          /\ UNCHANGED <<dcache, data>>
       \/ mem_op # NoOp /\ AccessesMemory(mem_op) /\ (MemSend \/ MemWait)
    /\ Goto("exe")
    /\ UNCHANGED <<halt, panicked, fetch_vars, branch_predictor, id_regs, id_op, exe_op,
                   branch_vars, int_mul_div_stall_countdown, id_load_use_stall, retired_data,
                   hpm_balance>>

-----------------------------------------------------------------------------
(* The countdown goes on even while MEM blocks EXE. *)
Decremented ==
    IF int_mul_div_stall_countdown > 0 THEN int_mul_div_stall_countdown - 1
    ELSE int_mul_div_stall_countdown

Op1(op) == CASE op.inst.op \in BranchInsts \cup {"Jal", "Auipc"} -> op.pc
             [] op.inst.op = "Lui" -> 0
             [] OTHER -> op.rs1

Op2(op) == IF op.inst.op \in OpInsts THEN op.rs2 ELSE op.inst.imm

AluResultIsRd(op) ==
    ~op.placeholder /\ op.inst.op \in OpInsts \cup OpImmInsts \cup UpperInsts

Executed(op) ==
    LET result == AluResult(AluOpType(op.inst), Op1(op), Op2(op))
    IN  [op EXCEPT !.alu_result = result,
                   !.rd_write_value = IF AluResultIsRd(op) THEN result ELSE @]

NeedsRecovery(op, taken) ==
    \/ op.bp_result.direction # taken
    \/ taken /\ op.bp_result.addr # op.alu_result

RecoveryDestination(op, taken) == IF taken THEN op.alu_result ELSE NextPc(op.pc)

(* Defect: the destination is only noted for a taken branch. *)
ResolveBranchIfTaken(op) ==
    LET taken == BranchTaken(op.inst, op.rs1, op.rs2)
    IN  IF op.inst.op \in ControlFlow /\ NeedsRecovery(op, taken)
        THEN /\ branch_recover' = TRUE
             /\ branch_correct_direction' = taken
             /\ branch_destination' = IF taken THEN op.alu_result ELSE branch_destination
        ELSE UNCHANGED branch_vars

ResolveBranch(op) ==
    LET taken == BranchTaken(op.inst, op.rs1, op.rs2)
    IN  IF op.inst.op \in ControlFlow /\ NeedsRecovery(op, taken)
        THEN /\ branch_recover' = TRUE
             /\ branch_correct_direction' = taken
             /\ branch_destination' = RecoveryDestination(op, taken)
        ELSE UNCHANGED branch_vars

(* Defect: a countdown that has not reached zero is started again. *)
StartsMulDivUntilZero ==
    MExtensionStall(exe_op.inst) # NoValue /\ int_mul_div_stall_countdown # 0

(* A multiplication or division waits in EXE once it finds no countdown. *)
StartsMulDiv ==
    MExtensionStall(exe_op.inst) # NoValue /\ int_mul_div_stall_countdown = NoValue

ExecuteBlocked == mem_op # NoOp \/ exe_op = NoOp

Execute ==
    /\ Enter("exe")
    /\ \/ /\ ExecuteBlocked
          /\ int_mul_div_stall_countdown' = Decremented
          /\ UNCHANGED <<exe_op, mem_op, branch_vars>>
       \/ /\ ~ExecuteBlocked /\ exe_op.inst.op = "Ecall"
          /\ int_mul_div_stall_countdown' = Decremented
          /\ mem_op' = exe_op
          /\ exe_op' = NoOp
          /\ UNCHANGED branch_vars
       \/ /\ ~ExecuteBlocked /\ StartsMulDiv
          /\ int_mul_div_stall_countdown' = MExtensionStall(exe_op.inst)
          /\ UNCHANGED <<exe_op, mem_op, branch_vars>>
       \/ /\ ~ExecuteBlocked /\ exe_op.inst.op # "Ecall" /\ ~StartsMulDiv
          /\ int_mul_div_stall_countdown' =
               IF MExtensionStall(exe_op.inst) # NoValue THEN NoValue ELSE Decremented
          /\ mem_op' = Executed(exe_op)
          /\ exe_op' = NoOp
          /\ ResolveBranch(Executed(exe_op))
    /\ Goto("id")
    /\ UNCHANGED <<halt, panicked, fetch_vars, branch_predictor, id_regs, id_op, wb_op,
                   memory_vars, id_load_use_stall, retired_data, hpm_balance>>

-----------------------------------------------------------------------------
(* Defect: only the bits of rs1 are compared. *)
LoadUseOnRs1Only ==
    /\ id_op # NoOp /\ exe_op = NoOp /\ mem_op # NoOp
    /\ IsLoad(mem_op) /\ mem_op.inst.rd # 0
    /\ id_op.inst.op \notin {"Jal", "Lui", "Auipc", "Fence", "Ecall"}
    /\ mem_op.inst.rd = id_op.inst.rs1

(* Defect: the hazard is raised again while EXE is occupied. *)
LoadUseWhateverInExe ==
    /\ id_op # NoOp /\ mem_op # NoOp
    /\ IsLoad(mem_op) /\ mem_op.inst.rd # 0
    /\ id_op.inst.op \notin {"Jal", "Lui", "Auipc", "Fence", "Ecall"}
    /\ mem_op.inst.rd \in {id_op.inst.rs1, RawRs2(id_op.inst)}

(* The load just moved to MEM and the op in ID names its destination in the  *)
(* bits of rs1 or rs2.                                                       *)
LoadUseHazard ==
    /\ id_op # NoOp /\ exe_op = NoOp /\ mem_op # NoOp
    /\ IsLoad(mem_op) /\ mem_op.inst.rd # 0
    /\ id_op.inst.op \notin {"Jal", "Lui", "Auipc", "Fence", "Ecall"}
    /\ mem_op.inst.rd \in {id_op.inst.rs1, RawRs2(id_op.inst)}

Decoded(op) ==
    [op EXCEPT !.rs1 = IF ReadsRs1(op.inst) THEN id_regs[op.inst.rs1] ELSE NoValue,
               !.rs2 = IF ReadsRs2(op.inst) THEN id_regs[op.inst.rs2] ELSE NoValue,
               !.rd_write_value = IF op.inst.op \in {"Jal", "Jalr"} THEN NextPc(op.pc) ELSE @]

DecodeBlocked == exe_op # NoOp \/ id_op = NoOp

(* decode has no micro-op for an illegal word and panics in ID. *)
IllegalInDecode == ~DecodeBlocked /\ id_op.inst.op = "Illegal"

Decode ==
    /\ Enter("id")
    /\ ~IllegalInDecode
    /\ id_load_use_stall' = LoadUseHazard
    /\ IF DecodeBlocked \/ LoadUseHazard
       THEN UNCHANGED <<id_op, exe_op>>
       ELSE /\ exe_op' = Decoded(id_op)
            /\ id_op' = NoOp
    /\ Goto("if")
    /\ UNCHANGED <<halt, panicked, fetch_vars, branch_predictor, id_regs, mem_op, wb_op,
                   memory_vars, branch_vars, int_mul_div_stall_countdown, retired_data,
                   hpm_balance>>

-----------------------------------------------------------------------------
(* The request of IF: a new one for if_pc, or the one it has kept. *)
FetchReq ==
    IF if_fsm.state = "Idle" THEN [addr |-> if_pc, done |-> FALSE]
    ELSE [addr |-> if_fsm.addr, done |-> if_fsm.done]

(* The word at addr has arrived.  If ID is free it becomes the next micro-op *)
(* and a control-flow instruction is predicted (raw_binary_to_inst has no    *)
(* fence); else the word is buffered, in whichever state the fetch is.       *)
Deliver(addr, cache) ==
    LET inst == InstAt(program, addr)
        bp == IF inst.op \in ControlFlow THEN BP!BranchPredict(branch_predictor, if_pc)
              ELSE BP!NotTaken
    IN  IF id_op # NoOp
        THEN /\ if_raw_inst_buffer' = inst
             /\ if_fsm' = IF if_fsm.state = "Idle" THEN if_fsm ELSE [if_fsm EXCEPT !.done = TRUE]
             /\ icache' = cache
             /\ UNCHANGED <<id_op, if_pc, panicked, hpm_balance>>
        ELSE IF inst.op = "Fence"
        THEN /\ panicked' = TRUE
             /\ UNCHANGED <<id_op, fetch_vars, hpm_balance>>
        ELSE /\ id_op' = Fetched(inst, if_pc, bp)
             /\ if_pc' = IF bp.direction THEN bp.addr ELSE NextPc(if_pc)
             /\ if_raw_inst_buffer' = NoInst
             /\ if_fsm' = IdleFsm
             /\ icache' = [cache EXCEPT !.live = FALSE]
             /\ hpm_balance' = hpm_balance + 1
             /\ UNCHANGED panicked

FetchSend ==
    /\ if_fsm.state \in {"Idle", "SendingReq"}
    /\ \/ /\ icache.busy
          /\ if_fsm' = [state |-> "SendingReq", addr |-> FetchReq.addr, done |-> FetchReq.done]
          /\ UNCHANGED <<if_pc, if_raw_inst_buffer, icache, id_op, panicked, hpm_balance>>
       \/ /\ ~icache.busy
          /\ \E n \in ILatencies, q \in MayQueue("icache") :
               IF n = 0 \/ FetchReq.done
               THEN Deliver(FetchReq.addr, Accept(icache, n, q))
               ELSE /\ if_fsm' = [state |-> "WaitingComplete", addr |-> FetchReq.addr,
                                  done |-> FALSE]
                    /\ icache' = Accept(icache, n, q)
                    /\ UNCHANGED <<if_pc, if_raw_inst_buffer, id_op, panicked, hpm_balance>>

FetchWait ==
    /\ if_fsm.state = "WaitingComplete"
    /\ IF if_fsm.done THEN Deliver(if_fsm.addr, icache)
       ELSE UNCHANGED <<fetch_vars, id_op, panicked, hpm_balance>>

(* Fetch, and the placeholder tick puts into EXE on a load-use hazard. *)
Fetch ==
    /\ Enter("if")
    /\ FetchSend \/ FetchWait
    /\ exe_op' = IF id_load_use_stall THEN PlaceholderNop ELSE exe_op
    /\ Goto("caches")
    /\ UNCHANGED <<halt, branch_predictor, id_regs, mem_op, wb_op, memory_vars, branch_vars,
                   int_mul_div_stall_countdown, id_load_use_stall, retired_data>>

-----------------------------------------------------------------------------
(* The ticks of the two caches, and what lies below them. *)
TickCaches ==
    /\ Enter("caches")
    /\ icache' \in TickCache(icache, ILatencies)
    /\ dcache' \in TickCache(dcache, DLatencies)
    /\ if_fsm' = IF Answers(icache) THEN [if_fsm EXCEPT !.done = TRUE] ELSE if_fsm
    /\ mem_transaction' = IF Answers(dcache) THEN [mem_transaction EXCEPT !.done = TRUE]
                          ELSE mem_transaction
    /\ data' = IF Answers(dcache) THEN Perform(mem_op) ELSE data
    /\ id_load_use_stall' = FALSE
    /\ Goto("start")
    /\ UNCHANGED <<halt, panicked, if_pc, if_raw_inst_buffer, branch_predictor, id_regs, ops,
                   branch_vars, int_mul_div_stall_countdown, retired_data, hpm_balance>>

Panic ==
    /\ \/ Enter("mem") /\ Misaligned
       \/ Enter("id") /\ IllegalInDecode
    /\ panicked' = TRUE
    /\ UNCHANGED <<stage, program, halt, fetch_vars, branch_predictor, id_regs, ops,
                   memory_vars, branch_vars, int_mul_div_stall_countdown, id_load_use_stall,
                   retired_data, hpm_balance>>

Terminated == ~Running /\ UNCHANGED vars

Step == Recover \/ Forward \/ WriteBack \/ MemoryAccess \/ Execute \/ Decode \/ Fetch
        \/ TickCaches \/ Panic

Next == Step \/ Terminated

Spec == Init /\ [][Next]_vars /\ WF_vars(Step)

-----------------------------------------------------------------------------
(* The fields keep their types: no wrapped program counter or address leaves *)
(* the word, no byte of a store its range, no countdown its bounds.          *)
TypeOK ==
    /\ stage \in {"start", "wb", "mem", "exe", "id", "if", "caches"}
    /\ program \in Seq(Instructions)
    /\ {halt, panicked, branch_recover, branch_correct_direction, id_load_use_stall}
         \subseteq BOOLEAN
    /\ {if_pc, branch_destination} \subseteq Word
    /\ if_raw_inst_buffer \in Instructions \cup {NoInst}
    /\ if_fsm \in [state : {"Idle", "SendingReq", "WaitingComplete"}, addr : Word, done : BOOLEAN]
    /\ branch_predictor \in BP!Predictors
    /\ id_regs \in [Regs -> Word]
    /\ {id_op, exe_op, mem_op, wb_op} \subseteq MicroOps \cup {NoOp}
    /\ mem_transaction \in [state : {"Idle", "Sending", "Waiting", "Complete"}, done : BOOLEAN]
    /\ int_mul_div_stall_countdown \in NoValue .. DIV_REM_STALL
    /\ {icache, dcache} \subseteq Caches
    /\ {data, retired_data} \subseteq [Word -> Byte]

(* The stages form one instruction stream: the next instruction to retire is *)
(* the oldest one in flight, or the next one to be fetched.                  *)
InFlight(op) == op # NoOp /\ ~op.placeholder

ArchPc ==
    IF InFlight(wb_op) THEN wb_op.pc
    ELSE IF InFlight(mem_op) THEN mem_op.pc
    ELSE IF InFlight(exe_op) THEN exe_op.pc
    ELSE IF InFlight(id_op) THEN id_op.pc
    ELSE if_pc

Machine == INSTANCE ISA WITH pc <- ArchPc, regs <- id_regs, mem <- retired_data, halted <- halt

(* Whatever the caches, the predictor and the interlocks do, what retires in *)
(* WB is the execution of the program one instruction after the other: no    *)
(* instruction is lost, repeated or taken from the wrong path, every operand *)
(* is the newest value, and memory holds exactly the retired stores.         *)
ImplementsISA == Machine!Spec

(* An operand an op computes with in EXE is the value its register has after *)
(* all older instructions, though it was read in ID, possibly cycles ago,    *)
(* and forwarded since.                                                      *)
OperandFresh(r, value) ==
    value # NoValue =>
        value = IF r # 0 /\ Writeback(wb_op) /\ wb_op.inst.rd = r THEN wb_op.rd_write_value
                ELSE id_regs[r]

OperandsFresh ==
    stage = "exe" /\ ~ExecuteBlocked =>
        /\ OperandFresh(exe_op.inst.rs1, exe_op.rs1)
        /\ OperandFresh(exe_op.inst.rs2, exe_op.rs2)

(* The fetch in progress, and a word kept while ID is stalled, are for the   *)
(* present if_pc: a cache that still works for an abandoned fetch answers    *)
(* nobody, and a request sent again delivers the same word.                  *)
FetchIsCurrent ==
    /\ if_fsm.state # "Idle" => if_fsm.addr = if_pc
    /\ if_raw_inst_buffer # NoInst => if_raw_inst_buffer = InstAt(program, if_pc)
    /\ icache.live => if_fsm.state # "Idle"

(* A recovery is for the control-flow op that sits in MEM when tick handles  *)
(* it, and what it flushes is younger and has touched nothing outside.       *)
RecoveryIsForMem ==
    branch_recover /\ stage = "start" =>
        /\ mem_op # NoOp /\ ~mem_op.placeholder /\ mem_op.inst.op \in ControlFlow
        /\ mem_transaction.state = "Idle"
        /\ branch_destination = RecoveryDestination(mem_op, branch_correct_direction)

(* assert!(self.exe_op.is_none()) before the placeholder goes into EXE. *)
PlaceholderFindsRoom == stage = "if" /\ id_load_use_stall => exe_op = NoOp

(* The counters of the report agree with the stages: every fetched           *)
(* instruction is counted once, as retired or as flushed, or is in flight.   *)
CountersConserve ==
    hpm_balance = Cardinality({k \in 1 .. 4 : InFlight(ops[k])})

(* No combination of stalls, busy caches and flushes blocks the stages for   *)
(* ever: until the program halts, instructions keep coming to WB.            *)
Progress == []<>(halt \/ panicked \/ (stage = "wb" /\ InFlight(wb_op)))

(* README: extra stall cycles for MUL (8) and DIV / REM (32): the op leaves  *)
(* EXE in the cycle its countdown runs out.                                  *)
DocumentedStall ==
    [][stage = "exe" /\ exe_op # NoOp /\ exe_op' = NoOp
         /\ MExtensionStall(exe_op.inst) # NoValue
       => int_mul_div_stall_countdown' \in {NoValue, 0} /\ int_mul_div_stall_countdown <= 1]_vars
=============================================================================
