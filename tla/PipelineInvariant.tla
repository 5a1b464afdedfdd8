------------------------- MODULE PipelineInvariant -------------------------
(* The inductive invariant behind OperandsFresh, FetchIsCurrent,             *)
(* RecoveryIsForMem, PlaceholderFindsRoom and CountersConserve.              *)
EXTENDS Pipeline

(* A placeholder is a nop; every other op has the pc it was fetched from. *)
WellFormed(op) ==
    op # NoOp => IF op.placeholder THEN op.inst = Nop ELSE op.pc \in Word

(* An op that has left ID has the operands its instruction reads. *)
OperandsRead(op) ==
    op # NoOp => /\ ReadsRs1(op.inst) => op.rs1 \in Word
                 /\ ReadsRs2(op.inst) => op.rs2 \in Word

OpsInv ==
    /\ WellFormed(id_op) /\ WellFormed(exe_op) /\ WellFormed(mem_op) /\ WellFormed(wb_op)
    /\ id_op # NoOp => ~id_op.placeholder
    /\ OperandsRead(exe_op)
    /\ id_regs[0] = 0

(* MEM has a transaction only for a load or a store, and the data cache works*)
(* for it while it waits.  WB is empty when MEM runs, so Complete is a state *)
(* MEM never reaches.                                                        *)
MemInv ==
    /\ mem_transaction.state # "Complete"
    /\ mem_transaction.state # "Idle" => mem_op # NoOp /\ AccessesMemory(mem_op)
    /\ mem_transaction.state = "Waiting" => Aligned(mem_op.inst, mem_op.alu_result)
    /\ mem_transaction.done => mem_transaction.state = "Waiting"
    /\ dcache.live => /\ dcache.busy
                      /\ mem_transaction.state = "Waiting" /\ ~mem_transaction.done
    /\ stage = "mem" => wb_op = NoOp

(* A branch is resolved when it moves to MEM, where it stays until the next  *)
(* cycle handles the recovery.                                               *)
BranchInv ==
    branch_recover =>
        /\ stage \in {"id", "if", "caches", "start"}
        /\ mem_op # NoOp /\ ~mem_op.placeholder /\ mem_op.inst.op \in ControlFlow
        /\ mem_transaction.state = "Idle"
        /\ branch_destination = RecoveryDestination(mem_op, branch_correct_direction)

(* A load-use stall is for a load in MEM, so no recovery is pending when its *)
(* placeholder is made and none ever flushes it.                             *)
StallInv ==
    /\ stage = "if" /\ id_load_use_stall =>
         exe_op = NoOp /\ mem_op # NoOp /\ IsLoad(mem_op)
    /\ exe_op # NoOp /\ exe_op.placeholder => ~branch_recover

(* The value of register r after all instructions older than the op in EXE,  *)
(* but for a load that still waits in MEM.                                   *)
Newest(r) == Forwarded(r, id_regs[r])

(* Operand r of the op in EXE.  Up to the next Forward the value may still   *)
(* be the one ID has read; no load in MEM is going to change it.             *)
Fresh(r, value) ==
    value # NoValue =>
        /\ IF stage \in {"if", "caches", "start"} THEN value \in {id_regs[r], Newest(r)}
           ELSE value = Newest(r)
        /\ r # 0 /\ mem_op # NoOp /\ IsLoad(mem_op) => mem_op.inst.rd # r

FreshInv ==
    exe_op # NoOp => /\ Fresh(exe_op.inst.rs1, exe_op.rs1)
                     /\ Fresh(exe_op.inst.rs2, exe_op.rs2)

ShapeInv == TypeOK /\ OpsInv /\ MemInv /\ FetchIsCurrent

IndInv == ShapeInv /\ BranchInv /\ StallInv /\ FreshInv /\ CountersConserve

-----------------------------------------------------------------------------
(* What ImplementsISA needs on top: the ops in flight are the instructions   *)
(* that follow one another in the program, each with the values the machine  *)
(* computes for it.                                                          *)

PcAfterExe == IF InFlight(id_op) THEN id_op.pc ELSE if_pc
PcAfterMem == IF InFlight(exe_op) THEN exe_op.pc ELSE PcAfterExe
PcAfterWb == IF InFlight(mem_op) THEN mem_op.pc ELSE PcAfterMem

PredictedNext(op) == IF op.bp_result.direction THEN op.bp_result.addr ELSE NextPc(op.pc)

ActualNext(op) ==
    IF op.inst.op \in ControlFlow /\ BranchTaken(op.inst, op.rs1, op.rs2)
    THEN op.alu_result ELSE NextPc(op.pc)

(* Up to EXE an op is followed by what was predicted, from MEM on by what is *)
(* right, unless its recovery is still to come.                              *)
StreamInv ==
    /\ InFlight(id_op) => if_pc = PredictedNext(id_op)
    /\ InFlight(exe_op) => PcAfterExe = PredictedNext(exe_op)
    /\ InFlight(mem_op) /\ ~branch_recover => PcAfterMem = ActualNext(mem_op)
    /\ branch_recover => branch_destination = ActualNext(mem_op)
    /\ InFlight(wb_op) => PcAfterWb = ActualNext(wb_op)

(* An op is the instruction at its pc, and only control flow is predicted. *)
OfProgram(op) ==
    InFlight(op) => /\ op.inst = InstAt(program, op.pc)
                    /\ op.inst.op # "Fence"
                    /\ op.inst.op \notin ControlFlow => ~op.bp_result.direction

PathInv ==
    /\ OfProgram(id_op) /\ OfProgram(exe_op) /\ OfProgram(mem_op) /\ OfProgram(wb_op)
    /\ InFlight(exe_op) => exe_op.inst.op # "Illegal"
    /\ InFlight(mem_op) => mem_op.inst.op # "Illegal"
    /\ InFlight(wb_op) => wb_op.inst.op # "Illegal"

(* The value of register r once the op in WB has retired. *)
AfterWb(r) == IF r # 0 /\ Writeback(wb_op) /\ wb_op.inst.rd = r THEN wb_op.rd_write_value
              ELSE id_regs[r]

(* What EXE has put into an op. *)
Computed(op) ==
    /\ OperandsRead(op)
    /\ op.inst.op # "Ecall" => op.alu_result = AluResult(AluOpType(op.inst), Op1(op), Op2(op))
    /\ op.inst.op \in OpInsts \cup OpImmInsts \cup UpperInsts => op.rd_write_value = op.alu_result
    /\ op.inst.op \in {"Jal", "Jalr"} => op.rd_write_value = NextPc(op.pc)

ValueInv ==
    /\ InFlight(exe_op) /\ exe_op.inst.op \in {"Jal", "Jalr"} =>
         exe_op.rd_write_value = NextPc(exe_op.pc)
    /\ InFlight(mem_op) =>
         /\ Computed(mem_op)
         /\ ReadsRs1(mem_op.inst) => mem_op.rs1 = AfterWb(mem_op.inst.rs1)
         /\ ReadsRs2(mem_op.inst) => mem_op.rs2 = AfterWb(mem_op.inst.rs2)
    /\ InFlight(wb_op) =>
         /\ Computed(wb_op)
         /\ ReadsRs1(wb_op.inst) => wb_op.rs1 = id_regs[wb_op.inst.rs1]
         /\ ReadsRs2(wb_op.inst) => wb_op.rs2 = id_regs[wb_op.inst.rs2]
         /\ AccessesMemory(wb_op) => Aligned(wb_op.inst, wb_op.alu_result)
         /\ IsLoad(wb_op) => wb_op.rd_write_value = LoadedValue(wb_op.inst, LoadBytes(wb_op))

(* At most one store has reached memory and not retired: that of WB, or that *)
(* of MEM once the cache has answered, which finds WB empty.                 *)
Stored(op, m) ==
    [a \in Word |-> IF a \in op.alu_result .. (op.alu_result + AccessLen(op.inst) - 1)
                    THEN StoreBytes(op.inst, op.rs2)[a - op.alu_result + 1] ELSE m[a]]

DataInv ==
    /\ mem_transaction.state # "Idle" => wb_op = NoOp
    /\ data = IF wb_op # NoOp /\ wb_op.inst.op \in StoreInsts THEN Stored(wb_op, retired_data)
              ELSE IF mem_transaction.done /\ mem_op.inst.op \in StoreInsts
              THEN Stored(mem_op, retired_data)
              ELSE retired_data

HaltInv == halt => stage # "wb"

RefInv == StreamInv /\ PathInv /\ ValueInv /\ DataInv /\ HaltInv
=============================================================================
