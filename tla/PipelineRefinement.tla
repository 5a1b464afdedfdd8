------------------------- MODULE PipelineRefinement -------------------------
(* Pipeline implements ISA: what retires is the execution of the program one *)
(* instruction after the other.  First RefInv is shown to be an invariant,   *)
(* one action at a time; then the arithmetic of Alu is shown to be that of   *)
(* ISA; then every WriteBack of an instruction is a step of the machine.     *)
EXTENDS PipelineProofs

-----------------------------------------------------------------------------
LEMMA NoOpFacts ==
    /\ ~InFlight(NoOp) /\ ~Writeback(NoOp)
BY DEF InFlight, Writeback

LEMMA IndTypes ==
    ASSUME IndInv
    PROVE  /\ TypeOK /\ OpsInv /\ MemInv /\ FetchIsCurrent /\ BranchInv /\ StallInv /\ FreshInv
           /\ InFlight(id_op) => id_op \in MicroOps
           /\ InFlight(exe_op) => exe_op \in MicroOps
           /\ InFlight(mem_op) => mem_op \in MicroOps
           /\ InFlight(wb_op) => wb_op \in MicroOps
BY OpTypes DEF IndInv, ShapeInv, InFlight

LEMMA RefInit == ASSUME Init PROVE RefInv
<1> USE DEF Init
<1>1. StreamInv /\ PathInv /\ ValueInv
    BY NoOpFacts DEF StreamInv, PathInv, OfProgram, ValueInv
<1>2. DataInv /\ HaltInv
    BY DEF DataInv, HaltInv
<1> QED
    BY <1>1, <1>2 DEF RefInv

LEMMA RecoverRef == ASSUME IndInv, RefInv, Recover PROVE RefInv'
<1> USE DEF RefInv, Recover, Enter, Goto
<1>1. InFlight(mem_op) /\ branch_destination = ActualNext(mem_op)
    BY IndTypes DEF BranchInv, InFlight, StreamInv
<1>2. StreamInv'
    BY <1>1, NoOpFacts DEF StreamInv, PcAfterExe, PcAfterMem, PcAfterWb
<1>3. PathInv'
    BY NoOpFacts DEF PathInv, OfProgram
<1>4. ValueInv'
    BY NoOpFacts DEF ValueInv, AfterWb, LoadBytes, memory_vars
<1>5. DataInv' /\ HaltInv'
    BY DEF DataInv, HaltInv, memory_vars
<1> QED
    BY <1>2, <1>3, <1>4, <1>5

LEMMA ForwardRef == ASSUME IndInv, RefInv, Forward PROVE RefInv'
<1> USE DEF RefInv, Forward, Enter, Goto
<1>1. /\ InFlight(exe_op') <=> InFlight(exe_op)
      /\ InFlight(exe_op) => /\ exe_op'.inst = exe_op.inst /\ exe_op'.pc = exe_op.pc
                             /\ exe_op'.bp_result = exe_op.bp_result
                             /\ exe_op'.rd_write_value = exe_op.rd_write_value
    <2>1. CASE exe_op = NoOp
        BY <2>1, NoOpFacts
    <2>2. CASE exe_op # NoOp
        <3>1. exe_op \in MicroOps
            BY <2>2, IndTypes, OpTypes
        <3>2. PICK v1, v2 : exe_op' = [exe_op EXCEPT !.rs1 = v1, !.rs2 = v2]
            BY <2>2
        <3>3. /\ exe_op'.inst = exe_op.inst /\ exe_op'.pc = exe_op.pc
              /\ exe_op'.bp_result = exe_op.bp_result
              /\ exe_op'.rd_write_value = exe_op.rd_write_value
              /\ exe_op'.placeholder = exe_op.placeholder
              /\ DOMAIN exe_op' = DOMAIN exe_op
            BY <3>1, <3>2 DEF MicroOps
        <3>4. exe_op' # NoOp
            <4>1. "inst" \in DOMAIN exe_op' /\ "inst" \notin DOMAIN NoOp
                BY <3>1, <3>3 DEF MicroOps, NoOp
            <4> QED
                BY <4>1
        <3> QED
            BY <2>2, <3>3, <3>4 DEF InFlight
    <2> QED
        BY <2>1, <2>2
<1>2. StreamInv'
    BY <1>1 DEF StreamInv, PcAfterExe, PcAfterMem, PcAfterWb, PredictedNext, fetch_vars, branch_vars
<1>3. PathInv'
    BY <1>1 DEF PathInv, OfProgram
<1>4. ValueInv'
    BY <1>1 DEF ValueInv, AfterWb, LoadBytes, memory_vars
<1>5. DataInv' /\ HaltInv'
    BY DEF DataInv, HaltInv, memory_vars, Running
<1> QED
    BY <1>2, <1>3, <1>4, <1>5

LEMMA WriteBackKeepsAfterWb ==
    ASSUME TypeOK, WriteBack, NEW r \in Regs
    PROVE  AfterWb(r)' = AfterWb(r)
<1> USE DEF WriteBack
<1>1. AfterWb(r)' = id_regs'[r]
    BY NoOpFacts DEF AfterWb
<1>2. CASE Writeback(wb_op) /\ wb_op.inst.rd # 0
    <2>1. wb_op.inst.rd \in Regs /\ id_regs \in [Regs -> Word]
        BY <1>2, OpTypes DEF MicroOps, Instructions, Writeback, TypeOK
    <2> QED
        BY <1>1, <1>2, <2>1 DEF AfterWb
<1>3. CASE ~(Writeback(wb_op) /\ wb_op.inst.rd # 0)
    BY <1>1, <1>3 DEF AfterWb
<1> QED
    BY <1>2, <1>3

LEMMA WriteBackRef == ASSUME IndInv, RefInv, WriteBack PROVE RefInv'
<1> USE DEF RefInv, WriteBack, Enter, Goto
<1>1. StreamInv'
    BY NoOpFacts DEF StreamInv, PcAfterExe, PcAfterMem, PcAfterWb, fetch_vars, branch_vars
<1>2. PathInv'
    BY NoOpFacts DEF PathInv, OfProgram
<1>3. ValueInv'
    <2>1. ASSUME InFlight(mem_op)
          PROVE  /\ AfterWb(mem_op.inst.rs1)' = AfterWb(mem_op.inst.rs1)
                 /\ AfterWb(mem_op.inst.rs2)' = AfterWb(mem_op.inst.rs2)
        <3>1. PICK r1 \in Regs, r2 \in Regs : r1 = mem_op.inst.rs1 /\ r2 = mem_op.inst.rs2
            BY <2>1, IndTypes DEF MicroOps, Instructions
        <3>2. AfterWb(r1)' = AfterWb(r1) /\ AfterWb(r2)' = AfterWb(r2)
            BY IndTypes, WriteBackKeepsAfterWb
        <3> QED
            BY <3>1, <3>2 DEF AfterWb
    <2> QED
        BY <2>1, NoOpFacts DEF ValueInv
<1>4. DataInv'
    BY IndTypes DEF DataInv, MemInv, memory_vars
<1>5. HaltInv'
    BY DEF HaltInv
<1> QED
    BY <1>1, <1>2, <1>3, <1>4, <1>5

-----------------------------------------------------------------------------
LEMMA FinishedKeeps ==
    ASSUME NEW op \in MicroOps
    PROVE  /\ Finished(op).inst = op.inst /\ Finished(op).pc = op.pc
           /\ Finished(op).rs1 = op.rs1 /\ Finished(op).rs2 = op.rs2
           /\ Finished(op).alu_result = op.alu_result
           /\ Finished(op).bp_result = op.bp_result
           /\ Finished(op).placeholder = op.placeholder
           /\ Finished(op) # NoOp
           /\ IsLoad(op) => Finished(op).rd_write_value = LoadedValue(op.inst, LoadBytes(op))
           /\ ~IsLoad(op) => Finished(op).rd_write_value = op.rd_write_value
<1> DEFINE v == LoadedValue(op.inst, LoadBytes(op))
<1>1. Finished(op) = IF IsLoad(op) THEN [op EXCEPT !.rd_write_value = v] ELSE op
    BY DEF Finished
<1> HIDE DEF v
<1>2. /\ Finished(op).inst = op.inst /\ Finished(op).pc = op.pc
      /\ Finished(op).rs1 = op.rs1 /\ Finished(op).rs2 = op.rs2
      /\ Finished(op).alu_result = op.alu_result
      /\ Finished(op).bp_result = op.bp_result
      /\ Finished(op).placeholder = op.placeholder
      /\ "inst" \in DOMAIN Finished(op)
      /\ IsLoad(op) => Finished(op).rd_write_value = v
      /\ ~IsLoad(op) => Finished(op).rd_write_value = op.rd_write_value
    BY <1>1 DEF MicroOps
<1>3. "inst" \notin DOMAIN NoOp
    BY DEF NoOp
<1> QED
    BY <1>2, <1>3 DEF v

LEMMA PerformIsStored ==
    ASSUME NEW op
    PROVE  Perform(op) = IF op.inst.op \in StoreInsts THEN Stored(op, data) ELSE data
BY DEF Perform, Stored

LEMMA StoredSame ==
    ASSUME NEW a, NEW b, a.inst = b.inst, a.alu_result = b.alu_result, a.rs2 = b.rs2, NEW m
    PROVE  Stored(a, m) = Stored(b, m)
BY DEF Stored

LEMMA LeavesRef ==
    ASSUME IndInv, RefInv, MemFrame,
           mem_op # NoOp, wb_op' = Finished(mem_op), mem_op' = NoOp,
           mem_transaction' = [state |-> "Idle", done |-> FALSE],
           AccessesMemory(mem_op) => Aligned(mem_op.inst, mem_op.alu_result),
           data' = IF mem_op.inst.op \in StoreInsts THEN Stored(mem_op, retired_data)
                   ELSE retired_data,
           IsLoad(mem_op) => data' = data
    PROVE  RefInv'
<1> USE DEF RefInv
<1>1. /\ mem_op \in MicroOps /\ wb_op = NoOp /\ ~branch_recover
      /\ stage = "mem" /\ stage' = "exe"
    BY IndTypes, OpTypes DEF MemFrame, Enter, Goto, MemInv, BranchInv
<1>2. /\ wb_op'.inst = mem_op.inst /\ wb_op'.pc = mem_op.pc
      /\ wb_op'.rs1 = mem_op.rs1 /\ wb_op'.rs2 = mem_op.rs2
      /\ wb_op'.alu_result = mem_op.alu_result
      /\ wb_op'.bp_result = mem_op.bp_result
      /\ wb_op'.placeholder = mem_op.placeholder
      /\ wb_op' # NoOp
      /\ IsLoad(mem_op) => wb_op'.rd_write_value = LoadedValue(mem_op.inst, LoadBytes(mem_op))
      /\ ~IsLoad(mem_op) => wb_op'.rd_write_value = mem_op.rd_write_value
    BY <1>1, FinishedKeeps
<1>3. InFlight(wb_op') <=> InFlight(mem_op)
    BY <1>2 DEF InFlight
<1>4. StreamInv'
    <2>1. UNCHANGED <<id_op, exe_op, if_pc, branch_vars>>
        BY DEF MemFrame, fetch_vars
    <2>2. ActualNext(wb_op') = ActualNext(mem_op)
        BY <1>2 DEF ActualNext
    <2>3. PcAfterMem' = PcAfterMem /\ PcAfterExe' = PcAfterExe /\ PcAfterWb' = PcAfterMem'
        BY <2>1, NoOpFacts DEF PcAfterExe, PcAfterMem, PcAfterWb
    <2> QED
        BY <1>1, <1>3, <2>1, <2>2, <2>3, NoOpFacts DEF StreamInv, branch_vars
<1>5. PathInv'
    BY <1>2, <1>3, NoOpFacts DEF PathInv, OfProgram, MemFrame, Goto
<1>6. ValueInv'
    <2>0. /\ UNCHANGED <<exe_op, id_regs>>
          /\ (IsLoad(mem_op) <=> IsLoad(wb_op')) /\ (AccessesMemory(mem_op) <=> AccessesMemory(wb_op'))
        BY <1>2 DEF MemFrame, IsLoad, AccessesMemory
    <2>1. ASSUME InFlight(wb_op')
          PROVE  /\ Computed(wb_op')
                 /\ ReadsRs1(wb_op'.inst) => wb_op'.rs1 = id_regs'[wb_op'.inst.rs1]
                 /\ ReadsRs2(wb_op'.inst) => wb_op'.rs2 = id_regs'[wb_op'.inst.rs2]
                 /\ AccessesMemory(wb_op') => Aligned(wb_op'.inst, wb_op'.alu_result)
        <3>1. Computed(mem_op)
            BY <1>3, <2>1 DEF ValueInv
        <3>2. Op1(wb_op') = Op1(mem_op) /\ Op2(wb_op') = Op2(mem_op)
            BY <1>2 DEF Op1, Op2
        <3>3. IsLoad(mem_op) => mem_op.inst.op \notin OpInsts \cup OpImmInsts \cup UpperInsts
                                                      \cup {"Jal", "Jalr"}
            BY DEF IsLoad, LoadInsts, OpInsts, OpImmInsts, UpperInsts
        <3>4. Computed(wb_op')
            BY <1>1, <1>2, <3>1, <3>2, <3>3, OpIsNotNoOp DEF Computed, OperandsRead
        <3>5. \A r : AfterWb(r) = id_regs[r]
            BY <1>1, NoOpFacts DEF AfterWb
        <3> QED
            BY <1>2, <1>3, <2>0, <2>1, <3>4, <3>5 DEF ValueInv
    <2>2. ASSUME IsLoad(wb_op')
          PROVE  wb_op'.rd_write_value = LoadedValue(wb_op'.inst, LoadBytes(wb_op)')
        <3>1. LoadBytes(wb_op)' = LoadBytes(mem_op)
            BY <1>2, <2>0, <2>2 DEF LoadBytes
        <3> QED
            BY <1>2, <2>0, <2>2, <3>1
    <2> QED
        BY <2>0, <2>1, <2>2, NoOpFacts DEF ValueInv
<1>7. DataInv'
    <2>1. Stored(wb_op', retired_data) = Stored(mem_op, retired_data)
        BY <1>2, StoredSame
    <2>2. Stored(wb_op, retired_data)' = Stored(wb_op', retired_data)
        BY DEF MemFrame, Stored
    <2> QED
        BY <1>2, <2>1, <2>2 DEF DataInv, MemFrame
<1>8. HaltInv'
    BY <1>1 DEF HaltInv
<1> QED
    BY <1>4, <1>5, <1>6, <1>7, <1>8

LEMMA StaysRef ==
    ASSUME IndInv, RefInv, MemFrame, UNCHANGED <<mem_op, wb_op, data>>,
           mem_transaction'.done = mem_transaction.done
    PROVE  RefInv'
<1> USE DEF RefInv
<1>1. /\ wb_op = NoOp /\ stage' = "exe"
    BY IndTypes DEF MemFrame, Enter, Goto, MemInv
<1>2. StreamInv'
    BY DEF StreamInv, PcAfterExe, PcAfterMem, PcAfterWb, MemFrame, fetch_vars, branch_vars
<1>3. PathInv'
    BY DEF PathInv, OfProgram, MemFrame, Goto
<1>4. ValueInv'
    BY DEF ValueInv, AfterWb, LoadBytes, MemFrame
<1>5. DataInv' /\ HaltInv'
    BY <1>1 DEF DataInv, HaltInv, MemFrame
<1> QED
    BY <1>2, <1>3, <1>4, <1>5

LEMMA MemoryAccessRef == ASSUME IndInv, RefInv, MemoryAccess PROVE RefInv'
<1>1. MemFrame /\ TypeOK /\ MemInv /\ DataInv
    BY IndTypes DEF MemoryAccess, MemFrame, RefInv
<1>2. wb_op = NoOp
    BY <1>1 DEF MemFrame, Enter, MemInv
<1>3. CASE mem_op = NoOp /\ UNCHANGED <<mem_op, wb_op, memory_vars>>
    BY <1>1, <1>3, StaysRef DEF memory_vars
<1>4. CASE /\ mem_op # NoOp /\ ~AccessesMemory(mem_op)
           /\ LeaveMem(mem_op)
           /\ UNCHANGED <<dcache, data>>
    <2>1. ~mem_transaction.done /\ mem_op.inst.op \notin StoreInsts /\ ~IsLoad(mem_op)
        BY <1>1, <1>4 DEF MemInv, AccessesMemory, IsLoad
    <2>2. data = retired_data
        BY <1>1, <1>2, <2>1 DEF DataInv
    <2>3. /\ wb_op' = Finished(mem_op) /\ mem_op' = NoOp
          /\ mem_transaction' = [state |-> "Idle", done |-> FALSE]
        BY <1>2, <1>4, LeaveMemLeaves
    <2> QED
        BY <1>1, <1>4, <2>1, <2>2, <2>3, LeavesRef
<1>5. CASE mem_op # NoOp /\ AccessesMemory(mem_op) /\ MemSend
    <2>1. Aligned(mem_op.inst, mem_op.alu_result) /\ ~mem_transaction.done
        BY <1>1, <1>5 DEF MemSend, MemInv
    <2>2. data = retired_data /\ mem_transaction.done = FALSE
        BY <1>1, <1>2, <2>1 DEF DataInv, TypeOK
    <2>3. CASE mem_transaction' = [state |-> "Sending", done |-> FALSE]
               /\ StayInMem /\ UNCHANGED <<dcache, data>>
        BY <1>1, <2>2, <2>3, StaysRef DEF StayInMem
    <2>4. CASE mem_transaction' = [state |-> "Waiting", done |-> FALSE]
               /\ StayInMem /\ UNCHANGED data
        BY <1>1, <2>2, <2>4, StaysRef DEF StayInMem
    <2>5. CASE data' = Perform(mem_op) /\ LeaveMem(mem_op)
        <3>1. data' = IF mem_op.inst.op \in StoreInsts THEN Stored(mem_op, retired_data)
                      ELSE retired_data
            BY <2>2, <2>5, PerformIsStored
        <3>2. IsLoad(mem_op) => data' = data
            BY <2>2, <3>1 DEF IsLoad, LoadInsts, StoreInsts
        <3>3. /\ wb_op' = Finished(mem_op) /\ mem_op' = NoOp
              /\ mem_transaction' = [state |-> "Idle", done |-> FALSE]
            BY <1>2, <2>5, LeaveMemLeaves
        <3> QED
            BY <1>1, <1>5, <2>1, <3>1, <3>2, <3>3, LeavesRef
    <2> QED
        BY <1>5, <2>3, <2>4, <2>5 DEF MemSend
<1>6. CASE mem_op # NoOp /\ AccessesMemory(mem_op) /\ MemWait
    <2>1. mem_transaction.state = "Waiting" /\ Aligned(mem_op.inst, mem_op.alu_result)
        BY <1>1, <1>6 DEF MemWait, MemInv
    <2>2. CASE mem_transaction.done
        <3>1. data' = IF mem_op.inst.op \in StoreInsts THEN Stored(mem_op, retired_data)
                      ELSE retired_data
            BY <1>1, <1>2, <1>6, <2>2 DEF DataInv, MemWait
        <3>2. data' = data
            BY <1>6 DEF MemWait
        <3>3. /\ wb_op' = Finished(mem_op) /\ mem_op' = NoOp
              /\ mem_transaction' = [state |-> "Idle", done |-> FALSE]
            BY <1>2, <1>6, <2>2, LeaveMemLeaves DEF MemWait
        <3> QED
            BY <1>1, <1>6, <2>1, <3>1, <3>2, <3>3, LeavesRef
    <2>3. CASE ~mem_transaction.done
        BY <1>1, <1>6, <2>3, StaysRef DEF MemWait, StayInMem
    <2> QED
        BY <2>2, <2>3
<1> QED
    BY <1>3, <1>4, <1>5, <1>6 DEF MemoryAccess

-----------------------------------------------------------------------------
LEMMA ExecuteStaysRef ==
    ASSUME IndInv, RefInv, ExecuteFrame, UNCHANGED <<exe_op, mem_op, branch_vars>>
    PROVE  RefInv'
<1> USE DEF RefInv, ExecuteFrame, Enter, Goto
<1>1. StreamInv'
    BY DEF StreamInv, PcAfterExe, PcAfterMem, PcAfterWb, fetch_vars, branch_vars
<1>2. PathInv'
    BY DEF PathInv, OfProgram
<1>3. ValueInv'
    BY DEF ValueInv, AfterWb, LoadBytes, memory_vars
<1>4. DataInv' /\ HaltInv'
    BY DEF DataInv, HaltInv, memory_vars
<1> QED
    BY <1>1, <1>2, <1>3, <1>4

(* The op in EXE moves on with its results, and the branch is resolved. *)
LEMMA AdvancesRef ==
    ASSUME IndInv, RefInv, ExecuteFrame, Advances, BranchInv',
           mem_op'.rs1 = exe_op.rs1, mem_op'.rs2 = exe_op.rs2,
           mem_op'.bp_result = exe_op.bp_result,
           InFlight(exe_op) => Computed(mem_op'),
           branch_recover' => branch_destination' = ActualNext(mem_op'),
           InFlight(exe_op) /\ ~branch_recover' => ActualNext(mem_op') = PredictedNext(exe_op)
    PROVE  RefInv'
<1> USE DEF RefInv, ExecuteFrame, Enter, Goto, Advances
<1>1. mem_op' # NoOp /\ (InFlight(mem_op') <=> InFlight(exe_op))
    BY OpIsNotNoOp DEF InFlight
<1>2. StreamInv'
    <2>1. PcAfterExe' = PcAfterExe /\ PcAfterMem' = PcAfterExe' /\ PcAfterWb' = PcAfterWb
        BY <1>1, NoOpFacts DEF PcAfterExe, PcAfterMem, PcAfterWb, fetch_vars
    <2>2. InFlight(mem_op') /\ ~branch_recover' => PcAfterMem' = ActualNext(mem_op')
        BY <1>1, <2>1 DEF StreamInv
    <2> QED
        BY <2>1, <2>2, NoOpFacts DEF StreamInv, fetch_vars
<1>3. PathInv'
    BY <1>1, NoOpFacts DEF PathInv, OfProgram
<1>4. ValueInv'
    <2>1. UNCHANGED <<id_regs, wb_op, data>>
        BY DEF memory_vars
    <2>2. ASSUME InFlight(mem_op')
          PROVE  /\ ReadsRs1(mem_op'.inst) => mem_op'.rs1 = AfterWb(exe_op.inst.rs1)
                 /\ ReadsRs2(mem_op'.inst) => mem_op'.rs2 = AfterWb(exe_op.inst.rs2)
        <3>1. exe_op \in MicroOps /\ OperandsRead(exe_op) /\ FreshInv /\ id_regs \in [Regs -> Word]
            BY <1>1, <2>2, IndTypes DEF OpsInv, TypeOK
        <3>2. exe_op.inst.rs1 \in Regs /\ exe_op.inst.rs2 \in Regs
            BY <3>1 DEF MicroOps, Instructions
        <3>3. \A r \in Regs : Newest(r) = AfterWb(r)
            BY <3>1, NoOpFacts, NoValueFacts DEF Newest, Forwarded, AfterWb
        <3>4. /\ exe_op.rs1 # NoValue => exe_op.rs1 = Newest(exe_op.inst.rs1)
              /\ exe_op.rs2 # NoValue => exe_op.rs2 = Newest(exe_op.inst.rs2)
            BY <3>1 DEF FreshInv, Fresh
        <3> QED
            BY <3>1, <3>2, <3>3, <3>4, NoValueFacts DEF OperandsRead
    <2>3. ASSUME NEW r
          PROVE  AfterWb(r)' = AfterWb(r)
        BY <2>1 DEF AfterWb
    <2>4. AfterWb(mem_op.inst.rs1)' = AfterWb(exe_op.inst.rs1)
          /\ AfterWb(mem_op.inst.rs2)' = AfterWb(exe_op.inst.rs2)
        BY <2>1 DEF AfterWb
    <2>5. LoadBytes(wb_op)' = LoadBytes(wb_op)
        BY <2>1 DEF LoadBytes
    <2> QED
        BY <1>1, <2>1, <2>2, <2>4, <2>5, NoOpFacts DEF ValueInv
<1>5. DataInv'
    <2>1. mem_transaction.state = "Idle" /\ ~mem_transaction.done
        BY IndTypes DEF MemInv
    <2> QED
        BY <2>1 DEF DataInv, memory_vars
<1>6. HaltInv'
    BY DEF HaltInv
<1> QED
    BY <1>2, <1>3, <1>4, <1>5, <1>6

LEMMA ExecutedFields ==
    ASSUME NEW op \in MicroOps
    PROVE  /\ Executed(op).rs1 = op.rs1 /\ Executed(op).rs2 = op.rs2
           /\ Executed(op).inst = op.inst /\ Executed(op).pc = op.pc
           /\ Executed(op).bp_result = op.bp_result
           /\ Executed(op).placeholder = op.placeholder
           /\ Executed(op).alu_result = AluResult(AluOpType(op.inst), Op1(op), Op2(op))
           /\ Executed(op).rd_write_value =
                IF AluResultIsRd(op) THEN Executed(op).alu_result ELSE op.rd_write_value
<1> DEFINE result == AluResult(AluOpType(op.inst), Op1(op), Op2(op))
<1>1. Executed(op) = [op EXCEPT !.alu_result = result,
                                !.rd_write_value = IF AluResultIsRd(op) THEN result ELSE @]
    BY DEF Executed
<1> HIDE DEF result
<1>2. /\ Executed(op).rs1 = op.rs1 /\ Executed(op).rs2 = op.rs2
      /\ Executed(op).inst = op.inst /\ Executed(op).pc = op.pc
      /\ Executed(op).bp_result = op.bp_result
      /\ Executed(op).placeholder = op.placeholder
      /\ Executed(op).alu_result = result
      /\ Executed(op).rd_write_value = IF AluResultIsRd(op) THEN result ELSE op.rd_write_value
    BY <1>1 DEF MicroOps
<1> QED
    BY <1>2 DEF result

LEMMA ExecuteRef == ASSUME IndInv, RefInv, IndInv', Execute PROVE RefInv'
<1>0. /\ TypeOK /\ OpsInv /\ MemInv /\ BranchInv /\ BranchInv'
    BY IndTypes DEF IndInv
<1>1. ~branch_recover /\ stage = "exe"
    BY <1>0 DEF Execute, Enter, BranchInv
<1>2. ExecuteFrame
    <2>1. int_mul_div_stall_countdown' \in NoValue .. DIV_REM_STALL
        BY DEF IndInv, ShapeInv, TypeOK
    <2> QED
        BY <2>1 DEF ExecuteFrame, Execute
<1>3. CASE UNCHANGED <<exe_op, mem_op, branch_vars>>
    BY <1>2, <1>3, ExecuteStaysRef
<1>4. CASE /\ ~ExecuteBlocked /\ exe_op.inst.op = "Ecall"
           /\ mem_op' = exe_op
           /\ exe_op' = NoOp
           /\ UNCHANGED branch_vars
    <2>1. Advances
        BY <1>0, <1>4, OpTypes DEF Advances, ExecuteBlocked
    <2>2. Computed(exe_op)
        BY <1>0, <1>4 DEF Computed, OpsInv, OpInsts, OpImmInsts, UpperInsts
    <2>3. exe_op.inst.op \notin ControlFlow
        BY <1>4 DEF ControlFlow, BranchInsts
    <2>4. InFlight(exe_op) => ActualNext(exe_op) = PredictedNext(exe_op)
        BY <2>3 DEF RefInv, PathInv, OfProgram, ActualNext, PredictedNext
    <2>5. ~branch_recover'
        BY <1>1, <1>4 DEF branch_vars
    <2> QED
        BY <1>0, <1>2, <1>4, <2>1, <2>2, <2>4, <2>5, AdvancesRef
<1>5. CASE /\ ~ExecuteBlocked /\ exe_op.inst.op # "Ecall"
           /\ mem_op' = Executed(exe_op)
           /\ exe_op' = NoOp
           /\ ResolveBranch(Executed(exe_op))
    <2>1. exe_op \in MicroOps /\ mem_op = NoOp /\ exe_op # NoOp /\ OperandsRead(exe_op)
        BY <1>0, <1>5, OpTypes DEF ExecuteBlocked, OpsInv
    <2>2. Advances
        BY <1>5, <2>1, ExecutedType DEF Advances
    <2> DEFINE op == Executed(exe_op)
               taken == BranchTaken(op.inst, op.rs1, op.rs2)
    <2>3. /\ op \in MicroOps /\ op # NoOp
          /\ op.rs1 = exe_op.rs1 /\ op.rs2 = exe_op.rs2
          /\ op.inst = exe_op.inst /\ op.pc = exe_op.pc
          /\ op.bp_result = exe_op.bp_result
          /\ op.placeholder = exe_op.placeholder
          /\ op.alu_result = AluResult(AluOpType(exe_op.inst), Op1(exe_op), Op2(exe_op))
          /\ op.rd_write_value =
                IF AluResultIsRd(exe_op) THEN op.alu_result ELSE exe_op.rd_write_value
        BY <2>1, ExecutedFields, ExecutedType, OpIsNotNoOp
    <2>4. mem_op' = op /\ ResolveBranch(op)
        BY <1>5
    <2> HIDE DEF op
    <2>5. InFlight(exe_op) => Computed(op)
        <3>1. Op1(op) = Op1(exe_op) /\ Op2(op) = Op2(exe_op)
            BY <2>3 DEF Op1, Op2
        <3>2. OperandsRead(op)
            BY <2>1, <2>3 DEF OperandsRead
        <3>3. InFlight(exe_op) /\ exe_op.inst.op \in {"Jal", "Jalr"} =>
                op.rd_write_value = NextPc(op.pc)
            BY <2>3 DEF RefInv, ValueInv, AluResultIsRd, OpInsts, OpImmInsts, UpperInsts
        <3>4. InFlight(exe_op) /\ exe_op.inst.op \in OpInsts \cup OpImmInsts \cup UpperInsts =>
                op.rd_write_value = op.alu_result
            BY <2>3 DEF AluResultIsRd, InFlight
        <3> QED
            BY <2>3, <3>1, <3>2, <3>3, <3>4 DEF Computed
    <2>6. CASE op.inst.op \in ControlFlow /\ NeedsRecovery(op, taken)
        <3>1. branch_recover' /\ branch_destination' = RecoveryDestination(op, taken)
            BY <2>4, <2>6 DEF ResolveBranch
        <3>2. RecoveryDestination(op, taken) = ActualNext(op)
            BY <2>6 DEF RecoveryDestination, ActualNext
        <3> QED
            BY <1>0, <1>2, <2>2, <2>3, <2>4, <2>5, <3>1, <3>2, AdvancesRef
    <2>7. CASE ~(op.inst.op \in ControlFlow /\ NeedsRecovery(op, taken))
        <3>1. ~branch_recover'
            BY <1>1, <2>4, <2>7 DEF ResolveBranch, branch_vars
        <3>2. InFlight(exe_op) => ActualNext(op) = PredictedNext(exe_op)
            <4> SUFFICES ASSUME InFlight(exe_op)
                         PROVE  ActualNext(op) = PredictedNext(exe_op)
                OBVIOUS
            <4>1. op.bp_result.direction \in BOOLEAN /\ op.rs1 \in Int /\ op.rs2 \in Int
                BY <2>3, NoValueFacts DEF MicroOps
            <4>2. CASE op.inst.op \in ControlFlow
                <5>1. taken \in BOOLEAN
                    BY <4>1, <4>2, BranchTakenType
                <5>2. op.bp_result.direction = taken /\ (taken => op.bp_result.addr = op.alu_result)
                    BY <2>7, <4>2 DEF NeedsRecovery
                <5> QED
                    BY <2>3, <4>1, <4>2, <5>1, <5>2 DEF ActualNext, PredictedNext
            <4>3. CASE op.inst.op \notin ControlFlow
                BY <2>3, <4>3 DEF ActualNext, PredictedNext, RefInv, PathInv, OfProgram
            <4> QED
                BY <4>2, <4>3
        <3> QED
            BY <1>0, <1>2, <2>2, <2>3, <2>4, <2>5, <3>1, <3>2, AdvancesRef
    <2> QED
        BY <2>6, <2>7
<1> QED
    BY <1>3, <1>4, <1>5 DEF Execute

LEMMA DecodeRef == ASSUME IndInv, RefInv, Decode PROVE RefInv'
<1> USE DEF RefInv, Decode, Enter, Goto
<1>1. CASE DecodeBlocked \/ LoadUseHazard
    <2>1. UNCHANGED <<id_op, exe_op>>
        BY <1>1
    <2>2. StreamInv'
        BY <2>1 DEF StreamInv, PcAfterExe, PcAfterMem, PcAfterWb, fetch_vars, branch_vars
    <2>3. PathInv'
        BY <2>1 DEF PathInv, OfProgram
    <2>4. ValueInv'
        BY <2>1 DEF ValueInv, AfterWb, LoadBytes, memory_vars
    <2>5. DataInv' /\ HaltInv'
        BY DEF DataInv, HaltInv, memory_vars
    <2> QED
        BY <2>2, <2>3, <2>4, <2>5
<1>2. CASE ~(DecodeBlocked \/ LoadUseHazard)
    <2>1. /\ exe_op' = Decoded(id_op) /\ id_op' = NoOp
          /\ exe_op = NoOp /\ id_op # NoOp /\ id_op \in MicroOps
          /\ id_op.inst.op # "Illegal" /\ InFlight(id_op)
          /\ id_regs \in [Regs -> Word]
        BY <1>2, IndTypes, OpTypes DEF DecodeBlocked, IllegalInDecode, OpsInv, InFlight, TypeOK
    <2>2. PICK v1, v2 : exe_op' = [id_op EXCEPT !.rs1 = v1, !.rs2 = v2,
                !.rd_write_value = IF id_op.inst.op \in {"Jal", "Jalr"} THEN NextPc(id_op.pc) ELSE @]
        BY <2>1 DEF Decoded
    <2>3. /\ exe_op'.inst = id_op.inst /\ exe_op'.pc = id_op.pc
          /\ exe_op'.bp_result = id_op.bp_result /\ exe_op'.placeholder = id_op.placeholder
          /\ id_op.inst.op \in {"Jal", "Jalr"} => exe_op'.rd_write_value = NextPc(id_op.pc)
        BY <2>1, <2>2 DEF MicroOps
    <2>4. InFlight(exe_op')
        BY <2>1, <2>3, DecodedType, OpIsNotNoOp DEF InFlight
    <2>5. StreamInv'
        BY <2>1, <2>3, <2>4, NoOpFacts
        DEF StreamInv, PcAfterExe, PcAfterMem, PcAfterWb, PredictedNext, fetch_vars, branch_vars
    <2>6. PathInv'
        BY <2>1, <2>3, <2>4, NoOpFacts DEF PathInv, OfProgram
    <2>7. ValueInv'
        BY <2>3 DEF ValueInv, AfterWb, LoadBytes, memory_vars
    <2>8. DataInv' /\ HaltInv'
        BY DEF DataInv, HaltInv, memory_vars
    <2> QED
        BY <2>5, <2>6, <2>7, <2>8
<1> QED
    BY <1>1, <1>2

-----------------------------------------------------------------------------
(* ID keeps what it has, or gets the instruction at if_pc. *)
FetchEffect ==
    \/ UNCHANGED <<id_op, if_pc>>
    \/ /\ id_op = NoOp
       /\ InFlight(id_op') /\ id_op'.pc = if_pc
       /\ id_op'.inst = InstAt(program, if_pc) /\ id_op'.inst.op # "Fence"
       /\ id_op'.inst.op \notin ControlFlow => ~id_op'.bp_result.direction
       /\ if_pc' = PredictedNext(id_op')

LEMMA DeliverEffect ==
    ASSUME IndInv, NEW addr, addr = if_pc, NEW cache, Deliver(addr, cache)
    PROVE  FetchEffect
<1> DEFINE inst == InstAt(program, addr)
           bp == IF inst.op \in ControlFlow THEN BP!BranchPredict(branch_predictor, if_pc)
                 ELSE BP!NotTaken
<1>1. CASE id_op # NoOp \/ inst.op = "Fence"
    BY <1>1 DEF Deliver, FetchEffect, fetch_vars
<1>2. CASE id_op = NoOp /\ inst.op # "Fence"
    <2>1. /\ id_op' = Fetched(inst, if_pc, bp)
          /\ if_pc' = IF bp.direction THEN bp.addr ELSE NextPc(if_pc)
        BY <1>2 DEF Deliver
    <2>2. inst.op \notin ControlFlow => ~bp.direction
        BY DEF BP!NotTaken
    <2> HIDE DEF bp, inst
    <2>3. /\ id_op'.inst = inst /\ id_op'.pc = if_pc /\ id_op'.bp_result = bp
          /\ id_op'.placeholder = FALSE /\ "inst" \in DOMAIN id_op'
        BY <2>1 DEF Fetched
    <2>4. InFlight(id_op')
        BY <2>3 DEF InFlight, NoOp
    <2> QED
        BY <1>2, <2>1, <2>2, <2>3, <2>4 DEF FetchEffect, PredictedNext, inst
<1> QED
    BY <1>1, <1>2

LEMMA FetchEffectHolds == ASSUME IndInv, FetchSend \/ FetchWait PROVE FetchEffect
<1>1. FetchReq.addr = if_pc /\ (if_fsm.state # "Idle" => if_fsm.addr = if_pc)
    BY IndTypes DEF FetchReq, FetchIsCurrent
<1>2. CASE FetchSend
    <2>1. CASE UNCHANGED <<id_op, if_pc>>
        BY <2>1 DEF FetchEffect
    <2>2. ASSUME NEW n, NEW q, Deliver(FetchReq.addr, Accept(icache, n, q))
          PROVE  FetchEffect
        BY <1>1, <2>2, DeliverEffect
    <2> QED
        BY <1>2, <2>1, <2>2 DEF FetchSend
<1>3. CASE FetchWait
    BY <1>1, <1>3, DeliverEffect DEF FetchWait, FetchEffect, fetch_vars
<1> QED
    BY <1>2, <1>3

LEMMA FetchRef == ASSUME IndInv, RefInv, Fetch PROVE RefInv'
<1> USE DEF RefInv
<1>0. /\ FetchEffect /\ stage = "if" /\ stage' = "caches" /\ program' = program
      /\ UNCHANGED <<mem_op, wb_op, id_regs, retired_data, mem_transaction, data, dcache,
                     branch_recover, branch_destination>>
    BY FetchEffectHolds DEF Fetch, Enter, Goto, memory_vars, branch_vars
<1>1. /\ InFlight(exe_op') <=> InFlight(exe_op)
      /\ InFlight(exe_op) => exe_op' = exe_op
    <2>1. CASE id_load_use_stall
        <3>1. exe_op = NoOp /\ exe_op' = PlaceholderNop
            BY <1>0, <2>1, IndTypes DEF StallInv, Fetch
        <3> QED
            BY <3>1, NoOpFacts, PlaceholderType DEF InFlight
    <2>2. CASE ~id_load_use_stall
        BY <2>2 DEF Fetch
    <2> QED
        BY <2>1, <2>2
<1>2. PcAfterExe' = PcAfterExe
    BY <1>0, NoOpFacts DEF FetchEffect, PcAfterExe
<1>3. StreamInv'
    <2>1. PcAfterMem' = PcAfterMem /\ PcAfterWb' = PcAfterWb
        BY <1>0, <1>1, <1>2 DEF PcAfterMem, PcAfterWb
    <2>2. InFlight(id_op') => if_pc' = PredictedNext(id_op')
        BY <1>0 DEF FetchEffect, StreamInv
    <2> QED
        BY <1>0, <1>1, <1>2, <2>1, <2>2 DEF StreamInv
<1>4. PathInv'
    BY <1>0, <1>1 DEF PathInv, OfProgram, FetchEffect
<1>5. ValueInv'
    BY <1>0, <1>1 DEF ValueInv, AfterWb, LoadBytes
<1>6. DataInv' /\ HaltInv'
    BY <1>0 DEF DataInv, HaltInv
<1> QED
    BY <1>3, <1>4, <1>5, <1>6

LEMMA TickCachesRef == ASSUME IndInv, RefInv, TickCaches PROVE RefInv'
<1> USE DEF RefInv
<1>0. /\ stage = "caches" /\ stage' = "start" /\ program' = program
      /\ UNCHANGED <<id_op, exe_op, mem_op, wb_op, id_regs, retired_data, if_pc,
                     branch_recover, branch_destination>>
    BY DEF TickCaches, Enter, Goto, ops, branch_vars
<1>1. Answers(dcache) =>
        mem_transaction.state = "Waiting" /\ ~mem_transaction.done /\ wb_op = NoOp
    BY IndTypes DEF Answers, MemInv, DataInv
<1>2. StreamInv'
    BY <1>0 DEF StreamInv, PcAfterExe, PcAfterMem, PcAfterWb
<1>3. PathInv'
    BY <1>0 DEF PathInv, OfProgram
<1>4. CASE Answers(dcache)
    <2>1. data = retired_data
        BY <1>1, <1>4 DEF DataInv
    <2>2. data' = IF mem_op.inst.op \in StoreInsts THEN Stored(mem_op, retired_data)
                  ELSE retired_data
        BY <1>4, <2>1, PerformIsStored DEF TickCaches
    <2>3. mem_transaction'.done /\ mem_transaction'.state = mem_transaction.state
        BY <1>4, IndTypes DEF TickCaches, TypeOK
    <2>4. Stored(mem_op, retired_data)' = Stored(mem_op, retired_data)
        BY <1>0 DEF Stored
    <2>5. DataInv'
        BY <1>0, <1>1, <1>4, <2>2, <2>3, <2>4 DEF DataInv
    <2>6. ValueInv'
        BY <1>0, <1>1, <1>4, NoOpFacts DEF ValueInv, AfterWb
    <2> QED
        BY <1>0, <1>2, <1>3, <2>5, <2>6 DEF HaltInv
<1>5. CASE ~Answers(dcache)
    <2>1. UNCHANGED <<data, mem_transaction>>
        BY <1>5 DEF TickCaches
    <2>2. ValueInv' /\ DataInv'
        BY <1>0, <2>1 DEF ValueInv, AfterWb, LoadBytes, DataInv
    <2> QED
        BY <1>0, <1>2, <1>3, <2>2 DEF HaltInv
<1> QED
    BY <1>4, <1>5

LEMMA UnchangedRef ==
    ASSUME RefInv,
           UNCHANGED <<stage, program, halt, fetch_vars, branch_predictor, id_regs, ops,
                       memory_vars, branch_vars, int_mul_div_stall_countdown,
                       id_load_use_stall, retired_data, hpm_balance>>
    PROVE  RefInv'
<1> USE DEF RefInv, ops, fetch_vars, memory_vars, branch_vars
<1>1. StreamInv'
    BY DEF StreamInv, PcAfterExe, PcAfterMem, PcAfterWb
<1>2. PathInv'
    BY DEF PathInv, OfProgram
<1>3. ValueInv' /\ DataInv' /\ HaltInv'
    BY DEF ValueInv, AfterWb, LoadBytes, DataInv, HaltInv
<1> QED
    BY <1>1, <1>2, <1>3

LEMMA NextRef == ASSUME IndInv, RefInv, IndInv', [Next]_vars PROVE RefInv'
<1>1. CASE Recover BY <1>1, RecoverRef
<1>2. CASE Forward BY <1>2, ForwardRef
<1>3. CASE WriteBack BY <1>3, WriteBackRef
<1>4. CASE MemoryAccess BY <1>4, MemoryAccessRef
<1>5. CASE Execute BY <1>5, ExecuteRef
<1>6. CASE Decode BY <1>6, DecodeRef
<1>7. CASE Fetch BY <1>7, FetchRef
<1>8. CASE TickCaches BY <1>8, TickCachesRef
<1>9. CASE Panic
    BY <1>9, UnchangedRef DEF Panic
<1>10. CASE UNCHANGED vars
    BY <1>10, UnchangedRef DEF vars
<1> QED
    BY <1>1, <1>2, <1>3, <1>4, <1>5, <1>6, <1>7, <1>8, <1>9, <1>10 DEF Next, Step, Terminated

(* The ops in flight are always the next instructions of the program, with   *)
(* the values the machine computes for them.                                 *)
THEOREM StreamInvariant == Spec => []RefInv
<1>1. Init => IndInv /\ RefInv
    BY InitInv, RefInit
<1>2. IndInv /\ RefInv /\ [Next]_vars => (IndInv /\ RefInv)'
    BY NextStep, NextRef
<1> QED
    BY <1>1, <1>2, PTL DEF Spec

-----------------------------------------------------------------------------
(* The arithmetic of Alu is that of ISA. *)

LEMMA SameNotions ==
    /\ Machine!WordBits = WordBits /\ Machine!Word = Word
    /\ \A x : Machine!Signed(x) = Signed(x) /\ Machine!ToWord(x) = ToWord(x)
    /\ \A x, k : Machine!BitOf(x, k) = Bit(x, k)
    /\ \A i : Machine!AccessLen(i) = AccessLen(i)
    /\ \A i, x : Machine!Aligned(i, x) = Aligned(i, x)
    /\ \A x : Machine!NextPc(x) = NextPc(x)
    /\ \A p, x : Machine!InstAt(p, x) = InstAt(p, x)
    /\ Machine!OpInsts = OpInsts /\ Machine!OpImmInsts = OpImmInsts
    /\ Machine!UpperInsts = UpperInsts /\ Machine!LoadInsts = LoadInsts
    /\ Machine!StoreInsts = StoreInsts /\ Machine!BranchInsts = BranchInsts
    /\ Machine!Regs = Regs /\ Machine!Byte = Byte /\ Machine!Instructions = Instructions
BY DEF Machine!OpInsts, OpInsts, Machine!OpImmInsts, OpImmInsts, Machine!UpperInsts, UpperInsts,
       Machine!LoadInsts, LoadInsts, Machine!StoreInsts, StoreInsts, Machine!BranchInsts,
       BranchInsts, Machine!Regs, Regs, Machine!Byte, Byte, Machine!Instructions, Instructions,
       Machine!InstNames, InstNames, Machine!ControlFlow, ControlFlow,
       Machine!WordBits, WordBits, Machine!Word, Word, Machine!Signed, Signed, Machine!ToWord,
       ToWord, Machine!BitOf, Bit, Machine!AccessLen, AccessLen, Machine!Aligned, Aligned,
       Machine!NextPc, NextPc, Machine!InstAt, InstAt, Machine!Nop, Nop

LEMMA SumsAgree ==
    ASSUME NEW a \in Word, NEW b \in Word
    PROVE  /\ (ToWord(a + b) - a - b) % 2 ^ WordBits = 0
           /\ (ToWord(a - b) - a + b) % 2 ^ WordBits = 0
           /\ (ToWord(Signed(a) * Signed(b)) - Signed(a) * Signed(b)) % 2 ^ WordBits = 0
<1> DEFINE w == 2 ^ WordBits
<1>1. w \in Nat \ {0} /\ a \in Int /\ b \in Int /\ Signed(a) \in Int /\ Signed(b) \in Int
    BY WordFacts, SignedType
<1> HIDE DEF w
<1>2. ASSUME NEW n \in Int PROVE ((n % w) - n) % w = 0 /\ n % w \in Int
    <2>1. ((n % w) - n) % w = 0
        BY <1>1, RemainderDiffers
    <2>2. n % w \in 0 .. (w - 1)
        BY <1>1, Division
    <2> QED
        BY <1>1, <2>1, <2>2
<1>3. a + b \in Int /\ a - b \in Int /\ Signed(a) * Signed(b) \in Int
    BY <1>1
<1>4. (((a + b) % w) - (a + b)) % w = 0 /\ (((a - b) % w) - (a - b)) % w = 0
    BY <1>2, <1>3
<1>5. /\ ((a + b) % w) - (a + b) = ((a + b) % w) - a - b
      /\ ((a - b) % w) - (a - b) = ((a - b) % w) - a + b
    <2>1. (a + b) % w \in Int /\ (a - b) % w \in Int
        BY <1>2, <1>3
    <2> DEFINE x == (a + b) % w
               y == (a - b) % w
    <2> HIDE DEF x, y
    <2>2. x - (a + b) = x - a - b /\ y - (a - b) = y - a + b
        BY <1>1, <2>1 DEF x, y
    <2> QED
        BY <2>2 DEF x, y
<1>6. (((Signed(a) * Signed(b)) % w) - Signed(a) * Signed(b)) % w = 0
    BY <1>2, <1>3
<1> QED
    BY <1>4, <1>5, <1>6 DEF ToWord, w

LEMMA ShiftsAgree ==
    ASSUME NEW a \in Word, NEW b \in Word, NEW k \in BitIndices
    PROVE  LET s == b % WordBits
           IN  /\ Bit(ToWord(a * 2 ^ s), k) = IF k >= s THEN Bit(a, k - s) ELSE 0
               /\ Bit(a \div 2 ^ s, k) = IF k + s \in BitIndices THEN Bit(a, k + s) ELSE 0
               /\ Bit(ToWord(Signed(a) \div 2 ^ s), k) =
                    IF k + s \in BitIndices THEN Bit(a, k + s) ELSE Bit(a, WordBits - 1)
<1> DEFINE s == b % WordBits
           w == 2 ^ WordBits
           n == Signed(a)
<1>1. /\ s \in BitIndices /\ 2 ^ s \in Nat \ {0}
      /\ a \in Int /\ n \in Int
      /\ a \in (-w) .. (w - 1) /\ n \in (-w) .. (w - 1) /\ ~(a < 0)
    BY ShiftType, WordFacts, SignedFacts, HalfFacts DEF Shift, BitIndices, Word
<1> HIDE DEF s, n
<1>2. a * 2 ^ s \in Int /\ n \div 2 ^ s \in Int
    <2>1. a * 2 ^ s \in Int
        BY <1>1
    <2>2. n \div 2 ^ s \in Int
        BY <1>1, Division
    <2> QED
        BY <2>1, <2>2
<1>3. Bit(ToWord(a * 2 ^ s), k) = IF k >= s THEN Bit(a, k - s) ELSE 0
    BY <1>1, <1>2, BitOfToWord, BitShiftedLeft
<1>4. Bit(a \div 2 ^ s, k) = IF k + s \in BitIndices THEN Bit(a, k + s) ELSE 0
    BY <1>1, BitShiftedRight
<1>5. Bit(ToWord(n \div 2 ^ s), k) = IF k + s \in BitIndices THEN Bit(n, k + s)
                                     ELSE IF n < 0 THEN 1 ELSE 0
    BY <1>1, <1>2, BitOfToWord, BitShiftedRight
<1>6. \A j \in BitIndices : Bit(n, j) = Bit(a, j)
    BY <1>1, SignedFacts, BitOfToWord DEF n
<1>7. Bit(a, WordBits - 1) = IF n < 0 THEN 1 ELSE 0
    BY TopBit DEF n
<1> QED
    BY <1>3, <1>4, <1>5, <1>6, <1>7 DEF s, n

LEMMA FromBitsBits ==
    ASSUME NEW ks, ks \subseteq BitIndices, NEW k \in BitIndices
    PROVE  Bit(FromBits(ks), k) = IF k \in ks THEN 1 ELSE 0
<1>1. FromBits(ks) \in Word /\ (Bit(FromBits(ks), k) = 1 <=> k \in ks)
    BY BitsExist DEF FromBits
<1>2. Bit(FromBits(ks), k) \in {0, 1}
    <2>1. FromBits(ks) \in Int
        BY FromBitsType, NoValueFacts
    <2>2. k \in 0 .. WordBits
        BY WordBitsType DEF BitIndices
    <2> QED
        BY <2>1, <2>2, BitType
<1> QED
    BY <1>1, <1>2

LEMMA LogicAgrees ==
    ASSUME NEW a \in Word, NEW b \in Word, NEW k \in BitIndices
    PROVE  /\ Bit(AluResult("Xor", a, b), k) = (Bit(a, k) + Bit(b, k)) % 2
           /\ Bit(AluResult("Or", a, b), k) = 1 <=> Bit(a, k) + Bit(b, k) >= 1
           /\ Bit(AluResult("And", a, b), k) = Bit(a, k) * Bit(b, k)
<1> DEFINE x == Bit(a, k)
           y == Bit(b, k)
<1>1. x \in {0, 1} /\ y \in {0, 1}
    BY BitType, WordFacts, WordBitsType DEF BitIndices
<1>2. /\ Bit(AluResult("Xor", a, b), k) = IF x # y THEN 1 ELSE 0
      /\ Bit(AluResult("Or", a, b), k) = IF x = 1 \/ y = 1 THEN 1 ELSE 0
      /\ Bit(AluResult("And", a, b), k) = IF x = 1 /\ y = 1 THEN 1 ELSE 0
    BY FromBitsBits DEF AluResult
<1> HIDE DEF x, y
<1>3. /\ (IF x # y THEN 1 ELSE 0) = (x + y) % 2
      /\ (IF x = 1 /\ y = 1 THEN 1 ELSE 0) = x * y
      /\ (IF x = 1 \/ y = 1 THEN 1 ELSE 0) = 1 <=> x + y >= 1
    BY <1>1
<1> QED
    BY <1>2, <1>3 DEF x, y

LEMMA ProductsAgree ==
    ASSUME NEW a \in Word, NEW b \in Word
    PROVE  /\ Signed(a) * Signed(b) - Signed(AluResult("Mulh", a, b)) * 2 ^ WordBits \in Word
           /\ a * b - AluResult("Mulhu", a, b) * 2 ^ WordBits \in Word
           /\ Signed(a) * b - Signed(AluResult("Mulhsu", a, b)) * 2 ^ WordBits \in Word
<1> DEFINE x == Signed(a)
           y == Signed(b)
           w == 2 ^ WordBits
<1>1. /\ Half \in Nat \ {0} /\ Half >= 2 /\ w = 2 * Half /\ w \in Nat \ {0}
      /\ x \in (-Half) .. (Half - 1) /\ y \in (-Half) .. (Half - 1)
      /\ a \in 0 .. (w - 1) /\ b \in 0 .. (w - 1)
    BY HalfFacts, SignedFacts DEF Word
<1>2. x * y - Signed(ToWord((x * y) \div w)) * w \in Word
    <2>1. x * y \in Int /\ x * y \in -(Half * (2 * Half)) .. (Half * (2 * Half) - 1)
        <3> HIDE DEF x, y
        <3>1. y \in Int /\ y \in (-Half) .. (2 * Half - 1)
            BY <1>1
        <3> QED
            BY <1>1, <3>1, ProductBounds
    <2> DEFINE p == x * y
    <2> HIDE DEF p
    <2>2. p - Signed(ToWord(p \div w)) * w \in Word
        BY <2>1, UpperWord DEF p
    <2> QED
        BY <2>2 DEF p
<1>3. x * b - Signed(ToWord((x * b) \div w)) * w \in Word
    <2>1. x * b \in Int /\ x * b \in -(Half * (2 * Half)) .. (Half * (2 * Half) - 1)
        <3> HIDE DEF x, w
        <3>1. b \in Int /\ b \in (-Half) .. (2 * Half - 1)
            BY <1>1
        <3> QED
            BY <1>1, <3>1, ProductBounds
    <2> DEFINE p == x * b
    <2> HIDE DEF p
    <2>2. p - Signed(ToWord(p \div w)) * w \in Word
        BY <2>1, UpperWord DEF p
    <2> QED
        BY <2>2 DEF p
<1>4. a * b - ToWord((a * b) \div w) * w \in Word
    <2> DEFINE p == a * b
               q == p \div w
    <2>0. p \in Int
        BY <1>1
    <2>1. p \in 0 .. (w * w - 1)
        <3> HIDE DEF w
        <3>1. a * b <= (w - 1) * (w - 1) /\ a * b >= 0 /\ (w - 1) * (w - 1) <= w * w - 1
            BY <1>1
        <3>2. a * b \in Int /\ (w - 1) * (w - 1) \in Int /\ w * w \in Int
            BY <1>1
        <3> QED
            BY <3>1, <3>2
    <2> HIDE DEF p, w
    <2>2. q \in 0 .. (w - 1) /\ q \in Int
        <3>1. q \in 0 .. (w - 1)
            BY <2>0, <2>1, <1>1, QuotientRange
        <3> QED
            BY <3>1, <1>1
    <2>3. p = w * q + (p % w) /\ p % w \in 0 .. (w - 1)
        BY <2>0, <1>1, Division
    <2> HIDE DEF q
    <2>4. q % w = q
        <3>1. q = w * 0 + q
            BY <2>2, <1>1
        <3>2. q \div w = 0
            BY <2>2, <1>1, <3>1, QuotientUnique
        <3>3. q = w * (q \div w) + (q % w) /\ q % w \in 0 .. (w - 1)
            BY <2>2, <1>1, Division
        <3> QED
            BY <3>2, <3>3, <2>2, <1>1
    <2>5. p - q * w = p % w
        <3>1. q * w = w * q /\ w * q \in Int
            BY <2>2, <1>1
        <3> QED
            BY <2>3, <3>1
    <2>6. p - (q % w) * w \in 0 .. (w - 1)
        BY <2>3, <2>4, <2>5
    <2> QED
        BY <2>6 DEF p, q, w, ToWord, Word
<1> QED
    BY <1>2, <1>3, <1>4 DEF AluResult

LEMMA UnsignedDivisionAgrees ==
    ASSUME NEW a \in Word, NEW b \in Word, b # 0
    PROVE  /\ a - (a \div b) * b \in 0 .. (b - 1)
           /\ a % b < b /\ (a - (a % b)) % b = 0
<1> DEFINE q == a \div b
           r == a % b
<1>1. a \in Int /\ b \in Nat \ {0}
    BY WordFacts
<1>2. q \in Int /\ r \in 0 .. (b - 1) /\ a = b * q + r
    BY <1>1, Division
<1> HIDE DEF q, r
<1>3. a - q * b = r /\ a - r = b * q
    BY <1>1, <1>2
<1>4. (b * q) % b = 0
    BY <1>1, <1>2, MultipleDivides
<1>5. a - q * b \in 0 .. (b - 1) /\ r < b /\ (a - r) % b = 0
    BY <1>1, <1>2, <1>3, <1>4
<1> QED
    BY <1>5 DEF q, r

LEMMA SignedDivisionAgrees ==
    ASSUME NEW a \in Word, NEW b \in Word, b # 0
    PROVE  /\ Machine!Computes("Div", a, b, ToWord(Quot(Signed(a), Signed(b))))
           /\ Machine!Computes("Rem", a, b, ToWord(RemOf(Signed(a), Signed(b))))
<1> DEFINE m == Signed(a)
           n == Signed(b)
           q == Quot(m, n)
           r == RemOf(m, n)
<1>1. /\ Half \in Nat \ {0} /\ Machine!Least = -Half
      /\ m \in (-Half) .. (Half - 1) /\ n \in (-Half) .. (Half - 1) /\ n # 0
    BY HalfFacts, SignedFacts, SignedType, SameNotions DEF Half, Machine!Least
<1>2. /\ q \in (-Half) .. Half /\ r \in (-Half) .. (Half - 1)
      /\ m = q * n + r
      /\ Abs(r) < Abs(n)
      /\ r = 0 \/ (r < 0 <=> m < 0)
      /\ q = Half => m = -Half /\ n = -1
    <2> HIDE DEF m, n
    <2> QED
        BY <1>1, SignedDivision
<1> HIDE DEF m, n, q, r
<1>3. Signed(ToWord(r)) = r
    BY <1>1, <1>2, SignedOfToWord
<1>4. Machine!IsDivision(m, n, q, r)
    <2>1. Machine!Magnitude(r) < Machine!Magnitude(n)
        BY <1>2 DEF Abs, Machine!Magnitude
    <2>2. r = 0 \/ (r < 0) = (m < 0)
        BY <1>2
    <2> QED
        BY <1>2, <2>1, <2>2 DEF Machine!IsDivision
<1>5. \E x \in Machine!Least .. -Machine!Least : Machine!IsDivision(m, n, x, Signed(ToWord(r)))
    BY <1>1, <1>2, <1>3, <1>4
<1>6. \/ m = Machine!Least /\ n = -1 /\ Signed(ToWord(q)) = Machine!Least
      \/ /\ ~(m = Machine!Least /\ n = -1)
         /\ Machine!IsDivision(m, n, Signed(ToWord(q)), m - Signed(ToWord(q)) * n)
    <2>1. CASE m = -Half /\ n = -1
        <3>1. q = Half
            <4>1. r = 0
                BY <2>1, <1>2, <1>1 DEF Abs
            <4> QED
                BY <2>1, <4>1, <1>2, <1>1
        <3>2. ToWord(q) = Half /\ Half \in Word
            <4>1. Half \in 0 .. (2 * Half - 1) /\ 2 * Half \in Nat \ {0}
                BY <1>1
            <4>2. Half % (2 * Half) = Half
                BY <1>1
            <4> QED
                BY <3>1, <4>1, <4>2, HalfFacts DEF ToWord, Word
        <3>3. Signed(Half) = -Half
            BY <3>2, SignedFacts, <1>1
        <3> QED
            BY <2>1, <3>2, <3>3, <1>1
    <2>2. CASE ~(m = -Half /\ n = -1)
        <3>1. Signed(ToWord(q)) = q
            BY <2>2, <1>1, <1>2, SignedOfToWord
        <3>2. m - q * n = r
            <4>1. q * n \in Int
                BY <1>1, <1>2
            <4> QED
                BY <4>1, <1>2, <1>1
        <3> QED
            BY <2>2, <3>1, <3>2, <1>1, <1>4
    <2> QED
        BY <2>1, <2>2
<1>7. Machine!Computes("Div", a, b, ToWord(q))
    BY <1>6, SameNotions DEF Machine!Computes, m, n
<1>8. Machine!Computes("Rem", a, b, ToWord(r))
    BY <1>5, SameNotions DEF Machine!Computes, m, n
<1> QED
    BY <1>7, <1>8 DEF q, r, m, n

(* What EXE computes is what the instruction means. *)
LEMMA AluComputes ==
    ASSUME NEW i \in Instructions, i.op \in OpInsts \cup OpImmInsts \cup UpperInsts,
           NEW a \in Word, NEW b \in Word
    PROVE  Machine!Computes(i.op, a, b, AluResult(AluOpType(i), a, b))
<1> DEFINE R(t) == AluResult(t, a, b)
<1>0. BitIndices = 0 .. (WordBits - 1)
    BY DEF BitIndices
<1>1. CASE i.op \in {"Add", "Addi", "Lui", "Auipc"}
    <2>1. R("Add") = ToWord(a + b)
        BY DEF AluResult
    <2>2. AluOpType(i) = "Add"
        BY <1>1 DEF AluOpType, OpInsts
    <2> QED
        BY <1>1, <2>1, <2>2, SumsAgree, SameNotions DEF Machine!Computes
<1>2. CASE i.op = "Sub"
    <2>1. R("Sub") = ToWord(a - b) /\ AluOpType(i) = "Sub"
        BY <1>2 DEF AluResult, AluOpType, OpInsts
    <2> QED
        BY <1>2, <2>1, SumsAgree, SameNotions DEF Machine!Computes
<1>3. CASE i.op \in {"Sll", "Slli"}
    <2>1. R("Sll") = ToWord(a * 2 ^ (b % WordBits)) /\ AluOpType(i) = "Sll"
        BY <1>3 DEF AluResult, AluOpType, OpInsts, Shift
    <2>2. \A k \in BitIndices :
            Bit(R("Sll"), k) = IF k >= b % WordBits THEN Bit(a, k - (b % WordBits)) ELSE 0
        BY <2>1, ShiftsAgree
    <2> HIDE DEF R
    <2> QED
        BY <1>0, <1>3, <2>1, <2>2, SameNotions DEF Machine!Computes, R
<1>4. CASE i.op \in {"Srl", "Srli"}
    <2>1. R("Srl") = a \div 2 ^ (b % WordBits) /\ AluOpType(i) = "Srl"
        BY <1>4 DEF AluResult, AluOpType, OpInsts, Shift
    <2>2. \A k \in BitIndices :
            Bit(R("Srl"), k) = IF k + (b % WordBits) \in BitIndices
                               THEN Bit(a, k + (b % WordBits)) ELSE 0
        BY <2>1, ShiftsAgree
    <2> QED
        BY <1>0, <1>4, <2>1, <2>2, SameNotions DEF Machine!Computes
<1>5. CASE i.op \in {"Sra", "Srai"}
    <2>1. R("Sra") = ToWord(Signed(a) \div 2 ^ (b % WordBits)) /\ AluOpType(i) = "Sra"
        BY <1>5 DEF AluResult, AluOpType, OpInsts, Shift
    <2>2. \A k \in BitIndices :
            Bit(R("Sra"), k) = IF k + (b % WordBits) \in BitIndices
                               THEN Bit(a, k + (b % WordBits)) ELSE Bit(a, WordBits - 1)
        BY <2>1, ShiftsAgree
    <2> QED
        BY <1>0, <1>5, <2>1, <2>2, SameNotions DEF Machine!Computes
<1>6. CASE i.op \in {"Slt", "Slti", "Sltu", "Sltiu"}
    <2>1. /\ R("Slt") = IF Signed(a) < Signed(b) THEN 1 ELSE 0
          /\ R("Sltu") = IF a < b THEN 1 ELSE 0
        BY DEF AluResult
    <2>2. AluOpType(i) = IF i.op \in {"Slt", "Slti"} THEN "Slt" ELSE "Sltu"
        BY <1>6 DEF AluOpType, OpInsts
    <2> QED
        BY <1>6, <2>1, <2>2, SameNotions DEF Machine!Computes
<1>7. CASE i.op \in {"Xor", "Xori"}
    <2>1. AluOpType(i) = "Xor"
        BY <1>7 DEF AluOpType, OpInsts
    <2> QED
        BY <1>0, <1>7, <2>1, LogicAgrees, SameNotions DEF Machine!Computes
<1>8. CASE i.op \in {"Or", "Ori"}
    <2>1. AluOpType(i) = "Or"
        BY <1>8 DEF AluOpType, OpInsts
    <2> QED
        BY <1>0, <1>8, <2>1, LogicAgrees, SameNotions DEF Machine!Computes
<1>9. CASE i.op \in {"And", "Andi"}
    <2>1. AluOpType(i) = "And"
        BY <1>9 DEF AluOpType, OpInsts
    <2> QED
        BY <1>0, <1>9, <2>1, LogicAgrees, SameNotions DEF Machine!Computes
<1>10. CASE i.op = "Mul"
    <2>1. R("Mul") = ToWord(Signed(a) * Signed(b)) /\ AluOpType(i) = "Mul"
        BY <1>10 DEF AluResult, AluOpType, OpInsts
    <2> QED
        BY <1>10, <2>1, SumsAgree, SameNotions DEF Machine!Computes
<1>11. CASE i.op \in {"Mulh", "Mulhu", "Mulhsu"}
    <2>1. AluOpType(i) = i.op
        BY <1>11 DEF AluOpType, OpInsts
    <2> QED
        BY <1>11, <2>1, ProductsAgree, SameNotions DEF Machine!Computes
<1>12. CASE i.op \in {"Div", "Divu", "Rem", "Remu"}
    <2>1. AluOpType(i) = i.op
        BY <1>12 DEF AluOpType, OpInsts
    <2>2. CASE b = 0
        <3>1. Signed(AllOnes) = -1
            <4>1. AllOnes \in Word /\ AllOnes = 2 * Half - 1 /\ Half \in Nat \ {0}
                BY WordFacts, HalfFacts DEF AllOnes
            <4> QED
                BY <4>1, SignedFacts
        <3>2. R(i.op) = IF i.op \in {"Div", "Divu"} THEN AllOnes ELSE a
            BY <1>12, <2>2 DEF AluResult
        <3> QED
            BY <1>12, <2>1, <2>2, <3>1, <3>2, SameNotions DEF Machine!Computes
    <2>3. CASE b # 0 /\ i.op \in {"Div", "Rem"}
        <3>1. R(i.op) = IF i.op = "Div" THEN ToWord(Quot(Signed(a), Signed(b)))
                        ELSE ToWord(RemOf(Signed(a), Signed(b)))
            BY <2>3 DEF AluResult
        <3> QED
            BY <2>1, <2>3, <3>1, SignedDivisionAgrees
    <2>4. CASE b # 0 /\ i.op \in {"Divu", "Remu"}
        <3>1. R(i.op) = IF i.op = "Divu" THEN a \div b ELSE a % b
            BY <2>4 DEF AluResult
        <3> QED
            BY <2>1, <2>4, <3>1, UnsignedDivisionAgrees, SameNotions DEF Machine!Computes
    <2> QED
        BY <1>12, <2>2, <2>3, <2>4
<1> QED
    BY <1>1, <1>2, <1>3, <1>4, <1>5, <1>6, <1>7, <1>8, <1>9, <1>10, <1>11, <1>12
       DEF OpInsts, OpImmInsts, UpperInsts

-----------------------------------------------------------------------------
(* Only WB changes what the machine sees. *)

MachineVars == <<program, ArchPc, id_regs, retired_data, halt>>

LEMMA ArchPcIs == ArchPc = IF InFlight(wb_op) THEN wb_op.pc ELSE PcAfterWb
BY DEF ArchPc, PcAfterWb, PcAfterMem, PcAfterExe

LEMMA RecoverStutters == ASSUME IndInv, Recover PROVE UNCHANGED MachineVars
<1>1. InFlight(mem_op)
    BY IndTypes DEF Recover, Enter, BranchInv, InFlight
<1>2. ArchPc' = ArchPc
    BY <1>1 DEF Recover, ArchPc
<1> QED
    BY <1>2 DEF Recover, Goto, MachineVars

LEMMA ForwardStutters == ASSUME IndInv, Forward PROVE UNCHANGED MachineVars
<1>1. /\ InFlight(exe_op') <=> InFlight(exe_op)
      /\ InFlight(exe_op) => exe_op'.pc = exe_op.pc
    <2>1. CASE exe_op = NoOp
        BY <2>1, NoOpFacts DEF Forward
    <2>2. CASE exe_op # NoOp
        <3>1. exe_op \in MicroOps
            BY <2>2, IndTypes, OpTypes
        <3>2. PICK v1, v2 : exe_op' = [exe_op EXCEPT !.rs1 = v1, !.rs2 = v2]
            BY <2>2 DEF Forward
        <3>3. /\ exe_op'.pc = exe_op.pc /\ exe_op'.placeholder = exe_op.placeholder
              /\ "inst" \in DOMAIN exe_op' /\ "inst" \notin DOMAIN NoOp
            BY <3>1, <3>2 DEF MicroOps, NoOp
        <3> QED
            BY <2>2, <3>3 DEF InFlight
    <2> QED
        BY <2>1, <2>2
<1>2. ArchPc' = ArchPc
    BY <1>1 DEF Forward, ArchPc, fetch_vars
<1> QED
    BY <1>2 DEF Forward, Goto, MachineVars

LEMMA MemoryAccessStutters == ASSUME IndInv, MemoryAccess PROVE UNCHANGED MachineVars
<1>1. MemFrame /\ wb_op = NoOp
    BY IndTypes DEF MemoryAccess, MemFrame, Enter, MemInv
<1>2. \/ UNCHANGED <<mem_op, wb_op>>
      \/ mem_op # NoOp /\ LeaveMem(mem_op)
    BY DEF MemoryAccess, MemSend, MemWait, StayInMem
<1>3. ArchPc' = ArchPc
    <2>1. CASE UNCHANGED <<mem_op, wb_op>>
        BY <1>1, <2>1 DEF MemFrame, ArchPc, fetch_vars
    <2>2. CASE mem_op # NoOp /\ LeaveMem(mem_op)
        <3>1. mem_op' = NoOp /\ wb_op' = Finished(mem_op) /\ mem_op \in MicroOps
            BY <1>1, <2>2, LeaveMemLeaves, IndTypes, OpTypes
        <3>2. (InFlight(wb_op') <=> InFlight(mem_op)) /\ wb_op'.pc = mem_op.pc
            BY <2>2, <3>1, FinishedKeeps DEF InFlight
        <3> QED
            BY <1>1, <3>1, <3>2, NoOpFacts DEF MemFrame, ArchPc, fetch_vars
    <2> QED
        BY <1>2, <2>1, <2>2
<1> QED
    BY <1>1, <1>3 DEF MemFrame, Goto, MachineVars

LEMMA ExecuteStutters == ASSUME IndInv, Execute PROVE UNCHANGED MachineVars
<1>1. \/ UNCHANGED <<exe_op, mem_op>>
      \/ /\ exe_op # NoOp /\ mem_op = NoOp /\ exe_op' = NoOp
         /\ mem_op' = exe_op \/ mem_op' = Executed(exe_op)
    BY DEF Execute, ExecuteBlocked
<1>2. ArchPc' = ArchPc
    <2>1. CASE UNCHANGED <<exe_op, mem_op>>
        BY <2>1 DEF Execute, ArchPc, fetch_vars
    <2>2. CASE /\ exe_op # NoOp /\ mem_op = NoOp /\ exe_op' = NoOp
               /\ mem_op' = exe_op \/ mem_op' = Executed(exe_op)
        <3>1. exe_op \in MicroOps /\ OperandsRead(exe_op) /\ WellFormed(exe_op)
            BY <2>2, IndTypes, OpTypes DEF OpsInv
        <3>2. mem_op' # NoOp /\ mem_op'.pc = exe_op.pc /\ mem_op'.placeholder = exe_op.placeholder
            BY <2>2, <3>1, ExecutedType, ExecutedFields, OpIsNotNoOp
        <3>3. InFlight(mem_op') <=> InFlight(exe_op)
            BY <2>2, <3>2 DEF InFlight
        <3> QED
            BY <2>2, <3>2, <3>3, NoOpFacts DEF Execute, ArchPc, fetch_vars
    <2> QED
        BY <1>1, <2>1, <2>2
<1> QED
    BY <1>2 DEF Execute, Goto, MachineVars

LEMMA DecodeStutters == ASSUME IndInv, Decode PROVE UNCHANGED MachineVars
<1>1. ArchPc' = ArchPc
    <2>1. CASE UNCHANGED <<id_op, exe_op>>
        BY <2>1 DEF Decode, ArchPc, fetch_vars
    <2>2. CASE exe_op' = Decoded(id_op) /\ id_op' = NoOp /\ ~DecodeBlocked
        <3>1. exe_op = NoOp /\ InFlight(id_op) /\ id_op \in MicroOps /\ id_regs \in [Regs -> Word]
            BY <2>2, IndTypes, OpTypes DEF DecodeBlocked, OpsInv, InFlight, TypeOK
        <3>2. PICK v1, v2, v3 : exe_op' = [id_op EXCEPT !.rs1 = v1, !.rs2 = v2,
                                                        !.rd_write_value = v3]
            BY <2>2, <3>1 DEF Decoded
        <3>3. /\ exe_op'.pc = id_op.pc /\ exe_op'.placeholder = id_op.placeholder
              /\ "inst" \in DOMAIN exe_op' /\ "inst" \notin DOMAIN NoOp
            BY <3>1, <3>2 DEF MicroOps, NoOp
        <3>4. InFlight(exe_op')
            BY <3>1, <3>3 DEF InFlight
        <3> QED
            BY <2>2, <3>1, <3>3, <3>4, NoOpFacts DEF Decode, ArchPc
    <2> QED
        BY <2>1, <2>2 DEF Decode
<1> QED
    BY <1>1 DEF Decode, Goto, MachineVars

LEMMA FetchStutters == ASSUME IndInv, Fetch PROVE UNCHANGED MachineVars
<1>1. FetchEffect /\ stage = "if" /\ UNCHANGED <<mem_op, wb_op>>
    BY FetchEffectHolds DEF Fetch, Enter
<1>2. /\ InFlight(exe_op') <=> InFlight(exe_op)
      /\ InFlight(exe_op) => exe_op' = exe_op
    <2>1. CASE id_load_use_stall
        <3>1. exe_op = NoOp /\ exe_op' = PlaceholderNop
            BY <1>1, <2>1, IndTypes DEF StallInv, Fetch
        <3> QED
            BY <3>1, NoOpFacts, PlaceholderType DEF InFlight
    <2>2. CASE ~id_load_use_stall
        BY <2>2 DEF Fetch
    <2> QED
        BY <2>1, <2>2
<1>3. ArchPc' = ArchPc
    BY <1>1, <1>2, NoOpFacts DEF FetchEffect, ArchPc
<1> QED
    BY <1>3 DEF Fetch, Goto, MachineVars

(* WB has nothing, or the placeholder of a load-use stall. *)
LEMMA EmptyWriteBackStutters ==
    ASSUME IndInv, RefInv, WriteBack, ~InFlight(wb_op)
    PROVE  UNCHANGED MachineVars
<1>1. wb_op # NoOp => wb_op.placeholder /\ wb_op.inst = Nop
    BY IndTypes DEF InFlight, OpsInv, WellFormed
<1>2. ~Writeback(wb_op)
    BY <1>1, NoOpFacts DEF Writeback
<1>3. wb_op # NoOp => data = retired_data
    <2>1. wb_op # NoOp => wb_op.inst.op \notin StoreInsts /\ ~mem_transaction.done
        BY <1>1, IndTypes DEF Nop, StoreInsts, RefInv, DataInv, MemInv
    <2> QED
        BY <2>1 DEF RefInv, DataInv
<1>4. wb_op # NoOp => wb_op.inst.op # "Ecall"
    BY <1>1 DEF Nop
<1>5. halt' = halt
    <2>1. halt \in BOOLEAN /\ halt' = (halt \/ FALSE)
        BY <1>4, IndTypes DEF WriteBack, TypeOK
    <2> QED
        BY <2>1
<1>6. ArchPc' = ArchPc
    BY NoOpFacts DEF WriteBack, ArchPc, fetch_vars
<1> QED
    BY <1>2, <1>3, <1>5, <1>6 DEF WriteBack, Goto, MachineVars

-----------------------------------------------------------------------------
(* WB of an instruction is a step of the machine. *)

Retires == IndInv /\ RefInv /\ WriteBack /\ InFlight(wb_op)

LEMMA RetiresFacts ==
    ASSUME Retires
    PROVE  /\ wb_op # NoOp /\ wb_op \in MicroOps /\ ~wb_op.placeholder /\ wb_op.pc \in Word
           /\ wb_op.inst \in Instructions
           /\ ArchPc = wb_op.pc /\ ArchPc' = ActualNext(wb_op)
           /\ Machine!Current = wb_op.inst
           /\ halt = FALSE /\ program' = program
           /\ id_regs \in [Regs -> Word] /\ retired_data \in [Word -> Byte]
           /\ Computed(wb_op)
           /\ ReadsRs1(wb_op.inst) => wb_op.rs1 = id_regs[wb_op.inst.rs1] /\ wb_op.rs1 \in Word
           /\ ReadsRs2(wb_op.inst) => wb_op.rs2 = id_regs[wb_op.inst.rs2] /\ wb_op.rs2 \in Word
           /\ wb_op.inst.op \notin StoreInsts => data = retired_data
           /\ wb_op.inst.op \in StoreInsts => data = Stored(wb_op, retired_data)
<1> USE DEF Retires, RefInv
<1>1. wb_op # NoOp /\ wb_op \in MicroOps /\ ~wb_op.placeholder /\ wb_op.pc \in Word
    BY IndTypes DEF InFlight, OpsInv, WellFormed
<1>2. wb_op.inst \in Instructions
    BY <1>1 DEF MicroOps
<1>3. ArchPc = wb_op.pc
    BY ArchPcIs
<1>4. ArchPc' = ActualNext(wb_op)
    <2>1. ArchPc' = PcAfterWb
        BY NoOpFacts DEF WriteBack, ArchPc, PcAfterWb, PcAfterMem, PcAfterExe, fetch_vars
    <2> QED
        BY <2>1 DEF StreamInv
<1>5. Machine!Current = wb_op.inst
    <2>1. Machine!Current = InstAt(program, ArchPc)
        BY SameNotions DEF Machine!Current
    <2> QED
        BY <2>1, <1>3 DEF PathInv, OfProgram
<1>6. halt = FALSE /\ program' = program
    BY IndTypes DEF HaltInv, WriteBack, Enter, Goto, TypeOK
<1>7. id_regs \in [Regs -> Word] /\ retired_data \in [Word -> Byte]
    BY IndTypes DEF TypeOK
<1>8. /\ Computed(wb_op)
      /\ ReadsRs1(wb_op.inst) => wb_op.rs1 = id_regs[wb_op.inst.rs1] /\ wb_op.rs1 \in Word
      /\ ReadsRs2(wb_op.inst) => wb_op.rs2 = id_regs[wb_op.inst.rs2] /\ wb_op.rs2 \in Word
    BY <1>1 DEF ValueInv, Computed, OperandsRead
<1>9. /\ wb_op.inst.op \notin StoreInsts => data = retired_data
      /\ wb_op.inst.op \in StoreInsts => data = Stored(wb_op, retired_data)
    <2>1. ~mem_transaction.done
        BY <1>1, IndTypes DEF MemInv, DataInv
    <2> QED
        BY <1>1, <2>1 DEF DataInv
<1> QED
    BY <1>1, <1>2, <1>3, <1>4, <1>5, <1>6, <1>7, <1>8, <1>9

(* What WB does to the machine's variables. *)
LEMMA RetiresEffect ==
    ASSUME Retires
    PROVE  /\ retired_data' = data
           /\ wb_op.inst.op # "Ecall" => halt' = halt
           /\ wb_op.inst.op = "Ecall" => halt' = (id_regs[A0] = 0)
           /\ ~WritesRd(wb_op.inst) => id_regs' = id_regs
           /\ WritesRd(wb_op.inst) /\ wb_op.rd_write_value \in Word =>
                Machine!SetReg(wb_op.inst.rd, wb_op.rd_write_value)
<1>1. /\ wb_op # NoOp /\ ~wb_op.placeholder /\ halt = FALSE
      /\ WriteBack
    BY RetiresFacts DEF Retires
<1>2. retired_data' = data
    BY <1>1 DEF WriteBack
<1>3. halt' = (FALSE \/ (wb_op.inst.op = "Ecall" /\ id_regs[A0] = 0))
    BY <1>1 DEF WriteBack
<1>4. /\ wb_op.inst.op # "Ecall" => halt' = halt
      /\ wb_op.inst.op = "Ecall" => halt' = (id_regs[A0] = 0)
    BY <1>1, <1>3
<1>5. ~WritesRd(wb_op.inst) => id_regs' = id_regs
    BY <1>1 DEF WriteBack, Writeback
<1>6. ASSUME WritesRd(wb_op.inst), wb_op.rd_write_value \in Word
      PROVE  Machine!SetReg(wb_op.inst.rd, wb_op.rd_write_value)
    <2>1. Writeback(wb_op)
        BY <1>1, <1>6, NoValueFacts DEF Writeback
    <2> QED
        BY <1>1, <2>1 DEF WriteBack, Machine!SetReg
<1> QED
    BY <1>2, <1>4, <1>5, <1>6

LEMMA RetiresCompute ==
    ASSUME Retires, wb_op.inst.op \in OpInsts \cup OpImmInsts \cup UpperInsts
    PROVE  Machine!Compute
<1> DEFINE i == wb_op.inst
           a == Op1(wb_op)
           b == Op2(wb_op)
           r == AluResult(AluOpType(i), a, b)
<1>1. /\ i \in Instructions /\ i.imm \in Word
      /\ Machine!Current = i /\ ArchPc = wb_op.pc /\ wb_op.pc \in Word /\ Computed(wb_op)
    BY RetiresFacts DEF Instructions
<1>2. i.op \notin ControlFlow \cup LoadInsts \cup StoreInsts \cup {"Ecall"}
    BY DEF OpInsts, OpImmInsts, UpperInsts, ControlFlow, BranchInsts, LoadInsts, StoreInsts
<1>3. a \in Word /\ a = Machine!Operand1
    <2>1. CASE i.op \in UpperInsts
        BY <1>1, <2>1, WordFacts DEF Op1, Machine!Operand1, UpperInsts, BranchInsts
    <2>2. CASE i.op \in OpInsts \cup OpImmInsts
        <3>1. ReadsRs1(i) /\ a = wb_op.rs1
            BY <2>2 DEF ReadsRs1, Op1, BranchInsts, OpInsts, OpImmInsts
        <3>2. i.op # "Auipc" /\ i.op # "Lui"
            BY <2>2 DEF OpInsts, OpImmInsts
        <3> QED
            BY <1>1, <3>1, <3>2, RetiresFacts DEF Machine!Operand1
    <2> QED
        BY <2>1, <2>2
<1>4. b \in Word /\ b = Machine!Operand2
    <2>1. CASE i.op \in OpInsts
        BY <1>1, <2>1, RetiresFacts, SameNotions DEF Op2, Machine!Operand2, ReadsRs2
    <2>2. CASE i.op \notin OpInsts
        BY <1>1, <2>2, SameNotions DEF Op2, Machine!Operand2
    <2> QED
        BY <2>1, <2>2
<1>5. wb_op.rd_write_value = r
    BY <1>1, <1>2 DEF Computed
<1>6. r \in Word /\ Machine!Computes(i.op, a, b, r)
    <2>1. AluOpType(i) \in OpInsts
        BY DEF AluOpType, OpInsts
    <2> HIDE DEF a, b
    <2> QED
        BY <1>1, <1>3, <1>4, <2>1, AluResultIsWord, AluComputes
<1>7. WritesRd(i)
    BY DEF WritesRd
<1>8. Machine!SetReg(i.rd, r) /\ halt' = halt /\ retired_data' = retired_data
    BY <1>2, <1>5, <1>6, <1>7, RetiresEffect, RetiresFacts
<1>9. ArchPc' = NextPc(ArchPc)
    BY <1>1, <1>2, RetiresFacts DEF ActualNext
<1> HIDE DEF r, a, b
<1> QED
    BY <1>1, <1>3, <1>4, <1>6, <1>8, <1>9, SameNotions DEF Machine!Compute

(* What goes to memory has the address the machine computes. *)
LEMMA RetiresAddress ==
    ASSUME Retires, wb_op.inst.op \in LoadInsts \cup StoreInsts
    PROVE  /\ Machine!Address = wb_op.alu_result /\ wb_op.alu_result \in Word
           /\ Aligned(wb_op.inst, wb_op.alu_result)
           /\ AccessLen(wb_op.inst) \in {1, 2, 4}
           /\ ArchPc' = NextPc(ArchPc)
<1> DEFINE i == wb_op.inst
<1>1. /\ i \in Instructions /\ wb_op \in MicroOps /\ Machine!Current = i /\ Computed(wb_op)
      /\ ArchPc = wb_op.pc
    BY RetiresFacts
<1>2. /\ ReadsRs1(i) /\ i.op \notin ControlFlow \cup OpInsts \cup {"Ecall"}
      /\ AluOpType(i) = "Add" /\ Op1(wb_op) = wb_op.rs1 /\ Op2(wb_op) = i.imm
    BY DEF ReadsRs1, AluOpType, Op1, Op2, LoadInsts, StoreInsts, OpInsts, ControlFlow, BranchInsts
<1>3. wb_op.alu_result = ToWord(wb_op.rs1 + i.imm)
    BY <1>1, <1>2 DEF Computed, AluResult
<1>4. Machine!Address = wb_op.alu_result
    BY <1>1, <1>2, <1>3, RetiresFacts, SameNotions DEF Machine!Address
<1>5. wb_op.alu_result \in Word
    BY <1>1 DEF MicroOps
<1>6. Aligned(i, wb_op.alu_result)
    BY DEF Retires, RefInv, ValueInv, AccessesMemory
<1>7. AccessLen(i) \in {1, 2, 4}
    BY DEF AccessLen, LoadInsts, StoreInsts
<1>8. ArchPc' = NextPc(ArchPc)
    BY <1>1, <1>2, RetiresFacts DEF ActualNext
<1> QED
    BY <1>4, <1>5, <1>6, <1>7, <1>8

LEMMA RetiresLoad ==
    ASSUME Retires, wb_op.inst.op \in LoadInsts
    PROVE  Machine!LoadWord
<1> DEFINE i == wb_op.inst
           addr == wb_op.alu_result
           bytes == LoadBytes(wb_op)
           len == AccessLen(i)
           r == LoadedValue(i, bytes)
<1>1. /\ i \in Instructions /\ Machine!Current = i
      /\ Machine!Address = addr /\ addr \in Word /\ Aligned(i, addr) /\ len \in {1, 2, 4}
      /\ ArchPc' = NextPc(ArchPc)
    BY RetiresFacts, RetiresAddress
<1>2. data = retired_data /\ retired_data \in [Word -> Byte]
    BY RetiresFacts DEF LoadInsts, StoreInsts
<1>3. bytes \in ByteStrings(i) /\ \A k \in 1 .. len : bytes[k] = retired_data[addr + k - 1]
    <2>1. \A k \in 1 .. len : addr + k - 1 \in Word
        BY <1>1, AlignedFits
    <2> QED
        BY <1>2, <2>1 DEF LoadBytes, ByteStrings
<1>4. wb_op.rd_write_value = r
    BY DEF Retires, RefInv, ValueInv, IsLoad
<1> HIDE DEF bytes
<1>5. r \in Word
    BY <1>1, <1>3, LoadedValueIsWord
<1>6. Machine!Loads(i.op, len, addr, r)
    <2> DEFINE top == ByteBits * len - 1
               memBit(k) == Bit(retired_data[addr + k \div ByteBits], k % ByteBits)
               byteBit(k) == Bit(bytes[k \div ByteBits + 1], k % ByteBits)
    <2>1. ASSUME NEW k \in 0 .. top
          PROVE  memBit(k) = byteBit(k)
        <3> DEFINE q == k \div ByteBits
        <3>1. q \in 0 .. (len - 1)
            <4>1. ByteBits \in Nat \ {0} /\ len \in Nat \ {0} /\ k \in 0 .. (ByteBits * len - 1)
                BY <1>1, WordBitsType
            <4>2. k \in Int
                BY <4>1
            <4> HIDE DEF len, top
            <4> QED
                BY <4>1, <4>2, QuotientRange
        <3> HIDE DEF q
        <3>2. bytes[q + 1] = retired_data[addr + q]
            <4>1. q + 1 \in 1 .. len /\ addr + (q + 1) - 1 = addr + q
                BY <1>1, <3>1, WordFacts
            <4> QED
                BY <1>3, <4>1
        <3> QED
            BY <3>2 DEF q
    <2>2. top >= 0 /\ top \in Int /\ BitIndices = 0 .. (WordBits - 1)
        BY <1>1, WordBitsType DEF BitIndices
    <2>3. ASSUME NEW k \in BitIndices
          PROVE  Bit(r, k) = IF k <= top THEN memBit(k)
                             ELSE IF i.op \in {"Lb", "Lh"} THEN memBit(top) ELSE 0
        <3>1. Bit(r, k) = IF k <= top THEN byteBit(k)
                          ELSE IF i.op \in {"Lb", "Lh"} THEN byteBit(top) ELSE 0
            BY <1>1, <1>3, LoadedBits
        <3>2. k \in Nat
            BY WordBitsType DEF BitIndices
        <3>3. (k <= top => memBit(k) = byteBit(k)) /\ memBit(top) = byteBit(top)
            <4> HIDE DEF memBit, byteBit, top
            <4> QED
                BY <2>1, <2>2, <3>2
        <3> QED
            BY <3>1, <3>3
    <2> HIDE DEF r
    <2> QED
        BY <2>2, <2>3, SameNotions DEF Machine!Loads
<1>7. WritesRd(i) /\ i.op # "Ecall"
    BY DEF WritesRd, LoadInsts
<1>8. Machine!SetReg(i.rd, r) /\ halt' = halt /\ retired_data' = retired_data
    BY <1>2, <1>4, <1>5, <1>7, RetiresEffect
<1> HIDE DEF r
<1> QED
    BY <1>1, <1>5, <1>6, <1>8, SameNotions DEF Machine!LoadWord

LEMMA RetiresStore ==
    ASSUME Retires, wb_op.inst.op \in StoreInsts
    PROVE  Machine!StoreWord
<1> DEFINE i == wb_op.inst
           addr == wb_op.alu_result
           len == AccessLen(i)
<1>1. /\ i \in Instructions /\ Machine!Current = i
      /\ Machine!Address = addr /\ addr \in Word /\ Aligned(i, addr) /\ len \in {1, 2, 4}
      /\ ArchPc' = NextPc(ArchPc)
    BY RetiresFacts, RetiresAddress
<1>2. /\ ReadsRs2(i) /\ ~WritesRd(i) /\ i.op # "Ecall"
    BY DEF ReadsRs2, WritesRd, StoreInsts, OpInsts, OpImmInsts, LoadInsts, UpperInsts
<1>3. wb_op.rs2 = id_regs[i.rs2] /\ retired_data \in [Word -> Byte]
    BY <1>2, RetiresFacts
<1>4. halt' = halt /\ id_regs' = id_regs /\ retired_data' = Stored(wb_op, retired_data)
    BY <1>2, RetiresEffect, RetiresFacts
<1>5. ASSUME NEW a \in Word, a \in addr .. (addr + len - 1)
      PROVE  StoreBytes(i, wb_op.rs2)[a - addr + 1]
               = (id_regs[i.rs2] \div 2 ^ (ByteBits * (a - addr))) % 2 ^ ByteBits
    <2>1. a \in Int /\ addr \in Int /\ len \in Int
        <3>1. a \in Int
            BY NoValueFacts
        <3>2. addr \in Int
            BY <1>1, NoValueFacts
        <3>3. len \in Int
            <4> HIDE DEF len
            <4> QED
                BY <1>1
        <3> QED
            BY <3>1, <3>2, <3>3
    <2>2. /\ a - addr + 1 \in 1 .. len
          /\ (a - addr + 1) - 1 = a - addr
        <3>1. addr <= a /\ a <= addr + len - 1
            BY <1>5, <2>1
        <3> HIDE DEF addr, len
        <3> QED
            BY <2>1, <3>1
    <2> QED
        BY <1>3, <2>2 DEF StoreBytes
<1>6. Stored(wb_op, retired_data) =
        [a \in DOMAIN retired_data |->
           IF a \in addr .. (addr + len - 1)
           THEN (id_regs[i.rs2] \div 2 ^ (ByteBits * (a - addr))) % 2 ^ ByteBits
           ELSE retired_data[a]]
    BY <1>3, <1>5 DEF Stored
<1> QED
    BY <1>1, <1>4, <1>6, SameNotions DEF Machine!StoreWord

LEMMA RetiresBranch ==
    ASSUME Retires, wb_op.inst.op \in BranchInsts
    PROVE  Machine!Branch
<1> DEFINE i == wb_op.inst
           x == id_regs[i.rs1]
           y == id_regs[i.rs2]
<1>1. /\ i \in Instructions /\ Machine!Current = i /\ Computed(wb_op)
      /\ ArchPc = wb_op.pc /\ ArchPc' = ActualNext(wb_op)
    BY RetiresFacts
<1>2. /\ ReadsRs1(i) /\ ReadsRs2(i) /\ ~WritesRd(i) /\ i.op # "Ecall" /\ i.op \in ControlFlow
      /\ i.op \notin StoreInsts \cup OpInsts \cup {"Jal", "Jalr"}
      /\ AluOpType(i) = "Add" /\ Op1(wb_op) = wb_op.pc /\ Op2(wb_op) = i.imm
    BY DEF ReadsRs1, ReadsRs2, WritesRd, AluOpType, Op1, Op2, LoadInsts, StoreInsts, OpInsts,
           OpImmInsts, UpperInsts, ControlFlow, BranchInsts
<1>3. wb_op.rs1 = x /\ wb_op.rs2 = y /\ x \in Word /\ y \in Word
    BY <1>2, RetiresFacts
<1>4. wb_op.alu_result = ToWord(ArchPc + i.imm)
    BY <1>1, <1>2 DEF Computed, AluResult
<1>5. BranchTaken(i, x, y) <=> Machine!Taken(i.op, x, y)
    <2>1. x \in Int /\ y \in Int /\ Signed(x) \in Int /\ Signed(y) \in Int
        BY <1>3, NoValueFacts, SignedType
    <2> DEFINE eq == x = y
               lt == Signed(x) < Signed(y)
               ltu == x < y
               ge == Signed(x) >= Signed(y)
               geu == x >= y
    <2>2. (ge <=> ~lt) /\ (geu <=> ~ltu)
        <3> HIDE DEF x, y
        <3> QED
            BY <2>1
    <2>3. BranchTaken(i, x, y) = CASE i.op \in {"Jal", "Jalr"} -> TRUE
                                   [] i.op = "Beq" -> eq
                                   [] i.op = "Bne" -> ~eq
                                   [] i.op = "Blt" -> lt
                                   [] i.op = "Bge" -> ge
                                   [] i.op = "Bltu" -> ltu
                                   [] i.op = "Bgeu" -> geu
        BY Zenon DEF BranchTaken
    <2>4. Machine!Taken(i.op, x, y) <=> \/ i.op = "Beq" /\ eq
                                        \/ i.op = "Bne" /\ ~eq
                                        \/ i.op = "Blt" /\ lt
                                        \/ i.op = "Bge" /\ ~lt
                                        \/ i.op = "Bltu" /\ ltu
                                        \/ i.op = "Bgeu" /\ ~ltu
        BY SameNotions DEF Machine!Taken
    <2>5. eq \in BOOLEAN /\ lt \in BOOLEAN /\ ltu \in BOOLEAN /\ ge \in BOOLEAN /\ geu \in BOOLEAN
        OBVIOUS
    <2> HIDE DEF eq, lt, ltu, ge, geu, x, y
    <2> QED
        BY <1>2, <2>2, <2>3, <2>4, <2>5 DEF BranchInsts
<1>6. UNCHANGED <<id_regs, retired_data, halt>>
    BY <1>2, RetiresEffect, RetiresFacts
<1>7. ArchPc' = IF Machine!Taken(i.op, x, y) THEN ToWord(ArchPc + i.imm) ELSE NextPc(ArchPc)
    BY <1>1, <1>2, <1>3, <1>4, <1>5 DEF ActualNext
<1> QED
    BY <1>1, <1>6, <1>7, SameNotions DEF Machine!Branch

LEMMA RetiresJump ==
    ASSUME Retires, wb_op.inst.op \in {"Jal", "Jalr"}
    PROVE  Machine!Jump
<1> DEFINE i == wb_op.inst
<1>1. /\ i \in Instructions /\ Machine!Current = i /\ Computed(wb_op)
      /\ ArchPc = wb_op.pc /\ ArchPc' = ActualNext(wb_op) /\ wb_op.pc \in Word
    BY RetiresFacts
<1>2. /\ WritesRd(i) /\ i.op # "Ecall" /\ i.op \in ControlFlow
      /\ i.op \notin StoreInsts \cup OpInsts
      /\ i.op = "Jalr" => ReadsRs1(i)
      /\ AluOpType(i) = "Add" /\ Op2(wb_op) = i.imm
      /\ Op1(wb_op) = IF i.op = "Jal" THEN wb_op.pc ELSE wb_op.rs1
    BY DEF ReadsRs1, WritesRd, AluOpType, Op1, Op2, StoreInsts, OpInsts, ControlFlow, BranchInsts
<1>3. BranchTaken(i, wb_op.rs1, wb_op.rs2)
    BY DEF BranchTaken
<1>4. ArchPc' = ToWord(i.imm + IF i.op = "Jal" THEN ArchPc ELSE id_regs[i.rs1])
    <2> DEFINE a == IF i.op = "Jal" THEN ArchPc ELSE id_regs[i.rs1]
    <2>1. Op1(wb_op) = a /\ a \in Int /\ i.imm \in Int
        BY <1>1, <1>2, RetiresFacts, NoValueFacts DEF Instructions
    <2>2. wb_op.alu_result = ToWord(Op1(wb_op) + i.imm)
        BY <1>1, <1>2 DEF Computed, AluResult
    <2> HIDE DEF a
    <2>3. a + i.imm = i.imm + a
        BY <2>1
    <2>4. ArchPc' = ToWord(i.imm + a)
        BY <1>1, <1>2, <1>3, <2>1, <2>2, <2>3 DEF ActualNext
    <2> QED
        BY <2>4 DEF a
<1>5. wb_op.rd_write_value = NextPc(ArchPc) /\ wb_op.rd_write_value \in Word
    <2>1. wb_op.rd_write_value = NextPc(ArchPc)
        BY <1>1 DEF Computed
    <2> QED
        BY <1>1, <2>1, NextPcType, NoValueFacts
<1>6. Machine!SetReg(i.rd, NextPc(ArchPc)) /\ UNCHANGED <<retired_data, halt>>
    BY <1>2, <1>5, RetiresEffect, RetiresFacts
<1> QED
    BY <1>1, <1>4, <1>6, SameNotions DEF Machine!Jump

LEMMA RetiresEcall ==
    ASSUME Retires, wb_op.inst.op = "Ecall"
    PROVE  Machine!Ecall
<1>1. Machine!Current = wb_op.inst /\ ArchPc = wb_op.pc /\ ArchPc' = ActualNext(wb_op)
    BY RetiresFacts
<1>2. /\ ~WritesRd(wb_op.inst) /\ wb_op.inst.op \notin ControlFlow \cup StoreInsts
    BY DEF WritesRd, StoreInsts, OpInsts, OpImmInsts, LoadInsts, UpperInsts, ControlFlow,
           BranchInsts
<1>3. ArchPc' = NextPc(ArchPc)
    BY <1>1, <1>2 DEF ActualNext
<1>4. halt' = (id_regs[A0] = 0) /\ UNCHANGED <<id_regs, retired_data>>
    BY <1>2, RetiresEffect, RetiresFacts
<1> QED
    BY <1>1, <1>3, <1>4, SameNotions DEF Machine!Ecall

LEMMA RetiresIsNext == ASSUME Retires PROVE Machine!Next
<1>1. halt = FALSE /\ program' = program /\ wb_op.inst \in Instructions
    BY RetiresFacts
<1>2. wb_op.inst.op \notin {"Fence", "Illegal"}
    BY DEF Retires, RefInv, PathInv, OfProgram
<1>3. wb_op.inst.op \in OpInsts \cup OpImmInsts \cup UpperInsts \cup LoadInsts \cup StoreInsts
                        \cup BranchInsts \cup {"Jal", "Jalr", "Ecall"}
    BY <1>1, <1>2 DEF Instructions, InstNames, ControlFlow
<1>4. \/ Machine!Compute \/ Machine!LoadWord \/ Machine!StoreWord
      \/ Machine!Branch \/ Machine!Jump \/ Machine!Ecall
    BY <1>3, RetiresCompute, RetiresLoad, RetiresStore, RetiresBranch, RetiresJump, RetiresEcall
<1> QED
    BY <1>1, <1>4 DEF Machine!Next

LEMMA InitIsMachineInit == ASSUME Init PROVE Machine!Init
<1>1. PICK setup \in Setups : program = setup.program /\ data = setup.data
    BY DEF Init
<1>2. program \in Seq(Instructions) /\ retired_data \in [Word -> Byte]
    BY <1>1, PipelineAssumption DEF Init
<1>3. ArchPc = 0
    BY NoOpFacts DEF Init, ArchPc
<1> QED
    BY <1>2, <1>3, SameNotions DEF Init, Machine!Init

LEMMA NextIsMachineNext ==
    ASSUME IndInv, RefInv, [Next]_vars
    PROVE  [Machine!Next]_(Machine!vars)
<1>0. UNCHANGED MachineVars => UNCHANGED Machine!vars
    BY DEF MachineVars, Machine!vars
<1>1. CASE Recover BY <1>0, <1>1, RecoverStutters
<1>2. CASE Forward BY <1>0, <1>2, ForwardStutters
<1>3. CASE WriteBack
    BY <1>0, <1>3, EmptyWriteBackStutters, RetiresIsNext DEF Retires
<1>4. CASE MemoryAccess BY <1>0, <1>4, MemoryAccessStutters
<1>5. CASE Execute BY <1>0, <1>5, ExecuteStutters
<1>6. CASE Decode BY <1>0, <1>6, DecodeStutters
<1>7. CASE Fetch BY <1>0, <1>7, FetchStutters
<1>8. CASE TickCaches
    <2>1. ArchPc' = ArchPc
        BY <1>8 DEF TickCaches, ArchPc, ops
    <2> QED
        BY <1>0, <1>8, <2>1 DEF TickCaches, Goto, MachineVars
<1>9. CASE Panic
    <2>1. ArchPc' = ArchPc
        BY <1>9 DEF Panic, ArchPc, ops, fetch_vars
    <2> QED
        BY <1>0, <1>9, <2>1 DEF Panic, MachineVars
<1>10. CASE UNCHANGED vars
    <2>1. ArchPc' = ArchPc
        BY <1>10 DEF vars, ArchPc, ops, fetch_vars
    <2> QED
        BY <1>0, <1>10, <2>1 DEF vars, MachineVars
<1> QED
    BY <1>1, <1>2, <1>3, <1>4, <1>5, <1>6, <1>7, <1>8, <1>9, <1>10 DEF Next, Step, Terminated

(* The pipeline implements the machine that executes one instruction after   *)
(* the other: forwarding, stalls, speculation, the caches and their answers  *)
(* out of step never show in registers, memory, pc or the halt flag, for     *)
(* every program, every size of a byte and all latencies.                    *)
THEOREM PipelineImplementsISA == Spec => ImplementsISA
<1>1. Init => Machine!Init
    BY InitIsMachineInit
<1>2. IndInv /\ RefInv /\ [Next]_vars => [Machine!Next]_(Machine!vars)
    BY NextIsMachineNext
<1> QED
    BY <1>1, <1>2, PipelineInvariantHolds, StreamInvariant, PTL
    DEF Spec, ImplementsISA, Machine!Spec
=============================================================================
