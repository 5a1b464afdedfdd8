--------------------------------- MODULE ISA ---------------------------------
(* What the pipeline promises to the program it runs: the RV32IM machine     *)
(* that executes one instruction per step, in program order, on registers    *)
(* and memory.  The arithmetic is stated by what its result satisfies        *)
(* (products, quotients, single bits), apart from the operators the pipeline *)
(* computes with.  An instruction the simulator rejects (an illegal word, a  *)
(* fence, a misaligned access) has no step.                                  *)
EXTENDS Instruction

VARIABLES program,  \* the instructions from the initial pc on
          pc,       \* the next instruction to execute
          regs,     \* the register file
          mem,      \* data memory, by byte address
          halted    \* an ecall found 0 in a0

vars == <<program, pc, regs, mem, halted>>

BitOf(x, k) == (x \div 2 ^ k) % 2

Magnitude(n) == IF n < 0 THEN -n ELSE n

(* q and r are quotient and remainder of m by n # 0, cut towards zero. *)
IsDivision(m, n, q, r) ==
    /\ m = q * n + r
    /\ Magnitude(r) < Magnitude(n)
    /\ r = 0 \/ (r < 0) = (m < 0)

Least == -(2 ^ (WordBits - 1))

(* The word r is what the instruction name computes from the words a and b. *)
Computes(name, a, b, r) ==
    LET bits == 0 .. (WordBits - 1)
        sh == b % WordBits
        sa == Signed(a)
        sb == Signed(b)
        width == 2 ^ WordBits
    IN  \/ name \in {"Add", "Addi", "Lui", "Auipc"} /\ (r - a - b) % width = 0
        \/ name = "Sub" /\ (r - a + b) % width = 0
        \/ name \in {"Sll", "Slli"}
           /\ \A k \in bits : BitOf(r, k) = IF k >= sh THEN BitOf(a, k - sh) ELSE 0
        \/ name \in {"Srl", "Srli"}
           /\ \A k \in bits : BitOf(r, k) = IF k + sh \in bits THEN BitOf(a, k + sh) ELSE 0
        \/ name \in {"Sra", "Srai"}
           /\ \A k \in bits : BitOf(r, k) = IF k + sh \in bits THEN BitOf(a, k + sh)
                                            ELSE BitOf(a, WordBits - 1)
        \/ name \in {"Slt", "Slti"} /\ r = IF sa < sb THEN 1 ELSE 0
        \/ name \in {"Sltu", "Sltiu"} /\ r = IF a < b THEN 1 ELSE 0
        \/ name \in {"Xor", "Xori"}
           /\ \A k \in bits : BitOf(r, k) = (BitOf(a, k) + BitOf(b, k)) % 2
        \/ name \in {"Or", "Ori"}
           /\ \A k \in bits : BitOf(r, k) = 1 <=> BitOf(a, k) + BitOf(b, k) >= 1
        \/ name \in {"And", "Andi"}
           /\ \A k \in bits : BitOf(r, k) = BitOf(a, k) * BitOf(b, k)
        \/ name = "Mul" /\ (r - sa * sb) % width = 0
        \/ name = "Mulh" /\ sa * sb - Signed(r) * width \in Word
        \/ name = "Mulhu" /\ a * b - r * width \in Word
        \/ name = "Mulhsu" /\ sa * b - Signed(r) * width \in Word
        \/ name = "Divu" /\ b # 0 /\ a - r * b \in 0 .. (b - 1)
        \/ name = "Remu" /\ b # 0 /\ r < b /\ (a - r) % b = 0
        \/ name \in {"Div", "Divu"} /\ b = 0 /\ Signed(r) = -1
        \/ name \in {"Rem", "Remu"} /\ b = 0 /\ r = a
        \/ name = "Div" /\ b # 0
           /\ \/ sa = Least /\ sb = -1 /\ Signed(r) = Least
              \/ ~ (sa = Least /\ sb = -1)
                 /\ IsDivision(sa, sb, Signed(r), sa - Signed(r) * sb)
        \/ name = "Rem" /\ b # 0
           /\ \E q \in Least .. -Least : IsDivision(sa, sb, q, Signed(r))

Taken(name, a, b) ==
    \/ name = "Beq" /\ a = b
    \/ name = "Bne" /\ a # b
    \/ name = "Blt" /\ Signed(a) < Signed(b)
    \/ name = "Bge" /\ ~ (Signed(a) < Signed(b))
    \/ name = "Bltu" /\ a < b
    \/ name = "Bgeu" /\ ~ (a < b)

(* The word r is what a load named name makes of the bytes at addr: the bits *)
(* of the bytes from low to high address, then copies of the last bit where  *)
(* the load extends the sign, else zeros.                                    *)
Loads(name, len, addr, r) ==
    LET top == ByteBits * len - 1
        memBit(k) == BitOf(mem[addr + k \div ByteBits], k % ByteBits)
    IN  \A k \in 0 .. (WordBits - 1) :
            BitOf(r, k) = IF k <= top THEN memBit(k)
                          ELSE IF name \in {"Lb", "Lh"} THEN memBit(top) ELSE 0

(* x0 is never written. *)
SetReg(rd, value) == regs' = IF rd = 0 THEN regs ELSE [regs EXCEPT ![rd] = value]

Current == InstAt(program, pc)

Operand1 == IF Current.op = "Auipc" THEN pc ELSE IF Current.op = "Lui" THEN 0
            ELSE regs[Current.rs1]

Operand2 == IF Current.op \in OpInsts THEN regs[Current.rs2] ELSE Current.imm

Compute ==
    /\ Current.op \in OpInsts \cup OpImmInsts \cup UpperInsts
    /\ \E r \in Word : Computes(Current.op, Operand1, Operand2, r) /\ SetReg(Current.rd, r)
    /\ pc' = NextPc(pc)
    /\ UNCHANGED <<mem, halted>>

Address == ToWord(regs[Current.rs1] + Current.imm)

LoadWord ==
    /\ Current.op \in LoadInsts
    /\ Aligned(Current, Address)
    /\ \E r \in Word :
         Loads(Current.op, AccessLen(Current), Address, r) /\ SetReg(Current.rd, r)
    /\ pc' = NextPc(pc)
    /\ UNCHANGED <<mem, halted>>

StoreWord ==
    /\ Current.op \in StoreInsts
    /\ Aligned(Current, Address)
    /\ mem' = [a \in DOMAIN mem |->
                 IF a \in Address .. (Address + AccessLen(Current) - 1)
                 THEN (regs[Current.rs2] \div 2 ^ (ByteBits * (a - Address))) % 2 ^ ByteBits
                 ELSE mem[a]]
    /\ pc' = NextPc(pc)
    /\ UNCHANGED <<regs, halted>>

Branch ==
    /\ Current.op \in BranchInsts
    /\ pc' = IF Taken(Current.op, regs[Current.rs1], regs[Current.rs2])
             THEN ToWord(pc + Current.imm) ELSE NextPc(pc)
    /\ UNCHANGED <<regs, mem, halted>>

Jump ==
    /\ Current.op \in {"Jal", "Jalr"}
    /\ pc' = ToWord(Current.imm + IF Current.op = "Jal" THEN pc ELSE regs[Current.rs1])
    /\ SetReg(Current.rd, NextPc(pc))
    /\ UNCHANGED <<mem, halted>>

Ecall ==
    /\ Current.op = "Ecall"
    /\ halted' = (regs[A0] = 0)
    /\ pc' = NextPc(pc)
    /\ UNCHANGED <<regs, mem>>

Init ==
    /\ program \in Seq(Instructions)
    /\ pc = 0
    /\ regs = [r \in Regs |-> 0]
    /\ mem \in [Word -> Byte]
    /\ halted = FALSE

Next ==
    /\ ~halted
    /\ Compute \/ LoadWord \/ StoreWord \/ Branch \/ Jump \/ Ecall
    /\ UNCHANGED program

Spec == Init /\ [][Next]_vars
=============================================================================
