----------------------------- MODULE Instruction -----------------------------
(* The instructions of riscv/instruction.rs as the pipeline tells them apart *)
(* after Instruction::raw_binary_to_inst: a record of the variant and of the *)
(* fields the format types extract.  A machine word has four bytes of        *)
(* ByteBits bits each.  Program addresses are counted in instructions, so    *)
(* the code's pc + 4 is pc + 1 here; data addresses are counted in bytes.    *)
EXTENDS Integers, Sequences, FiniteSets

CONSTANTS ByteBits,   \* bits of a byte
          RegBits,    \* bits of a register number
          A0          \* the register an ecall looks at, x10

ASSUME InstructionAssumption ==
    /\ ByteBits \in Nat \ {0}
    /\ RegBits \in Nat \ {0}
    /\ A0 \in 1 .. (2 ^ RegBits - 1)

WordBits == 4 * ByteBits

(* Two laws of exponentiation, which the provers lack. *)
ASSUME PowerAssumption ==
    /\ \A n \in 0 .. WordBits : 2 ^ n \in Nat \ {0}
    /\ \A m, n \in 0 .. WordBits : m + n <= WordBits => 2 ^ (m + n) = 2 ^ m * 2 ^ n

Word == 0 .. (2 ^ WordBits - 1)
Byte == 0 .. (2 ^ ByteBits - 1)
Regs == 0 .. (2 ^ RegBits - 1)

(* Nothing where the code has an Option of a number that is None. *)
NoValue == -1

(* The word as an i32, and a number cast to u32. *)
Signed(x) == IF x >= 2 ^ (WordBits - 1) THEN x - 2 ^ WordBits ELSE x

ToWord(n) == n % 2 ^ WordBits

(* The variants of the enum, by the opcode groups of OpcodeMap. *)
OpInsts == {"Add", "Sub", "Sll", "Slt", "Sltu", "Xor", "Srl", "Sra", "Or", "And",
            "Mul", "Mulh", "Mulhsu", "Mulhu", "Div", "Divu", "Rem", "Remu"}
OpImmInsts == {"Addi", "Slti", "Sltiu", "Xori", "Ori", "Andi", "Slli", "Srli", "Srai"}
LoadInsts == {"Lb", "Lh", "Lw", "Lbu", "Lhu"}
StoreInsts == {"Sb", "Sh", "Sw"}
BranchInsts == {"Beq", "Bne", "Blt", "Bge", "Bltu", "Bgeu"}
UpperInsts == {"Lui", "Auipc"}
ControlFlow == BranchInsts \cup {"Jal", "Jalr"}

InstNames == OpInsts \cup OpImmInsts \cup LoadInsts \cup StoreInsts \cup ControlFlow
             \cup UpperInsts \cup {"Ecall", "Fence", "Illegal"}

Instructions == [op : InstNames, rd : Regs, rs1 : Regs, rs2 : Regs, imm : Word]

Nop == [op |-> "Addi", rd |-> 0, rs1 |-> 0, rs2 |-> 0, imm |-> 0]

(* Which of its register fields an instruction uses, as decode does. *)
ReadsRs1(i) == i.op \in OpInsts \cup OpImmInsts \cup LoadInsts \cup StoreInsts
                        \cup BranchInsts \cup {"Jalr"}
ReadsRs2(i) == i.op \in OpInsts \cup StoreInsts \cup BranchInsts
WritesRd(i) == i.op \in OpInsts \cup OpImmInsts \cup LoadInsts \cup UpperInsts
                        \cup {"Jal", "Jalr"}

(* Bits 20 to 24 of the encoded word: rs2 where the format has one, the low  *)
(* bits of the immediate in the I format.                                    *)
RawRs2(i) == IF ReadsRs2(i) THEN i.rs2 ELSE i.imm % 2 ^ RegBits

(* MemoryAccessWidth::len of an access; 0 for what does not go to memory. *)
AccessLen(i) ==
    CASE i.op \in {"Lb", "Lbu", "Sb"} -> 1
      [] i.op \in {"Lh", "Lhu", "Sh"} -> 2
      [] i.op \in {"Lw", "Sw"} -> 4
      [] OTHER -> 0

Aligned(i, addr) == addr % AccessLen(i) = 0

(* The word at pc.  A program is the sequence of its words from the initial  *)
(* pc on, and nops follow it, as in the image of tests/simulation_runner.rs. *)
(* The image that elf.rs loads is zero behind the program, and a zero word   *)
(* is an illegal instruction: a program that ends in one models it.          *)
InstAt(program, pc) == IF pc < Len(program) THEN program[pc + 1] ELSE Nop

NextPc(pc) == ToWord(pc + 1)
=============================================================================
