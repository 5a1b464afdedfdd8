--------------------------------- MODULE Alu ---------------------------------
(* The arithmetic of the EXE and MEM stages: execute.rs and the conversions  *)
(* between registers and memory bytes of uop.rs and memory_access.rs.        *)
EXTENDS Instruction

Bit(x, k) == (x \div 2 ^ k) % 2

BitIndices == 0 .. (WordBits - 1)

(* The word whose set bits are the members of ks. *)
FromBits(ks) == CHOOSE x \in Word : \A k \in BitIndices : Bit(x, k) = 1 <=> k \in ks

Abs(n) == IF n < 0 THEN -n ELSE n

(* Rust's signed / and %: the quotient is cut towards zero and the remainder *)
(* has the sign of the dividend.                                             *)
Quot(m, n) == IF (m < 0) = (n < 0) THEN Abs(m) \div Abs(n) ELSE -(Abs(m) \div Abs(n))

RemOf(m, n) == IF m < 0 THEN -(Abs(m) % Abs(n)) ELSE Abs(m) % Abs(n)

(* op2 & 0x1f *)
Shift(op2) == op2 % WordBits

AllOnes == 2 ^ WordBits - 1

(* alu_op_type of decode.rs; what is not an arithmetic instruction adds. *)
AluOpType(i) ==
    CASE i.op \in OpInsts -> i.op
      [] i.op = "Slti" -> "Slt"
      [] i.op = "Sltiu" -> "Sltu"
      [] i.op = "Xori" -> "Xor"
      [] i.op = "Ori" -> "Or"
      [] i.op = "Andi" -> "And"
      [] i.op = "Slli" -> "Sll"
      [] i.op = "Srli" -> "Srl"
      [] i.op = "Srai" -> "Sra"
      [] OTHER -> "Add"

AluResult(type, op1, op2) ==
    LET s1 == Signed(op1)
        s2 == Signed(op2)
    IN  CASE type = "Add" -> ToWord(op1 + op2)
          [] type = "Sub" -> ToWord(op1 - op2)
          [] type = "Sll" -> ToWord(op1 * 2 ^ Shift(op2))
          [] type = "Slt" -> IF s1 < s2 THEN 1 ELSE 0
          [] type = "Sltu" -> IF op1 < op2 THEN 1 ELSE 0
          [] type = "Xor" -> FromBits({k \in BitIndices : Bit(op1, k) # Bit(op2, k)})
          [] type = "Srl" -> op1 \div 2 ^ Shift(op2)
          [] type = "Sra" -> ToWord(s1 \div 2 ^ Shift(op2))
          [] type = "Or" -> FromBits({k \in BitIndices : Bit(op1, k) = 1 \/ Bit(op2, k) = 1})
          [] type = "And" -> FromBits({k \in BitIndices : Bit(op1, k) = 1 /\ Bit(op2, k) = 1})
          [] type = "Mul" -> ToWord(s1 * s2)
          [] type = "Mulh" -> ToWord((s1 * s2) \div 2 ^ WordBits)
          [] type = "Mulhu" -> ToWord((op1 * op2) \div 2 ^ WordBits)
          [] type = "Mulhsu" -> ToWord((s1 * op2) \div 2 ^ WordBits)
          [] type = "Div" -> IF op2 # 0 THEN ToWord(Quot(s1, s2)) ELSE AllOnes
          [] type = "Divu" -> IF op2 # 0 THEN op1 \div op2 ELSE AllOnes
          [] type = "Rem" -> IF op2 # 0 THEN ToWord(RemOf(s1, s2)) ELSE op1
          [] type = "Remu" -> IF op2 # 0 THEN op1 % op2 ELSE op1

BranchTaken(i, rs1, rs2) ==
    CASE i.op \in {"Jal", "Jalr"} -> TRUE
      [] i.op = "Beq" -> rs1 = rs2
      [] i.op = "Bne" -> rs1 # rs2
      [] i.op = "Blt" -> Signed(rs1) < Signed(rs2)
      [] i.op = "Bge" -> Signed(rs1) >= Signed(rs2)
      [] i.op = "Bltu" -> rs1 < rs2
      [] i.op = "Bgeu" -> rs1 >= rs2

MUL_STALL == 8
DIV_REM_STALL == 32

(* m_extension_stall, NoValue for None. *)
MExtensionStall(i) ==
    CASE i.op \in {"Mul", "Mulh", "Mulhu", "Mulhsu"} -> MUL_STALL
      [] i.op \in {"Div", "Divu", "Rem", "Remu"} -> DIV_REM_STALL
      [] OTHER -> NoValue

(* MemoryAccess::loaded_value: little-endian bytes, extended to a word. *)
LoadedValue(i, bytes) ==
    LET len == Len(bytes)
        part(k) == IF k <= len THEN bytes[k] * 2 ^ (ByteBits * (k - 1)) ELSE 0
        value == part(1) + part(2) + part(3) + part(4)
        bits == ByteBits * len
    IN  IF i.op \in {"Lb", "Lh"} /\ value >= 2 ^ (bits - 1)
        THEN value + 2 ^ WordBits - 2 ^ bits
        ELSE value

(* Defect: the bytes are shifted down but not cut off. *)
StoreBytesUncut(i, value) ==
    [k \in 1 .. AccessLen(i) |-> value \div 2 ^ (ByteBits * (k - 1))]

(* value.to_le_bytes()[..len] *)
StoreBytes(i, value) ==
    [k \in 1 .. AccessLen(i) |-> (value \div 2 ^ (ByteBits * (k - 1))) % 2 ^ ByteBits]
=============================================================================
