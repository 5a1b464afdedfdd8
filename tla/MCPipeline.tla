----------------------------- MODULE MCPipeline -----------------------------
(* Programs for Pipeline: registers x0 to x3, words of four one-bit bytes,   *)
(* x3 as a0.  Every program ends in Exit, which halts the simulation.        *)
EXTENDS PipelineInvariant

R(op, rd, rs1, rs2) == [op |-> op, rd |-> rd, rs1 |-> rs1, rs2 |-> rs2, imm |-> 0]
Im(op, rd, rs1, imm) == [op |-> op, rd |-> rd, rs1 |-> rs1, rs2 |-> 0, imm |-> ToWord(imm)]
St(op, rs2, rs1, imm) == [op |-> op, rd |-> 0, rs1 |-> rs1, rs2 |-> rs2, imm |-> ToWord(imm)]
Br(op, rs1, rs2, imm) == St(op, rs2, rs1, imm)
Li(rd, imm) == Im("Addi", rd, 0, imm)
Env == Im("Ecall", 0, 0, 0)
Word0 == Im("Illegal", 0, 0, 0)

Exit == <<Li(A0, 0), Env>>

(* The memory with word w at address 0, word v at address 4, zeros behind. *)
Data(w, v) == [a \in Word |-> IF a < 4 THEN Bit(w, a) ELSE IF a < 8 THEN Bit(v, a - 4) ELSE 0]

Simulate(programs, datas, predictors) ==
    [program : programs, data : datas, predictor : predictors]

(* A producer of x1, an instruction between, and a consumer of x1 and x2. *)
Producers == {Im("Lw", 1, 0, 0), Li(1, 3), Im("Jal", 1, 0, 1), Im("Lb", 1, 0, 1)}
Between == {Im("Addi", 2, 1, 1), Im("Lw", 1, 0, 4), St("Sw", 1, 0, 4), R("Mul", 2, 1, 1),
            R("Mul", 2, 2, 2), Br("Beq", 1, 2, 2), Im("Addi", 0, 1, 1), Im("Lui", 1, 0, 6)}
Consumers == {R("Add", 2, 1, 2), St("Sb", 2, 1, 0), Im("Lbu", 2, 1, 0), Br("Bne", 1, 2, 2),
              Im("Jalr", 2, 1, 0)}
Hazards == {<<p, b, c>> \o Exit : p \in Producers, b \in Between, c \in Consumers}

(* A counted loop, which trains the predictor and then surprises it at the   *)
(* exit; a function called twice, so that its return has two targets; two    *)
(* branches that share the counter; and a loop that never ends.              *)
Loops ==
    { <<Li(1, 4), Im("Addi", 1, 1, -1), Br("Bne", 1, 0, -1), Im("Auipc", 2, 0, 1)>> \o Exit,
      <<Im("Jal", 1, 0, 3), Im("Jal", 1, 0, 2), Im("Jal", 0, 0, 3),
        Im("Addi", 2, 2, 1), Im("Jalr", 0, 1, 0)>> \o Exit,
      <<Li(1, 3), Br("Blt", 2, 1, 2), Br("Bgeu", 2, 1, 3), Im("Addi", 2, 2, 1),
        Im("Jal", 0, 0, -3)>> \o Exit,
      <<Im("Addi", 1, 1, 8), Br("Bge", 1, 0, 2), Br("Bltu", 0, 1, -2), Im("Jal", 0, 0, -3)>> }

(* Every arithmetic instruction on two words of memory. *)
OnData(names) == <<Im("Lw", 1, 0, 0), Im("Lw", 2, 0, 4)>>
                 \o [k \in DOMAIN names |-> R(names[k], 3, 1, 2)] \o Exit
Arithmetic ==
    { OnData(<<"Sub", "Sll", "Slt", "Sltu", "Xor", "Srl">>),
      OnData(<<"Sra", "Or", "And", "Mul", "Mulh", "Mulhu">>),
      OnData(<<"Mulhsu", "Div", "Divu", "Rem", "Remu", "Add">>),
      <<Im("Lw", 1, 0, 0)>>
        \o <<Im("Slti", 3, 1, -2), Im("Sltiu", 3, 1, -2), Im("Xori", 3, 1, -6),
             Im("Ori", 3, 1, 5), Im("Andi", 3, 1, -3), Im("Slli", 3, 1, 1),
             Im("Srli", 3, 1, 2), Im("Srai", 3, 1, 2)>> \o Exit }

(* Bytes and half-words, with and without the sign. *)
SubWords ==
    { <<Im("Lw", 1, 0, 0), St("Sb", 1, 0, 5), Im("Lb", 2, 0, 5), St("Sh", 1, 0, 6),
        Im("Lh", 2, 0, 6), Im("Lhu", 2, 0, 6), Im("Lbu", 2, 0, 5), Im("Lw", 1, 0, 4)>> \o Exit }

(* An ecall that goes on, a store behind the last ecall, and the words the   *)
(* simulator gives up on, reached and jumped over.                           *)
Endings ==
    { <<Li(A0, 1), Env>> \o Exit \o <<St("Sb", A0, 0, 0)>>,
      <<Li(1, 1), Word0>> \o Exit,
      <<Im("Jal", 0, 0, 2), Word0>> \o Exit,
      <<Li(1, 2), Im("Lw", 2, 1, 0)>> \o Exit,
      <<Im("Fence", 0, 0, 0)>> \o Exit }

Corners == {0, 7, 8, 15}

MCSetups ==
    Simulate(Hazards, {Data(3, 9)}, {"bimodal"})
    \cup Simulate(Loops \cup Endings, {Data(3, 9)}, {"bimodal", "dummy"})
    \cup Simulate(Arithmetic \cup SubWords, {Data(w, v) : w \in Corners, v \in Corners}, {"dummy"})
=============================================================================
