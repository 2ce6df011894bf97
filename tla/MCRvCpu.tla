------------------------------ MODULE MCRvCpu ------------------------------
(***************************************************************************)
(* A three-register machine with 5-bit words, an instruction memory of     *)
(* eight words (the PC wraps at its end) and a data memory of two words.   *)
(***************************************************************************)
EXTENDS RvCpu, Sequences, FiniteSets

Alu == INSTANCE RvAlu WITH DW <- 5, ShiftBits <- 6

MCAluOut(alu_op, control, in1, in2) == Alu!AluOutput(alu_op, control, in1, in2)
MCBranchTaken(funct3, in1, in2) == Alu!Taken(funct3, in1, in2)

(* Instruction words; the register fields a format does not use hold bits  *)
(* of the immediate.                                                       *)
Word32(op, rd, rs1, rs2, f3, b30, imm) ==
  [op |-> op, rd |-> rd, rs1 |-> rs1, rs2 |-> rs2, f3 |-> f3, b30 |-> b30,
   imm |-> imm]

NOP       == Word32("I", 0, 0, 0, 0, 0, 0)
ADDI_1_1  == Word32("I", 1, 1, 2, 0, 0, 3)        \* addi x1, x1, 3
ADDI_2_0  == Word32("I", 2, 0, 1, 0, 0, 5)        \* addi x2, x0, 5
SUB_2_1_2 == Word32("R", 2, 1, 2, 0, 1, 0)        \* sub  x2, x1, x2
LW_1_2    == Word32("LOAD", 1, 2, 0, 2, 0, 0)     \* lw   x1, 0(x2)
LW_2_2    == Word32("LOAD", 2, 2, 0, 2, 0, 4)     \* lw   x2, 4(x2)
LW_0_1    == Word32("LOAD", 0, 1, 0, 2, 0, 0)     \* lw   x0, 0(x1)
SW_1_2    == Word32("S", 0, 2, 1, 2, 0, 0)        \* sw   x1, 0(x2)
SW_2_0    == Word32("S", 1, 0, 2, 2, 0, 4)        \* sw   x2, 4(x0)
BEQ_8     == Word32("B", 0, 1, 2, 0, 0, 8)        \* beq  x1, x2, +8
BLT_M4    == Word32("B", 1, 1, 2, 4, 1, 28)       \* blt  x1, x2, -4
JAL_1     == Word32("J", 1, 0, 2, 0, 0, 8)        \* jal  x1, +8
JALR_2    == Word32("JALR", 2, 1, 1, 0, 0, 9)     \* jalr x2, 9(x1)
LUI_1     == Word32("LUI", 1, 2, 1, 3, 0, 16)     \* lui  x1
AUIPC_2   == Word32("AUIPC", 2, 1, 1, 7, 1, 8)    \* auipc x2

Menu == {NOP, ADDI_1_1, SUB_2_1_2, LW_1_2, LW_2_2, LW_0_1, SW_1_2, SW_2_0,
         BEQ_8, BLT_M4, JAL_1, JALR_2, LUI_1, AUIPC_2, ADDI_2_0}

(* A sequence of instructions followed by NOPs.                            *)
Load(s) == [a \in IAddr |-> IF a < Len(s) THEN s[a + 1] ELSE NOP]

(* Every program of three instructions of the menu.                        *)
ThreeInstr == {Load(s) : s \in [1 .. 3 -> Menu]}

(* A NOP at address 0, then three instructions that stay clear of the      *)
(* load-use erratum.                                                       *)
CleanPrograms ==
  {p \in {Load(<<NOP>> \o s) : s \in [1 .. 3 -> Menu]} : AvoidsErrata(p)}

(* A load and its use, from a NOP at address 0 on.                         *)
LoadUseProgram == {Load(<<NOP, LW_1_2, ADDI_1_1, ADDI_2_0, SW_1_2>>)}

(* Address 0 holds an instruction that is not idempotent.                  *)
BootProgram == {Load(<<ADDI_1_1>>)}

Junk == {SW_1_2, LW_0_1}

=============================================================================
