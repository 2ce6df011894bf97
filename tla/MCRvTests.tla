----------------------------- MODULE MCRvTests -----------------------------
(***************************************************************************)
(* The directed tests of tb/cpu, on words of 7 bits (their values modulo   *)
(* 128) and an instruction memory of 32 words.  The harness fills the rest *)
(* of its memory with NOPs and samples after a fixed number of cycles;     *)
(* here the last word jumps to itself, so that a program that runs off its *)
(* end stops there.                                                        *)
(***************************************************************************)
EXTENDS RvCpu, Sequences, FiniteSets

Alu == INSTANCE RvAlu WITH DW <- 7, ShiftBits <- 6

MCAluOut(alu_op, control, in1, in2) == Alu!AluOutput(alu_op, control, in1, in2)
MCBranchTaken(funct3, in1, in2) == Alu!Taken(funct3, in1, in2)

(* Assembler: fields a format does not use hold immediate bits.            *)
Enc(op, rd, rs1, rs2, f3, b30, imm) ==
  [op |-> op, rd |-> rd, rs1 |-> rs1, rs2 |-> rs2, f3 |-> f3, b30 |-> b30,
   imm |-> imm % 128]

OpImm(f3, rd, rs1, imm)   == Enc("I", rd, rs1, imm % 32, f3, 0, imm)
Addi(rd, rs1, imm)        == OpImm(0, rd, rs1, imm)
Srai(rd, rs1, sh)         == Enc("I", rd, rs1, sh, 5, 1, sh)
OpReg(f3, rd, rs1, rs2)   == Enc("R", rd, rs1, rs2, f3, 0, 0)
AddR(rd, rs1, rs2)        == OpReg(0, rd, rs1, rs2)
SubR(rd, rs1, rs2)        == Enc("R", rd, rs1, rs2, 0, 1, 0)
Lw(rd, rs1, imm)          == Enc("LOAD", rd, rs1, imm % 32, 2, 0, imm)
Sw(rs2, rs1, imm)         == Enc("S", imm % 32, rs1, rs2, 2, 0, imm)
Br(f3, rs1, rs2, imm)     == Enc("B", imm % 32, rs1, rs2, f3, 0, imm)
Jal(rd, imm)              == Enc("J", rd, 0, imm % 32, 0, 0, imm)
Jalr(rd, rs1, imm)        == Enc("JALR", rd, rs1, imm % 32, 0, 0, imm)
Lui(rd, imm20)            == Enc("LUI", rd, 0, 0, 1, 0, 4096 * imm20)
Auipc(rd, imm20)          == Enc("AUIPC", rd, 0, 0, 0, 0, 4096 * imm20)

Nop  == Addi(0, 0, 0)
Park == Jal(0, 0)

Image(s) == [a \in IAddr |-> IF a < Len(s) THEN s[a + 1]
                             ELSE IF a = ImemDepth - 1 THEN Park ELSE Nop]

Arithmetic == Image(
  <<Addi(1, 0, 5), Addi(2, 0, 6), Addi(3, 1, 7), AddR(4, 1, 2), SubR(4, 4, 2),
    OpReg(4, 5, 1, 2), OpImm(4, 6, 1, 3), OpReg(2, 7, 1, 2), Addi(8, 0, 1),
    Addi(9, 0, -1), OpReg(3, 10, 8, 9)>>)

MemHazard == Image(
  <<Addi(1, 0, 5), Addi(2, 0, 6), Addi(3, 1, 7), AddR(1, 1, 2),
    OpReg(7, 1, 1, 3), OpReg(6, 1, 1, 4)>>)

Memory == Image(
  <<Addi(1, 0, 5), Addi(2, 0, 6), AddR(4, 1, 2), Sw(4, 2, 0), Lw(2, 2, 0)>>)

Shift == Image(
  <<Addi(1, 0, 3), OpImm(1, 1, 1, 2), OpImm(5, 2, 1, 2), Addi(3, 0, -42),
    Srai(4, 3, 2), OpReg(1, 5, 1, 2), OpReg(5, 6, 1, 2)>>)

Branch == Image(
  <<Addi(1, 0, 8), Addi(2, 0, 8), Br(0, 1, 2, 8), Addi(4, 0, 1),
    Addi(4, 0, 11), Addi(5, 0, 5), Br(1, 1, 4, 8), Addi(5, 0, 1),
    Addi(5, 0, 28), Br(4, 1, 4, 8), Addi(6, 0, 1), Addi(6, 0, 42),
    Addi(7, 0, 7), Br(5, 4, 1, 8), Addi(7, 0, 1), Addi(7, 0, 77),
    Addi(8, 0, 1), Addi(9, 0, -1), Br(6, 8, 9, 8), Addi(10, 0, 1),
    Addi(10, 0, 100), Br(7, 9, 8, 8), Addi(11, 0, 1), Addi(11, 0, 101)>>)

BranchFlush == Image(
  <<Addi(1, 0, 5), Addi(2, 0, 5), Br(0, 1, 2, 28), Addi(3, 0, 1),
    Addi(4, 0, 11), Addi(5, 0, 22), Addi(6, 0, 6), Addi(7, 0, 7),
    Addi(8, 0, 8), Addi(10, 0, 99)>>)

(* Its _end is no halt: it falls through to func_a, which returns to       *)
(* after_call, and so on round.                                            *)
ProgControl == Image(
  <<Lui(5, 1), Auipc(6, 0), Jal(1, 32), Auipc(29, 0), Jalr(0, 29, 12),
    Addi(28, 0, 255), Sw(5, 0, 0), Sw(6, 0, 8), Sw(7, 0, 16), Nop,
    Addi(7, 0, 42), Jalr(0, 1, 0)>>)

Simple == Image(
  <<Addi(5, 0, 7), Addi(6, 0, 13), AddR(7, 5, 6), Sw(7, 0, 0), Lw(10, 0, 0),
    Sw(5, 0, 8), Lw(11, 0, 8), AddR(12, 10, 11)>>)

TestPrograms == {Arithmetic, MemHazard, Memory, Shift, Branch, BranchFlush,
                 ProgControl, Simple}
TestInstrs == UNION {{p[a] : a \in IAddr} : p \in TestPrograms}
Junk == {Nop}

(* What the tests assert of the registers and the memory words, but for    *)
(* one assertion, which the core fails: test_asm_simple.svh:36 looks for   *)
(* the 7 stored at byte 8 in memory[1], and sram.sv:15-21 puts byte 8 of a *)
(* memory of 32-bit words into memory[2], where it is looked for here (and *)
(* where test_asm_prog_control.svh:49 looks for what it stores at byte 8). *)
Checks(p) ==
  CASE p = Arithmetic ->
         X[1] = 5 /\ X[2] = 6 /\ X[3] = 12 /\ X[4] = 5 /\ X[5] = 3 /\ X[6] = 6
         /\ X[7] = 1 /\ X[10] = 1
    [] p = MemHazard -> X[1] = 8
    [] p = Memory -> dmem[1] = X[4] /\ X[2] = dmem[1] /\ X[4] = 11
    [] p = Shift ->
         X[1] = 12 /\ X[2] = 3 /\ X[4] = (-11) % 128 /\ X[5] = 96 /\ X[6] = 1
    [] p = Branch ->
         X[1] = 8 /\ X[2] = 8 /\ X[4] = 11 /\ X[5] = 28 /\ X[6] = 42
         /\ X[7] = 77 /\ X[10] = 100 /\ X[11] = 101
    [] p = BranchFlush ->
         X[1] = 5 /\ X[2] = 5 /\ X[3] = 0 /\ X[4] = 0 /\ X[5] = 0 /\ X[10] = 99
    [] p = ProgControl ->
         X[5] = 4096 % 128 /\ X[6] = 4 /\ X[7] = 42 /\ X[28] = 0 /\ X[29] = 12
         /\ dmem[0] = 4096 % 128 /\ dmem[2] = 4 /\ dmem[4] = 42
    [] p = Simple -> X[10] = 20 /\ X[11] = 7 /\ X[12] = 27 /\ dmem[0] = 20
                     /\ dmem[2] = 7

(* Every directed test comes to the registers and memory words it asserts  *)
(* and stays there, whenever the harness restarts it: mem_hazard is the    *)
(* forwarding test, branch_flush and prog_control the redirect tests.      *)
(* Left out is ASSERT_EQ(memory[1], 7) of test_asm_simple.svh:36, which    *)
(* fails: the word is in memory[2].                                        *)
DirectedTestsPass == \A p \in TestPrograms : imem = p => <>[]Checks(p)

=============================================================================
