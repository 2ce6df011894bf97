------------------------------ MODULE MCRvAlu ------------------------------
(***************************************************************************)
(* The combinational units against RV32I's own words.  For the ALU: the    *)
(* instruction classes that reach it, their funct3 and bit 30, and every   *)
(* pair of operands of a small word.  For the immediate generator: every   *)
(* opcode, immediates that differ from 0 or from -1 in one bit, and the    *)
(* rest of the word all 0 or all 1.  A state is one instruction presented  *)
(* to one of them; Evaluate lets the logic settle.                         *)
(***************************************************************************)
EXTENDS RvAlu, RvImmgen

(* RV32I reads log2(DW) bits of a shift amount; the code reads one more.   *)
ASSUME ShiftAssumption == DW = Pow2[ShiftBits - 1]

VARIABLES
  instr,             \* the instruction word in ID, and its immediate
  imm_out,
  alu_op,            \* 2 register-register, 0 register-immediate, 3 address
  control,           \* <<bit 30, funct3>>
  in1, in2,
  out, branch_taken,
  settled

vars == <<instr, imm_out, alu_op, control, in1, in2, out, branch_taken, settled>>

(* Where the formats of RV32I keep bit k of an immediate: the position in  *)
(* the word, or -1 for a bit that is always 0.                             *)
HomeOf(format, k) ==
  CASE format = "I" -> IF k <= 10 THEN 20 + k ELSE 31
    [] format = "S" -> IF k <= 4 THEN 7 + k ELSE IF k <= 10 THEN 20 + k ELSE 31
    [] format = "B" -> IF k = 0 THEN -1 ELSE IF k <= 4 THEN 7 + k
                       ELSE IF k <= 10 THEN 20 + k ELSE IF k = 11 THEN 7 ELSE 31
    [] format = "U" -> IF k <= 11 THEN -1 ELSE k
    [] format = "J" -> IF k = 0 THEN -1 ELSE IF k <= 10 THEN 20 + k
                       ELSE IF k = 11 THEN 20 ELSE IF k <= 19 THEN k ELSE 31
    [] OTHER -> -1

Opcodes == {<<"J", <<1,1,0,1,1,1,1>>>>, <<"I", <<1,1,0,0,1,1,1>>>>, <<"I", <<0,0,1,0,0,1,1>>>>,
            <<"I", <<0,0,0,0,0,1,1>>>>, <<"S", <<0,1,0,0,0,1,1>>>>, <<"B", <<1,1,0,0,0,1,1>>>>,
            <<"U", <<0,1,1,0,1,1,1>>>>, <<"U", <<0,0,1,0,1,1,1>>>>, <<"R", <<0,1,1,0,0,1,1>>>>}

(* The immediates of a format that are all base but for the bits that live *)
(* in position flip.                                                       *)
Immediate(format, base, flip) ==
  [k \in Positions |-> LET home == HomeOf(format, k) IN
                        IF home = -1 THEN 0 ELSE IF home = flip THEN 1 - base ELSE base]

Encoded(format, opcode, base, flip, rest) ==
  [i \in Positions |->
     IF i <= 6 THEN opcode[7 - i]
     ELSE IF \E k \in Positions : HomeOf(format, k) = i
          THEN IF i = flip THEN 1 - base ELSE base
          ELSE rest]

AllZero == [k \in Positions |-> 0]
NoInstr == [unit |-> "alu"]
Instrs == {[unit |-> "immgen", word |-> Encoded(o[1], o[2], base, flip, rest),
            imm |-> Immediate(o[1], base, flip)] :
             o \in Opcodes, base \in {0, 1}, flip \in 6 .. 31, rest \in {0, 1}}

Init ==
  /\ \/ /\ instr = NoInstr
        /\ alu_op \in {0, 2, 3}
        /\ control \in (0 .. 1) \X (0 .. 7)
        /\ in1 \in AluWord /\ in2 \in AluWord
     \/ /\ instr \in Instrs
        /\ alu_op = 0 /\ control = <<0, 0>> /\ in1 = 0 /\ in2 = 0
  /\ out = 0 /\ branch_taken = FALSE /\ imm_out = AllZero
  /\ settled = FALSE

Evaluate ==
  /\ ~settled /\ settled' = TRUE
  /\ out' = AluOutput(alu_op, control, in1, in2)
  /\ branch_taken' = Taken(control[2], in1, in2)
  /\ imm_out' = IF instr = NoInstr THEN AllZero ELSE ImmOut(instr.word)
  /\ UNCHANGED <<instr, alu_op, control, in1, in2>>

Next == Evaluate

Spec == Init /\ [][Next]_vars

(***************************************************************************)
(* The reference, bit by bit.                                              *)
(***************************************************************************)
Sign(x) == Bit(x, DW - 1)

bit30 == control[1]
funct3 == control[2]

(* SLL, SRL, SRA by the log2(DW) low bits of the second operand.           *)
ShiftedLeft(y, x, s) ==
  \A i \in Bits : Bit(y, i) = IF i >= s THEN Bit(x, i - s) ELSE 0
ShiftedRight(y, x, s, fill) ==
  \A i \in Bits : Bit(y, i) = IF i + s < DW THEN Bit(x, i + s) ELSE fill

Below(x, y) ==
  \E i \in Bits : /\ Bit(x, i) < Bit(y, i)
                  /\ \A j \in Bits : j > i => Bit(x, j) = Bit(y, j)
SignedBelow(x, y) ==
  IF Sign(x) # Sign(y) THEN Sign(x) = 1 ELSE Below(x, y)

Flag(b) == IF b THEN 1 ELSE 0

(* Bit 30 means something to SUB, SRA and SRAI only; in an immediate it is *)
(* a bit of the number, in other R instructions it is not RV32I.           *)
IsRv32i ==
  \/ alu_op = 3
  \/ alu_op = 2 /\ (bit30 = 1 => funct3 \in {0, 5})
  \/ alu_op = 0 /\ (bit30 = 1 => funct3 # 1)

Rv32iResult ==
  LET s == in2 % DW IN
  IF alu_op = 3 THEN out = (in1 + in2) % Pow2[DW]
  ELSE CASE funct3 = 0 /\ alu_op = 2 /\ bit30 = 1 -> (out + in2) % Pow2[DW] = in1
         [] funct3 = 0 /\ ~(alu_op = 2 /\ bit30 = 1) -> out = (in1 + in2) % Pow2[DW]
         [] funct3 = 1 -> ShiftedLeft(out, in1, s)
         [] funct3 = 2 -> out = Flag(SignedBelow(in1, in2))
         [] funct3 = 3 -> out = Flag(Below(in1, in2))
         [] funct3 = 4 -> \A i \in Bits : (Bit(out, i) = 1) <=> (Bit(in1, i) # Bit(in2, i))
         [] funct3 = 5 -> ShiftedRight(out, in1, s, IF bit30 = 1 THEN Sign(in1) ELSE 0)
         [] funct3 = 6 -> \A i \in Bits : Bit(out, i) = 1 <=> 1 \in {Bit(in1, i), Bit(in2, i)}
         [] OTHER      -> \A i \in Bits : Bit(out, i) = 1 <=> 0 \notin {Bit(in1, i), Bit(in2, i)}

IsShift == alu_op \in {0, 2} /\ funct3 \in {1, 5}

(* The bit of a shift amount above the ones RV32I reads is clear, as it is *)
(* in every legal shift-immediate.                                         *)
PlainShift == IsShift => Bit(in2, ShiftBits - 1) = 0

(***************************************************************************)
(* Properties.                                                             *)
(***************************************************************************)

(* Every ALU instruction computes what RV32I says, including a subtraction *)
(* of the most negative number, ADDI with bit 30 of its immediate set and  *)
(* shifts of negative numbers; register shifts by less than the word.      *)
AluAgrees == settled /\ IsRv32i /\ PlainShift => Rv32iResult

(* The six comparisons agree with comparing bit by bit; funct3 2 and 3 are *)
(* never taken.                                                            *)
BranchAgrees ==
  settled =>
    (branch_taken <=> CASE funct3 = 0 -> in1 = in2
                        [] funct3 = 1 -> in1 # in2
                        [] funct3 = 4 -> SignedBelow(in1, in2)
                        [] funct3 = 5 -> ~SignedBelow(in1, in2)
                        [] funct3 = 6 -> Below(in1, in2)
                        [] funct3 = 7 -> ~Below(in1, in2)
                        [] OTHER -> FALSE)

(* Every immediate comes out of the word its format scatters it over,      *)
(* sign-extended, whatever the other fields of the word hold.              *)
ImmediateAgrees == settled /\ instr # NoInstr => imm_out = instr.imm

=============================================================================
