------------------------------- MODULE RvAlu -------------------------------
(***************************************************************************)
(* The ALU (rv_alu), its control (rv_alu_ctrl) and the branch comparator   *)
(* of rv_exu, on words of DW bits.                                         *)
(***************************************************************************)
EXTENDS Integers, Sequences

CONSTANTS
  DW,         \* width of a word
  ShiftBits   \* bits of in2 that a shift reads: 6 ([5:0]) in the code

ASSUME WidthsAssumption == DW \in Nat \ {0} /\ ShiftBits \in Nat \ {0}

(* The powers of two, and the bits of a word.                              *)
Pow2[n \in 0 .. DW + ShiftBits] == IF n = 0 THEN 1 ELSE 2 * Pow2[n - 1]

Bits == 0 .. DW - 1
Bit(x, i) == (x \div Pow2[i]) % 2
Ones(x) == {i \in Bits : Bit(x, i) = 1}
OfOnes(S) ==
  LET upTo[n \in 0 .. DW] ==
        IF n = 0 THEN 0 ELSE upTo[n - 1] + (IF n - 1 \in S THEN Pow2[n - 1] ELSE 0)
  IN  upTo[DW]

AluWord == 0 .. Pow2[DW] - 1

Signed(x) == IF x < Pow2[DW - 1] THEN x ELSE x - Pow2[DW]

(***************************************************************************)
(* rv_alu_ctrl: the operation for alu_op and control = {bit 30, funct3}.   *)
(* "X" is the undefined operation of its last else.                        *)
(***************************************************************************)
ByFunct3 == <<"ADD", "SLL", "SLT", "SLTU", "XOR", "SRL", "OR", "AND">>

(* Faulty variant: bit 30 of an ADDI's immediate makes it a subtraction.   *)
AluCtrlSubtractsImm(alu_op, control) ==
  LET bit30 == control[1]  funct3 == control[2] IN
  CASE alu_op = 3 -> "ADD"
    [] alu_op = 1 -> "SUB"
    [] bit30 = 1 /\ funct3 = 5 -> "SRA"
    [] bit30 = 1 /\ funct3 = 0 -> "SUB"
    [] bit30 = 1 /\ funct3 \notin {0, 5} -> "X"
    [] OTHER -> ByFunct3[funct3 + 1]

AluCtrl(alu_op, control) ==
  LET bit30 == control[1]  funct3 == control[2] IN
  CASE alu_op = 3 -> "ADD"
    [] alu_op = 1 -> "SUB"
    [] alu_op \in {0, 2} /\ bit30 = 1 /\ funct3 = 5 -> "SRA"
    [] alu_op = 2 /\ bit30 = 1 /\ funct3 = 0 -> "SUB"
    [] alu_op = 2 /\ bit30 = 1 /\ funct3 \notin {0, 5} -> "X"
    [] OTHER -> ByFunct3[funct3 + 1]

(***************************************************************************)
(* rv_alu.                                                                 *)
(***************************************************************************)
(* What a shift reads of in2; DW or more shifts every bit out.             *)
Shamt(in2) == LET n == in2 % Pow2[ShiftBits] IN IF n < DW THEN n ELSE DW

AluFn(op, in1, in2) ==
  CASE op = "AND"  -> OfOnes(Ones(in1) \cap Ones(in2))
    [] op = "OR"   -> OfOnes(Ones(in1) \cup Ones(in2))
    [] op = "XOR"  -> OfOnes((Ones(in1) \ Ones(in2)) \cup (Ones(in2) \ Ones(in1)))
    [] op = "ADD"  -> (in1 + in2) % Pow2[DW]
    [] op = "SUB"  -> (in1 - in2) % Pow2[DW]
    [] op = "SLL"  -> (in1 * Pow2[Shamt(in2)]) % Pow2[DW]
    [] op = "SRL"  -> in1 \div Pow2[Shamt(in2)]
    [] op = "SRA"  -> (Signed(in1) \div Pow2[Shamt(in2)]) % Pow2[DW]
    [] op = "SLTU" -> IF in1 < in2 THEN 1 ELSE 0
    [] op = "SLT"  -> IF Signed(in1) < Signed(in2) THEN 1 ELSE 0
    [] OTHER       -> 0

AluOutput(alu_op, control, in1, in2) == AluFn(AluCtrl(alu_op, control), in1, in2)

(* Faulty variant: BGE is BGT.                                             *)
TakenIfGreater(funct3, in1, in2) ==
  CASE funct3 = 0 -> in1 = in2
    [] funct3 = 1 -> in1 # in2
    [] funct3 = 4 -> Signed(in1) < Signed(in2)
    [] funct3 = 5 -> Signed(in1) > Signed(in2)
    [] funct3 = 6 -> in1 < in2
    [] funct3 = 7 -> in1 >= in2
    [] OTHER      -> FALSE

(* The flags of rv_alu selected by funct3 in rv_exu.                       *)
Taken(funct3, in1, in2) ==
  CASE funct3 = 0 -> in1 = in2
    [] funct3 = 1 -> in1 # in2
    [] funct3 = 4 -> Signed(in1) < Signed(in2)
    [] funct3 = 5 -> Signed(in1) >= Signed(in2)
    [] funct3 = 6 -> in1 < in2
    [] funct3 = 7 -> in1 >= in2
    [] OTHER      -> FALSE

=============================================================================
