------------------------------ MODULE RvTypes ------------------------------
(***************************************************************************)
(* Words, registers, instructions and the parameters shared by the         *)
(* architectural machine (RvIsa, RvErrata) and the pipeline (RvCpu and its *)
(* stages).                                                                *)
(*                                                                         *)
(* An instruction word is abstracted to the fields the datapath extracts   *)
(* from it: the opcode class, the raw rd, rs1 and rs2 fields (present in   *)
(* every word, whatever its format), funct3, bit 30 and the immediate that *)
(* rv_immgen decodes.  The ALU and the branch comparator are parameters,   *)
(* so what is said about the pipeline holds for any of them; RvAlu gives   *)
(* the ones of the code.                                                   *)
(***************************************************************************)
EXTENDS Integers

CONSTANTS
  WordMod,              \* 2^DW
  NumRegs,              \* 32 in the code
  ImemDepth,            \* IMEM_DEPTH, in words
  DmemDepth,            \* DMEM_DEPTH, in words
  Instr,                \* the instruction words a program is made of
  Programs,             \* the contents the harness may load into imem
  PowerUpWord,          \* what an unreset flop or SRAM may hold at power-up,
  PowerUpInstr,         \*   and the output of the instruction SRAM
  ResetEdges,           \* clock edges the harness holds reset for (5)
  MaxResets,            \* bound: resets after the first one
  AluOut(_, _, _, _),   \* alu_op, {bit 30, funct3}, in1, in2 -> out
  BranchTaken(_, _, _)  \* funct3, in1, in2 -> branch_taken

Word  == 0 .. WordMod - 1
Reg   == 0 .. NumRegs - 1
IAddr == 0 .. ImemDepth - 1
DAddr == 0 .. DmemDepth - 1

Ops == {"R", "I", "LOAD", "JALR", "S", "B", "J", "LUI", "AUIPC", "NONE"}

AluControl == (0 .. 1) \X (0 .. 7)

InstrType == [op : Ops, rd : Reg, rs1 : Reg, rs2 : Reg,
              f3 : 0 .. 7, b30 : 0 .. 1, imm : Word]

(* The all-zero word a flushed IF/ID register holds: no opcode of the      *)
(* decoder, so all its control signals are 0, and immediate 0.             *)
FlushWord == [op |-> "NONE", rd |-> 0, rs1 |-> 0, rs2 |-> 0,
              f3 |-> 0, b30 |-> 0, imm |-> 0]

(* DW-bit addition, and the subtraction that undoes it.                    *)
Add(x, y) == IF x + y < WordMod THEN x + y ELSE x + y - WordMod
Sub(x, y) == IF x >= y THEN x - y ELSE x + WordMod - y

(* {alu_out[DW-1:1], 1'b0}                                                 *)
ClearBit0(x) == x - (x % 2)

(* Byte address to word index, truncated to the bits of the index.         *)
ImemIdx(addr) == (addr \div 4) % ImemDepth
DmemIdx(addr) == (addr \div 4) % DmemDepth

ASSUME SizesAssumption ==
  /\ WordMod \in Nat /\ WordMod > 8 /\ WordMod % 2 = 0
  /\ NumRegs \in Nat \ {0}
  /\ ImemDepth \in Nat \ {0}
  /\ DmemDepth \in Nat \ {0}
  /\ ResetEdges \in Nat /\ ResetEdges >= 2
  /\ MaxResets \in Nat
  /\ PowerUpWord \subseteq Word

(* Programs are made of instructions the decoder knows.                    *)
ASSUME ProgramsAssumption ==
  /\ Instr \subseteq InstrType
  /\ \A i \in Instr : i.op # "NONE"
  /\ PowerUpInstr \subseteq Instr
  /\ Programs \subseteq [IAddr -> Instr]

(* The ALU yields words, and adds when alu_op is 2'b11 (addresses).        *)
ASSUME AluAssumption ==
  /\ \A op \in 0 .. 3, c \in AluControl, x, y \in Word :
       AluOut(op, c, x, y) \in Word
  /\ \A c \in AluControl, x, y \in Word : AluOut(3, c, x, y) = Add(x, y)
  /\ \A f3 \in 0 .. 7, x, y \in Word : BranchTaken(f3, x, y) \in BOOLEAN

=============================================================================
