------------------------------- MODULE RvIsa -------------------------------
(***************************************************************************)
(* What software is promised: one instruction at a time, in the order the  *)
(* program counter gives, each seeing the effects of all earlier ones.     *)
(* No pipeline, no control signals: every opcode class states its own      *)
(* effect on the registers, the data memory and the program counter.       *)
(*                                                                         *)
(* Reset is part of the promise.  It may strike between any two            *)
(* instructions; registers are undefined until the first clock edge in     *)
(* reset zeroes them, and of the data memory at most the latest store is   *)
(* lost: "undo" holds what that store overwrote until the store commits.   *)
(***************************************************************************)
EXTENDS RvTypes

VARIABLES
  up,     \* out of reset
  prog,   \* the program, fixed
  regs,   \* the register file
  mem,    \* the data memory
  undo,   \* the word under a store that a reset can still cancel
  pc      \* address of the next instruction

NoUndo == [addr |-> -1, val |-> 0]

UndoType == {NoUndo} \cup [addr : DAddr, val : Word]

ZeroRegs == [r \in Reg |-> 0]

(***************************************************************************)
(* The effect of instruction i at address p.                               *)
(***************************************************************************)
EffAddr(i) == Add(regs[i.rs1], i.imm)

Result(i, p) ==
  CASE i.op = "R"     -> AluOut(2, <<i.b30, i.f3>>, regs[i.rs1], regs[i.rs2])
    [] i.op = "I"     -> AluOut(0, <<i.b30, i.f3>>, regs[i.rs1], i.imm)
    [] i.op = "LOAD"  -> mem[DmemIdx(EffAddr(i))]
    [] i.op = "LUI"   -> i.imm
    [] i.op = "AUIPC" -> Add(p, i.imm)
    [] OTHER          -> Add(p, 4)        \* the link of JAL and JALR

WritesRd(i) == i.op \notin {"S", "B"} /\ i.rd # 0

Redirects(i) ==
  \/ i.op \in {"J", "JALR"}
  \/ i.op = "B" /\ BranchTaken(i.f3, regs[i.rs1], regs[i.rs2])

Target(i, p) ==
  IF i.op = "JALR" THEN ClearBit0(EffAddr(i)) ELSE Add(p, i.imm)

Exec(i, p) ==
  /\ regs' = IF WritesRd(i) THEN [regs EXCEPT ![i.rd] = Result(i, p)] ELSE regs
  /\ IF i.op = "S"
       THEN LET a == DmemIdx(EffAddr(i)) IN
            /\ mem'  = [mem EXCEPT ![a] = regs[i.rs2]]
            /\ undo' = [addr |-> a, val |-> mem[a]]
       ELSE mem' = mem /\ undo' = NoUndo

(***************************************************************************)
(* The machine.                                                            *)
(***************************************************************************)
Init ==
  /\ up = FALSE
  /\ prog \in [IAddr -> Instr]
  /\ regs \in [Reg -> Word]
  /\ mem \in [DAddr -> Word]
  /\ undo = NoUndo
  /\ pc = 0

Execute ==
  LET i == prog[ImemIdx(pc)] IN
  /\ up
  /\ Exec(i, pc)
  /\ pc' = IF Redirects(i) THEN Target(i, pc) ELSE Add(pc, 4)
  /\ UNCHANGED <<up, prog>>

(* The latest store reaches the memory and can no longer be lost.          *)
CommitStore ==
  /\ up
  /\ undo' = NoUndo
  /\ UNCHANGED <<up, prog, regs, mem, pc>>

CancelStore ==
  /\ mem' = IF undo = NoUndo THEN mem ELSE [mem EXCEPT ![undo.addr] = undo.val]
  /\ undo' = NoUndo

AssertReset ==
  /\ up
  /\ up' = FALSE
  /\ regs' \in [Reg -> Word]
  /\ pc' = 0
  /\ CancelStore
  /\ UNCHANGED prog

HoldReset ==
  /\ ~up
  /\ regs' = ZeroRegs
  /\ UNCHANGED <<up, prog, mem, undo, pc>>

ReleaseReset ==
  /\ ~up
  /\ regs = ZeroRegs
  /\ up' = TRUE
  /\ UNCHANGED <<prog, regs, mem, undo, pc>>

Next == Execute \/ CommitStore \/ AssertReset \/ HoldReset \/ ReleaseReset

vars == <<up, prog, regs, mem, undo, pc>>

Spec == Init /\ [][Next]_vars

=============================================================================
