------------------------------ MODULE RvErrata ------------------------------
(***************************************************************************)
(* The architecture the hardware really has.  It is RvIsa, one instruction *)
(* at a time, with one difference: the addresses of the instructions to    *)
(* come are not pc, pc+4, pc+8 ... but a queue of three slots behind pc    *)
(* that two events bend:                                                   *)
(*                                                                         *)
(*   - out of reset the queue is 0, 0, 4, 8: the instruction at address 0  *)
(*     is executed twice;                                                  *)
(*   - when a load is followed by an instruction one of whose register     *)
(*     fields equals the load's rd, the slot behind that instruction is    *)
(*     lost and the one after it is taken twice (X, X+8, X+8, X+12).       *)
(*                                                                         *)
(* A taken branch or a jump straightens the queue.  The state that RvIsa   *)
(* knows of is shared; slot1 .. slot3 are what it has in addition.         *)
(***************************************************************************)
EXTENDS RvTypes

VARIABLES up, prog, regs, mem, undo, pc, slot1, slot2, slot3

Arch == INSTANCE RvIsa

slots == <<slot1, slot2, slot3>>

Init ==
  /\ up = FALSE
  /\ prog \in [IAddr -> Instr]
  /\ regs \in [Reg -> Word]
  /\ mem \in [DAddr -> Word]
  /\ undo = Arch!NoUndo
  /\ pc \in Word
  /\ slot1 = 0 /\ slot2 = 4 /\ slot3 = 8

(* The instruction behind load i has i's destination in a register field.  *)
LoadUse(i) ==
  LET use == prog[ImemIdx(slot1)] IN
  i.op = "LOAD" /\ i.rd \in {use.rs1, use.rs2}

FetchAt(p) ==
  /\ pc' = p
  /\ slot1' = Add(p, 4)
  /\ slot2' = Add(Add(p, 4), 4)
  /\ slot3' = Add(Add(Add(p, 4), 4), 4)

Advance(lost) ==
  /\ pc' = slot1
  /\ slot1' = IF lost THEN slot3 ELSE slot2
  /\ slot2' = slot3
  /\ slot3' = Add(slot3, 4)

Execute ==
  LET i == prog[ImemIdx(pc)] IN
  /\ up
  /\ Arch!Exec(i, pc)
  /\ IF Arch!Redirects(i) THEN FetchAt(Arch!Target(i, pc)) ELSE Advance(LoadUse(i))
  /\ UNCHANGED <<up, prog>>

CommitStore ==
  /\ up
  /\ undo' = Arch!NoUndo
  /\ UNCHANGED <<up, prog, regs, mem, pc, slots>>

AssertReset ==
  /\ up
  /\ up' = FALSE
  /\ regs' \in [Reg -> Word]
  /\ pc' \in Word
  /\ slot1' = 0 /\ slot2' = 4 /\ slot3' = 8
  /\ Arch!CancelStore
  /\ UNCHANGED prog

HoldReset ==
  /\ ~up
  /\ regs' = Arch!ZeroRegs
  /\ pc' = 0
  /\ UNCHANGED <<up, prog, mem, undo, slots>>

ReleaseReset ==
  /\ ~up
  /\ regs = Arch!ZeroRegs /\ pc = 0
  /\ up' = TRUE
  /\ UNCHANGED <<prog, regs, mem, undo, pc, slots>>

Next == Execute \/ CommitStore \/ AssertReset \/ HoldReset \/ ReleaseReset

vars == <<up, prog, regs, mem, undo, pc, slots>>

Spec == Init /\ [][Next]_vars

=============================================================================
