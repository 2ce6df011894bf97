------------------------------- MODULE RvIfu -------------------------------
(***************************************************************************)
(* Instruction fetch (rv_ifu): the PC, the instruction SRAM with its       *)
(* registered output, and the IF/ID registers.                             *)
(*                                                                         *)
(* pc_r and the IF/ID registers can be held (pc_write, ifid_write);        *)
(* pc_prev and the SRAM output imem_out have neither enable nor reset and  *)
(* move at every clock edge.                                               *)
(***************************************************************************)
EXTENDS RvTypes

VARIABLES
  imem,       \* u_imem.memory, loaded by the harness, never written
  pc_r,
  pc_prev,
  imem_out,
  pc_src_d1,
  ifid_pc,
  ifid_i

ifu_vars == <<imem, pc_r, pc_prev, imem_out, pc_src_d1, ifid_pc, ifid_i>>

IfuTypeOK ==
  /\ imem \in [IAddr -> Instr]
  /\ pc_r \in Word /\ pc_prev \in Word /\ ifid_pc \in Word
  /\ imem_out \in Instr
  /\ pc_src_d1 \in BOOLEAN
  /\ ifid_i \in Instr \cup {FlushWord}

(* The resettable registers in reset.                                      *)
IfuInReset ==
  pc_r = 0 /\ pc_src_d1 = FALSE /\ ifid_pc = 0 /\ ifid_i = FlushWord

IfuInit ==
  /\ imem \in Programs
  /\ pc_prev \in PowerUpWord
  /\ imem_out \in PowerUpInstr
  /\ IfuInReset

(* One clock edge out of reset.                                            *)
IfuClock(pc_write, ifid_write, pc_src, pc_branch_target) ==
  LET pc_out == IF pc_src THEN pc_prev ELSE pc_r IN
  /\ pc_prev' = pc_r
  /\ pc_r' = IF ~pc_write THEN pc_r
             ELSE IF pc_src THEN pc_branch_target ELSE Add(pc_r, 4)
  /\ imem_out' = imem[ImemIdx(pc_out)]
  /\ pc_src_d1' = pc_src
  /\ ifid_pc' = IF ifid_write THEN pc_prev ELSE ifid_pc
  /\ ifid_i' = IF pc_src \/ pc_src_d1 THEN FlushWord
               ELSE IF ifid_write THEN imem_out ELSE ifid_i
  /\ UNCHANGED imem

(* One clock edge in reset: only the unreset registers move.               *)
IfuClockInReset ==
  /\ pc_prev' = pc_r
  /\ imem_out' = imem[ImemIdx(pc_r)]
  /\ UNCHANGED <<imem, pc_r, pc_src_d1, ifid_pc, ifid_i>>

(* rst_n falls: the resettable registers clear at once.                    *)
IfuAssertReset ==
  /\ pc_r' = 0 /\ pc_src_d1' = FALSE /\ ifid_pc' = 0 /\ ifid_i' = FlushWord
  /\ UNCHANGED <<imem, pc_prev, imem_out>>

=============================================================================
