------------------------------- MODULE RvMemu ------------------------------
(***************************************************************************)
(* Memory and write-back (rv_memu, sram, rv_wbu): the data SRAM, its       *)
(* registered output mwb_dout, which reset does not clear, and the MEM/WB  *)
(* registers.                                                              *)
(***************************************************************************)
EXTENDS RvTypes

VARIABLES dmem, mwb_dout, mwb

memu_vars == <<dmem, mwb_dout, mwb>>

MwbType ==
  [aluout : Word, rd : Reg, regwrite : BOOLEAN, memtoreg : BOOLEAN]

MwbZero == [aluout |-> 0, rd |-> 0, regwrite |-> FALSE, memtoreg |-> FALSE]

(* rv_wbu                                                                  *)
WriteData == IF mwb.memtoreg THEN mwb_dout ELSE mwb.aluout

MemuTypeOK ==
  /\ dmem \in [DAddr -> Word]
  /\ mwb_dout \in Word
  /\ mwb \in MwbType

MemuInit ==
  /\ dmem \in [DAddr -> PowerUpWord]
  /\ mwb_dout \in PowerUpWord
  /\ mwb = MwbZero

(* The SRAM behind EX/MEM: the two always_ff blocks of sram with cs = 1.   *)
DmemClock(exm) ==
  /\ dmem' = IF exm.memwrite
               THEN [dmem EXCEPT ![DmemIdx(exm.aluout)] = exm.muxb]
               ELSE dmem
  /\ mwb_dout' = IF ~exm.memwrite /\ exm.memread
                   THEN dmem[DmemIdx(exm.aluout)] ELSE 0

MemuClock(exm) ==
  /\ DmemClock(exm)
  /\ mwb' = [aluout |-> exm.aluout, rd |-> exm.rd,
             regwrite |-> exm.regwrite, memtoreg |-> exm.memtoreg]

(* The SRAM has no reset: in reset it sees the cleared EX/MEM registers.   *)
MemuClockInReset(exm) ==
  /\ DmemClock(exm)
  /\ UNCHANGED mwb

MemuAssertReset ==
  /\ mwb' = MwbZero
  /\ UNCHANGED <<dmem, mwb_dout>>

=============================================================================
