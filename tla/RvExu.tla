------------------------------- MODULE RvExu -------------------------------
(***************************************************************************)
(* Execute (rv_exu, rv_fwdu): operand forwarding, the ALU, the redirect    *)
(* decision and the EX/MEM registers.                                      *)
(***************************************************************************)
EXTENDS RvTypes

VARIABLE exm

ExmType ==
  [aluout : Word, muxb : Word, rd : Reg, regwrite : BOOLEAN,
   memtoreg : BOOLEAN, memread : BOOLEAN, memwrite : BOOLEAN]

ExmZero ==
  [aluout |-> 0, muxb |-> 0, rd |-> 0, regwrite |-> FALSE,
   memtoreg |-> FALSE, memread |-> FALSE, memwrite |-> FALSE]

(* Faulty variant: MEM/WB first, the older of two pending values.          *)
ForwardOldest(rs, idex_val, mwb, write_data) ==
  IF mwb.regwrite /\ mwb.rd # 0 /\ mwb.rd = rs THEN write_data
  ELSE IF exm.regwrite /\ exm.rd # 0 /\ exm.rd = rs THEN exm.aluout
  ELSE idex_val

(* rv_fwdu and the operand muxes: EX/MEM first, then MEM/WB, then ID/EX.   *)
Forward(rs, idex_val, mwb, write_data) ==
  IF exm.regwrite /\ exm.rd # 0 /\ exm.rd = rs THEN exm.aluout
  ELSE IF mwb.regwrite /\ mwb.rd # 0 /\ mwb.rd = rs THEN write_data
  ELSE idex_val

AluA(idex, mwb, write_data) == Forward(idex.rs1, idex.a, mwb, write_data)
MuxB(idex, mwb, write_data) == Forward(idex.rs2, idex.b, mwb, write_data)

AluB(idex, idex_c, mwb, write_data) ==
  IF idex_c.alusrc THEN idex.imm ELSE MuxB(idex, mwb, write_data)

AluResult(idex, idex_c, mwb, write_data) ==
  AluOut(idex_c.alu_op, idex.alucontrol, AluA(idex, mwb, write_data),
         AluB(idex, idex_c, mwb, write_data))

PcSrc(idex, idex_c, mwb, write_data) ==
  \/ idex_c.branch /\ BranchTaken(idex.alucontrol[2], AluA(idex, mwb, write_data),
                                  AluB(idex, idex_c, mwb, write_data))
  \/ idex_c.jump

(* Faulty variant: relative to the wrong PC, and with its carry.           *)
PcBranchTargetWide(idex, idex_c, mwb, write_data) == idex.pc_plus_4 + idex.imm

PcBranchTarget(idex, idex_c, mwb, write_data) ==
  IF idex_c.jalr THEN ClearBit0(AluResult(idex, idex_c, mwb, write_data))
  ELSE idex.pc_plus_shimm

ExResult(idex, idex_c, mwb, write_data) ==
  CASE idex_c.result_src = 0 -> AluResult(idex, idex_c, mwb, write_data)
    [] idex_c.result_src = 1 -> idex.imm
    [] idex_c.result_src = 2 -> idex.pc_plus_shimm
    [] idex_c.result_src = 3 -> idex.pc_plus_4

ExuTypeOK == exm \in ExmType

ExuInit == exm = ExmZero

ExuClock(idex, idex_c, mwb, write_data) ==
  exm' = [aluout   |-> ExResult(idex, idex_c, mwb, write_data),
          muxb     |-> MuxB(idex, mwb, write_data),
          rd       |-> idex.rd,
          regwrite |-> idex_c.regwrite,
          memtoreg |-> idex_c.memtoreg,
          memread  |-> idex_c.memread,
          memwrite |-> idex_c.memwrite]

ExuAssertReset == exm' = ExmZero

=============================================================================
