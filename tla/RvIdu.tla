------------------------------- MODULE RvIdu -------------------------------
(***************************************************************************)
(* Instruction decode (rv_idu, rv_datapath_ctrl, rv_hdu, rv_regfile): the  *)
(* register file and the ID/EX registers.  The data part (idex) is flushed *)
(* by a redirect only, the control part (idex_c) by a hazard as well.      *)
(***************************************************************************)
EXTENDS RvTypes

VARIABLES X, idex, idex_c

idu_vars == <<X, idex, idex_c>>

IdexType ==
  [imm : Word, pc_plus_shimm : Word, pc_plus_4 : Word, a : Word, b : Word,
   rs1 : Reg, rs2 : Reg, rd : Reg, alucontrol : AluControl]

CtrlType ==
  [regwrite : BOOLEAN, memtoreg : BOOLEAN, branch : BOOLEAN, jump : BOOLEAN,
   jalr : BOOLEAN, result_src : 0 .. 3, memread : BOOLEAN, memwrite : BOOLEAN,
   alusrc : BOOLEAN, alu_op : 0 .. 3]

IdexZero ==
  [imm |-> 0, pc_plus_shimm |-> 0, pc_plus_4 |-> 0, a |-> 0, b |-> 0,
   rs1 |-> 0, rs2 |-> 0, rd |-> 0, alucontrol |-> <<0, 0>>]

CtrlZero ==
  [regwrite |-> FALSE, memtoreg |-> FALSE, branch |-> FALSE, jump |-> FALSE,
   jalr |-> FALSE, result_src |-> 0, memread |-> FALSE, memwrite |-> FALSE,
   alusrc |-> FALSE, alu_op |-> 0]

(* The control table of rv_datapath_ctrl, by signal.                       *)
Ctrl(op) ==
  [regwrite   |-> op \in {"R", "I", "LOAD", "JALR", "J", "LUI", "AUIPC"},
   memtoreg   |-> op = "LOAD",
   branch     |-> op = "B",
   jump       |-> op \in {"JALR", "J"},
   jalr       |-> op = "JALR",
   result_src |-> CASE op = "LUI"           -> 1
                    [] op = "AUIPC"         -> 2
                    [] op \in {"JALR", "J"} -> 3
                    [] OTHER                -> 0,
   memread    |-> op = "LOAD",
   memwrite   |-> op = "S",
   alusrc     |-> op \in {"I", "LOAD", "JALR", "S"},
   alu_op     |-> CASE op = "R"                     -> 2
                    [] op = "B"                     -> 1
                    [] op \in {"LOAD", "JALR", "S"} -> 3
                    [] OTHER                        -> 0]

(* Faulty variants: no hazard is seen; anything in EX is taken for a load. *)
NoHazard(ifid_i) == FALSE
HazardWithoutLoad(ifid_i) == idex.rd \in {ifid_i.rs1, ifid_i.rs2}

(* rv_hdu: a load in EX whose rd is a register field of the word in ID.    *)
HazardFlag(ifid_i) == idex_c.memread /\ idex.rd \in {ifid_i.rs1, ifid_i.rs2}

(* Faulty variant: no bypass of the register being written.                *)
ReadRegNoBypass(rs, mwb, write_data) == X[rs]

(* The register file's read port behind the MEM/WB bypass.                 *)
ReadReg(rs, mwb, write_data) ==
  IF mwb.regwrite /\ mwb.rd # 0 /\ mwb.rd = rs THEN write_data ELSE X[rs]

(* What the ID/EX data registers load.                                     *)
Decoded(ifid_i, ifid_pc, mwb, write_data) ==
  [imm           |-> ifid_i.imm,
   pc_plus_shimm |-> Add(ifid_pc, ifid_i.imm),
   pc_plus_4     |-> Add(ifid_pc, 4),
   a             |-> ReadReg(ifid_i.rs1, mwb, write_data),
   b             |-> ReadReg(ifid_i.rs2, mwb, write_data),
   rs1           |-> ifid_i.rs1,
   rs2           |-> ifid_i.rs2,
   rd            |-> ifid_i.rd,
   alucontrol    |-> <<ifid_i.b30, ifid_i.f3>>]

IduTypeOK == X \in [Reg -> Word] /\ idex \in IdexType /\ idex_c \in CtrlType

IduInit ==
  /\ X \in [Reg -> PowerUpWord]
  /\ idex = IdexZero
  /\ idex_c = CtrlZero

(* Faulty variant: x0 can be written.                                      *)
RegfileWritesX0(mwb, write_data) ==
  X' = IF mwb.regwrite THEN [X EXCEPT ![mwb.rd] = write_data] ELSE X

(* x0 is written with 0 whatever the data.                                 *)
RegfileWrite(mwb, write_data) ==
  X' = IF mwb.regwrite
         THEN [X EXCEPT ![mwb.rd] = IF mwb.rd = 0 THEN 0 ELSE write_data]
         ELSE X

(* One clock edge out of reset.                                            *)
IduClock(ifid_i, ifid_pc, mwb, write_data, id_flush) ==
  /\ RegfileWrite(mwb, write_data)
  /\ idex' = IF id_flush THEN IdexZero
             ELSE Decoded(ifid_i, ifid_pc, mwb, write_data)
  /\ idex_c' = IF id_flush \/ HazardFlag(ifid_i) THEN CtrlZero
               ELSE Ctrl(ifid_i.op)

(* Faulty variant: nothing clears the register file.                       *)
IduClockInResetKeepsX == UNCHANGED <<X, idex, idex_c>>

(* The register file is cleared by the clock, not by the reset line.       *)
IduClockInReset ==
  /\ X' = [r \in Reg |-> 0]
  /\ UNCHANGED <<idex, idex_c>>

IduAssertReset ==
  /\ idex' = IdexZero /\ idex_c' = CtrlZero
  /\ UNCHANGED X

=============================================================================
