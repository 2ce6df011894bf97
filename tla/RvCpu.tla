------------------------------- MODULE RvCpu -------------------------------
(***************************************************************************)
(* The five-stage pipeline (rv_cpu): the stages of RvIfu, RvIdu, RvExu and *)
(* RvMemu wired together under one clock and one reset line.               *)
(*                                                                         *)
(* A step is a clock edge, or a change of rst_n by the harness.  At an     *)
(* edge every register of every stage takes its next value from the old    *)
(* state; the wires between the stages are the operators below.            *)
(***************************************************************************)
EXTENDS RvIfu, RvIdu, RvExu, RvMemu

VARIABLES
  rst_n,
  edges,   \* clock edges seen since rst_n fell
  resets   \* resets after the first one, at most MaxResets

vars == <<rst_n, edges, resets, ifu_vars, idu_vars, exm, memu_vars>>

(***************************************************************************)
(* Wires.                                                                  *)
(***************************************************************************)
hazard_flag      == HazardFlag(ifid_i)
pc_write         == ~hazard_flag
ifid_write       == ~hazard_flag
pc_src           == PcSrc(idex, idex_c, mwb, WriteData)
pc_branch_target == PcBranchTarget(idex, idex_c, mwb, WriteData)
id_flush         == pc_src

TypeOK ==
  /\ IfuTypeOK /\ IduTypeOK /\ ExuTypeOK /\ MemuTypeOK
  /\ rst_n \in BOOLEAN
  /\ edges \in 0 .. ResetEdges
  /\ resets \in 0 .. MaxResets

Init ==
  /\ rst_n = FALSE /\ edges = 0 /\ resets = 0
  /\ IfuInit /\ IduInit /\ ExuInit /\ MemuInit

(***************************************************************************)
(* posedge clk with rst_n high: all stages at once.                        *)
(***************************************************************************)
Clock ==
  /\ rst_n
  /\ IfuClock(pc_write, ifid_write, pc_src, pc_branch_target)
  /\ IduClock(ifid_i, ifid_pc, mwb, WriteData, id_flush)
  /\ ExuClock(idex, idex_c, mwb, WriteData)
  /\ MemuClock(exm)
  /\ UNCHANGED <<rst_n, edges, resets>>

(* posedge clk with rst_n low.                                             *)
ClockInReset ==
  /\ ~rst_n /\ edges < ResetEdges
  /\ edges' = edges + 1
  /\ IfuClockInReset
  /\ IduClockInReset
  /\ MemuClockInReset(exm)
  /\ UNCHANGED <<rst_n, resets, exm>>

(***************************************************************************)
(* The harness: apply_reset may be called at any time, holds reset for     *)
(* ResetEdges edges and raises rst_n at the last of them.  The blocking    *)
(* assignment races with the flops that sample at that very edge, so they  *)
(* see it in reset or out of it; all of them alike, because Verilator      *)
(* (scripts/run) evaluates the clocked blocks of an edge together.         *)
(***************************************************************************)
AssertReset ==
  /\ rst_n /\ resets < MaxResets
  /\ rst_n' = FALSE /\ edges' = 0 /\ resets' = resets + 1
  /\ IfuAssertReset /\ IduAssertReset /\ ExuAssertReset /\ MemuAssertReset

ReleaseReset ==
  /\ ~rst_n
  /\ edges \in {ResetEdges - 1, ResetEdges}
  /\ rst_n' = TRUE
  /\ UNCHANGED <<edges, resets, ifu_vars, idu_vars, exm, memu_vars>>

Next == Clock \/ ClockInReset \/ AssertReset \/ ReleaseReset

(* The clock driver toggles forever and apply_reset always runs to its end.*)
Fairness == WF_vars(Clock) /\ WF_vars(ClockInReset) /\ WF_vars(ReleaseReset)

Spec == Init /\ [][Next]_vars
FairSpec == Spec /\ Fairness

(***************************************************************************)
(* The architectural state: what registers and memory will hold once the   *)
(* instructions in EX/MEM and MEM/WB have drained.                         *)
(***************************************************************************)
ExmValue == IF exm.memtoreg THEN dmem[DmemIdx(exm.aluout)] ELSE exm.aluout

ArchRegs ==
  [r \in Reg |->
     IF exm.regwrite /\ exm.rd # 0 /\ exm.rd = r THEN ExmValue
     ELSE IF mwb.regwrite /\ mwb.rd # 0 /\ mwb.rd = r THEN WriteData
     ELSE X[r]]

ArchMem ==
  IF exm.memwrite THEN [dmem EXCEPT ![DmemIdx(exm.aluout)] = exm.muxb] ELSE dmem

(* An instruction in ID/EX does something; a bubble does not.              *)
IdexLive == idex_c # CtrlZero
IfidLive == ifid_i # FlushWord

(* The addresses of the oldest instruction not yet executed and of the     *)
(* three behind it, wherever in the front end they are.                    *)
ArchFetch ==
  LET p4 == Add(pc_r, 4)  p8 == Add(p4, 4)  p12 == Add(p8, 4) IN
  IF IdexLive       THEN <<Sub(idex.pc_plus_4, 4), ifid_pc, pc_prev, pc_r>>
  ELSE IF IfidLive  THEN <<ifid_pc, pc_prev, pc_r, p4>>
  ELSE IF pc_src_d1 THEN <<pc_r, p4, p8, p12>>
  ELSE                   <<pc_prev, pc_r, p4, p8>>

ArchUndo ==
  IF exm.memwrite
    THEN [addr |-> DmemIdx(exm.aluout), val |-> dmem[DmemIdx(exm.aluout)]]
    ELSE [addr |-> -1, val |-> 0]

(***************************************************************************)
(* The inductive invariant, one conjunct per part of the pipeline.         *)
(***************************************************************************)

(* The fetched word belongs to pc_prev, the word in IF/ID to ifid_pc, and  *)
(* behind a redirect there is nothing but bubbles.                         *)
FetchInv ==
  /\ ~pc_src_d1 => imem_out = imem[ImemIdx(pc_prev)]
  /\ IfidLive => ifid_i = imem[ImemIdx(ifid_pc)]
  /\ IdexLive => IfidLive
  /\ pc_src_d1 => ~IfidLive

(* ID/EX holds a bubble or the instruction at pc_plus_4 - 4, decoded; its  *)
(* operands are what the register file holds now.                          *)
DecodeInv ==
  /\ \E op \in Ops : idex_c = Ctrl(op)
  /\ X[0] = 0
  /\ idex.a = X[idex.rs1] /\ idex.b = X[idex.rs2]
  /\ IdexLive =>
       LET p == Sub(idex.pc_plus_4, 4)
           i == imem[ImemIdx(p)]
       IN  /\ idex_c = Ctrl(i.op)
           /\ idex.rs1 = i.rs1 /\ idex.rs2 = i.rs2 /\ idex.rd = i.rd
           /\ idex.imm = i.imm /\ idex.alucontrol = <<i.b30, i.f3>>
           /\ idex.pc_plus_shimm = Add(p, i.imm)
           /\ idex.pc_plus_4 = Add(p, 4)

(* A load in EX/MEM cannot be forwarded yet: whatever follows it directly  *)
(* does not read its destination.                                          *)
LoadInv ==
  /\ exm.memread = exm.memtoreg
  /\ exm.memread => exm.regwrite /\ ~exm.memwrite
  /\ exm.memread /\ IdexLive => exm.rd \notin {idex.rs1, idex.rs2}

(* One clock edge in reset leaves nothing of the past but the data memory. *)
Cleared ==
  /\ X = [r \in Reg |-> 0]
  /\ pc_prev = 0
  /\ imem_out = imem[ImemIdx(0)]
  /\ mwb_dout = 0

ResetInv ==
  /\ IfuInReset
  /\ idex = IdexZero /\ idex_c = CtrlZero /\ exm = ExmZero /\ mwb = MwbZero
  /\ edges > 0 => Cleared

IInv ==
  /\ TypeOK
  /\ rst_n => FetchInv /\ DecodeInv /\ LoadInv
  /\ ~rst_n => ResetInv

(***************************************************************************)
(* Properties.                                                             *)
(***************************************************************************)

(* The operands an instruction computes with are the registers as all the  *)
(* instructions before it leave them, whether they are still in EX/MEM, in *)
(* MEM/WB or in the register file: the two forwarding muxes of rv_exu, the *)
(* bypass of rv_idu and the load-use stall of rv_hdu together.             *)
OperandsFresh ==
  rst_n /\ IdexLive =>
    /\ AluA(idex, mwb, WriteData) = ArchRegs[idex.rs1]
    /\ MuxB(idex, mwb, WriteData) = ArchRegs[idex.rs2]

(* When reset may be released the processor has forgotten what it did      *)
(* before: its whole state is a function of the two memories.              *)
ResetForgets ==
  ~rst_n /\ edges >= ResetEdges - 1 =>
    /\ Cleared /\ IfuInReset
    /\ idex = IdexZero /\ idex_c = CtrlZero /\ exm = ExmZero /\ mwb = MwbZero

(* A load-use stall lasts one cycle: the bubble it puts into EX releases   *)
(* the stages it holds.                                                    *)
StallLastsOneCycle == [][hazard_flag => ~hazard_flag']_vars

(* A stall only inserts a bubble: the word in ID and the one fetched       *)
(* behind it are still there after it (rv_hdu: "Stalling the pipeline").   *)
StallHoldsFetch ==
  [][Clock /\ hazard_flag =>
       <<ifid_pc', ifid_i', pc_prev'>> = <<ifid_pc, ifid_i, pc_prev>>]_vars

(* The pipeline never starves: instructions keep reaching EX.              *)
KeepsExecuting == []<>(rst_n /\ IdexLive)

(***************************************************************************)
(* For every program, the pipeline executes exactly what RvErrata says.    *)
(***************************************************************************)
Errata == INSTANCE RvErrata WITH
  up <- rst_n, prog <- imem, regs <- ArchRegs, mem <- ArchMem,
  undo <- ArchUndo, pc <- ArchFetch[1], slot1 <- ArchFetch[2],
  slot2 <- ArchFetch[3], slot3 <- ArchFetch[4]

(* Whatever the interleaving of stalls, redirects and resets, registers,   *)
(* memory and program counter move as RvErrata's do.                       *)
ErrataSpec == Errata!Spec

(* A program keeps away from the two errata if its first instruction has   *)
(* no effect and no register field behind a load equals the load's rd.     *)
AvoidsErrata(prog) ==
  /\ prog[ImemIdx(0)].op \in {"R", "I", "LUI", "AUIPC"} /\ prog[ImemIdx(0)].rd = 0
  /\ \A p \in Word :
       LET i == prog[ImemIdx(p)]  use == prog[ImemIdx(Add(p, 4))] IN
       i.op = "LOAD" => i.rd \notin {use.rs1, use.rs2}

(* And as the architecture's: promised only to programs that keep away     *)
(* from the errata.                                                        *)
Arch == INSTANCE RvIsa WITH
  up <- rst_n, prog <- imem, regs <- ArchRegs, mem <- ArchMem,
  undo <- ArchUndo, pc <- IF rst_n THEN ArchFetch[1] ELSE 0

IsaSpec == Arch!Spec

=============================================================================
