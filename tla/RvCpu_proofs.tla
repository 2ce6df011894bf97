---------------------------- MODULE RvCpu_proofs ----------------------------
(***************************************************************************)
(* Proofs about the pipeline, for every word size, memory size, program,   *)
(* ALU and number of resets.                                               *)
(***************************************************************************)
EXTENDS RvCpu, TLAPS

(***************************************************************************)
(* Words.                                                                  *)
(***************************************************************************)

(* Addition and subtraction of words yield words and undo one another.     *)
LEMMA WordArith ==
  /\ 0 \in Word /\ 4 \in Word
  /\ \A x, y \in Word : Add(x, y) \in Word /\ Sub(x, y) \in Word
  /\ \A x, y \in Word : Sub(Add(x, y), y) = x
  /\ \A x, y \in Word : Add(Sub(x, y), y) = x
BY SizesAssumption DEF Word, Add, Sub

(* Clearing bit 0 of a word yields a word.                                 *)
LEMMA ClearBit0Word == \A x \in Word : ClearBit0(x) \in Word
<1> SUFFICES ASSUME NEW x \in Word PROVE ClearBit0(x) \in Word
  OBVIOUS
<1>1. x \in Nat /\ x % 2 \in 0 .. 1 /\ x % 2 <= x
  BY SizesAssumption DEF Word
<1> QED
  BY <1>1, SizesAssumption DEF Word, ClearBit0

(* Every address selects a word of either memory.                          *)
LEMMA IdxInRange ==
  \A a \in Word : ImemIdx(a) \in IAddr /\ DmemIdx(a) \in DAddr
<1> SUFFICES ASSUME NEW a \in Word
             PROVE ImemIdx(a) \in IAddr /\ DmemIdx(a) \in DAddr
  OBVIOUS
<1> DEFINE q == a \div 4
<1>1. q \in Nat
  BY SizesAssumption DEF Word
<1> HIDE DEF q
<1>2. q % ImemDepth \in 0 .. ImemDepth - 1 /\ q % DmemDepth \in 0 .. DmemDepth - 1
  BY <1>1, SizesAssumption
<1> QED
  BY <1>2 DEF q, ImemIdx, DmemIdx, IAddr, DAddr

(***************************************************************************)
(* Types.                                                                  *)
(***************************************************************************)

(* The wires of the EX and WB stages carry words and truth values.         *)
LEMMA WireTypes ==
  ASSUME TypeOK
  PROVE  /\ WriteData \in Word
         /\ AluA(idex, mwb, WriteData) \in Word
         /\ MuxB(idex, mwb, WriteData) \in Word
         /\ AluB(idex, idex_c, mwb, WriteData) \in Word
         /\ AluResult(idex, idex_c, mwb, WriteData) \in Word
         /\ ExResult(idex, idex_c, mwb, WriteData) \in Word
         /\ pc_src \in BOOLEAN
         /\ pc_branch_target \in Word
         /\ hazard_flag \in BOOLEAN
<1>1. WriteData \in Word
  BY DEF TypeOK, MemuTypeOK, MwbType, WriteData
<1>2. /\ AluA(idex, mwb, WriteData) \in Word
      /\ MuxB(idex, mwb, WriteData) \in Word
  BY <1>1 DEF TypeOK, IduTypeOK, IdexType, ExuTypeOK, ExmType, AluA, MuxB, Forward
<1>3. AluB(idex, idex_c, mwb, WriteData) \in Word
  BY <1>2 DEF TypeOK, IduTypeOK, IdexType, AluB
<1>4. AluResult(idex, idex_c, mwb, WriteData) \in Word
  BY <1>2, <1>3, AluAssumption
     DEF TypeOK, IduTypeOK, IdexType, CtrlType, AluResult
<1>5. ExResult(idex, idex_c, mwb, WriteData) \in Word
  BY <1>4 DEF TypeOK, IduTypeOK, IdexType, CtrlType, ExResult
<1>6. idex.alucontrol[2] \in 0 .. 7
  BY DEF TypeOK, IduTypeOK, IdexType, AluControl
<1>7. pc_src \in BOOLEAN
  BY <1>2, <1>3, <1>6, AluAssumption
     DEF TypeOK, IduTypeOK, CtrlType, pc_src, PcSrc
<1>8. pc_branch_target \in Word
  BY <1>4, ClearBit0Word
     DEF TypeOK, IduTypeOK, IdexType, pc_branch_target, PcBranchTarget
<1>9. hazard_flag \in BOOLEAN
  BY DEF TypeOK, IduTypeOK, CtrlType, hazard_flag, HazardFlag
<1> QED
  BY <1>1, <1>2, <1>3, <1>4, <1>5, <1>7, <1>8, <1>9

(* Every word of an instruction memory is an instruction, and the fields   *)
(* of an instruction or of the flush word have their types.                *)
LEMMA InstrFields ==
  /\ \A m \in [IAddr -> Instr], a \in Word : m[ImemIdx(a)] \in Instr
  /\ \A i \in Instr \cup {FlushWord} :
       /\ i.op \in Ops /\ i.rd \in Reg /\ i.rs1 \in Reg /\ i.rs2 \in Reg
       /\ <<i.b30, i.f3>> \in AluControl /\ i.f3 \in 0 .. 7 /\ i.imm \in Word
  /\ \A i \in Instr : i.op # "NONE" /\ i # FlushWord
<1>1. FlushWord \in InstrType
  BY SizesAssumption, WordArith DEF FlushWord, InstrType, Ops, Reg
<1> QED
  BY <1>1, IdxInRange, ProgramsAssumption DEF InstrType, AluControl, FlushWord

(* The decoder's control words are well typed; only unknown opcodes get    *)
(* the control word of a bubble.                                           *)
LEMMA CtrlTypes ==
  /\ \A op \in Ops : Ctrl(op) \in CtrlType
  /\ CtrlZero = Ctrl("NONE") /\ CtrlZero \in CtrlType
  /\ \A op \in Ops : op # "NONE" => Ctrl(op) # CtrlZero
<1>1. \A op \in Ops : Ctrl(op) \in CtrlType
  BY DEF Ctrl, CtrlType, Ops
<1>2. CtrlZero = Ctrl("NONE")
  <2> DEFINE z == Ctrl("NONE")
  <2>1. /\ ~z.regwrite /\ ~z.memtoreg /\ ~z.branch /\ ~z.jump /\ ~z.jalr
        /\ ~z.memread /\ ~z.memwrite /\ ~z.alusrc
        /\ z.result_src = 0 /\ z.alu_op = 0
    BY DEF Ctrl
  <2>2. z \in CtrlType
    BY <1>1 DEF Ops
  <2> QED
    BY <2>1, <2>2 DEF CtrlType, CtrlZero
<1>3. \A op \in Ops : op # "NONE" => Ctrl(op) # CtrlZero
  BY DEF Ctrl, CtrlZero, Ops
<1> QED
  BY <1>1, <1>2, <1>3 DEF Ops

(* The initial state is well typed.                                        *)
LEMMA TypeInit == Init => TypeOK
<1> SUFFICES ASSUME Init PROVE TypeOK
  OBVIOUS
<1>1. IfuTypeOK
  BY SizesAssumption, ProgramsAssumption, WordArith
     DEF Init, IfuInit, IfuInReset, IfuTypeOK
<1>2. IdexZero \in IdexType
  BY SizesAssumption, WordArith DEF IdexZero, IdexType, Reg, AluControl
<1>3. IduTypeOK
  BY <1>2, CtrlTypes, SizesAssumption DEF Init, IduInit, IduTypeOK
<1>4. ExuTypeOK
  BY SizesAssumption, WordArith DEF Init, ExuInit, ExmZero, ExuTypeOK, ExmType, Reg
<1>5. MemuTypeOK
  BY SizesAssumption, WordArith
     DEF Init, MemuInit, MwbZero, MemuTypeOK, MwbType, Reg
<1>6. rst_n \in BOOLEAN
  BY DEF Init
<1>7. edges \in 0 .. ResetEdges /\ resets \in 0 .. MaxResets
  BY SizesAssumption DEF Init
<1> QED
  BY <1>1, <1>3, <1>4, <1>5, <1>6, <1>7 DEF TypeOK

(* A clock edge takes every register from values of its type.              *)
LEMMA TypeClock == TypeOK /\ Clock => TypeOK'
<1> SUFFICES ASSUME TypeOK, Clock PROVE TypeOK'
  OBVIOUS
<1>1. IfuTypeOK'
  <2>1. imem[ImemIdx(IF pc_src THEN pc_prev ELSE pc_r)] \in Instr
    BY InstrFields DEF TypeOK, IfuTypeOK
  <2> QED
    BY <2>1, WireTypes, WordArith
       DEF TypeOK, IfuTypeOK, Clock, IfuClock
<1>2. IduTypeOK'
  <2>1. X' \in [Reg -> Word]
    BY WireTypes, WordArith
       DEF TypeOK, IduTypeOK, MemuTypeOK, MwbType, Clock, IduClock, RegfileWrite
  <2>2. Decoded(ifid_i, ifid_pc, mwb, WriteData) \in IdexType
    BY WireTypes, WordArith, InstrFields
       DEF TypeOK, IfuTypeOK, IduTypeOK, Decoded, ReadReg, IdexType
  <2>3. IdexZero \in IdexType
    BY SizesAssumption, WordArith DEF IdexZero, IdexType, Reg, AluControl
  <2>4. idex' \in IdexType
    BY <2>2, <2>3 DEF Clock, IduClock
  <2>5. idex_c' \in CtrlType
    BY CtrlTypes, InstrFields DEF TypeOK, IfuTypeOK, Clock, IduClock
  <2> QED
    BY <2>1, <2>4, <2>5 DEF IduTypeOK
<1>3. ExuTypeOK'
  BY WireTypes
     DEF TypeOK, IduTypeOK, IdexType, CtrlType, ExuTypeOK, ExmType, Clock, ExuClock
<1>4. MemuTypeOK'
  BY IdxInRange, WordArith
     DEF TypeOK, ExuTypeOK, ExmType, MemuTypeOK, MwbType, Clock, MemuClock,
         DmemClock
<1> QED
  BY <1>1, <1>2, <1>3, <1>4 DEF TypeOK, Clock

(* So does an edge in reset, and the reset line itself.                    *)
LEMMA TypeReset ==
  TypeOK /\ (ClockInReset \/ AssertReset \/ ReleaseReset) => TypeOK'
<1> SUFFICES ASSUME TypeOK PROVE ClockInReset \/ AssertReset \/ ReleaseReset => TypeOK'
  OBVIOUS
<1>1. CASE ClockInReset
  <2>1. IfuTypeOK'
    BY <1>1, InstrFields DEF TypeOK, IfuTypeOK, ClockInReset, IfuClockInReset
  <2>2. IduTypeOK'
    BY <1>1, WordArith DEF TypeOK, IduTypeOK, ClockInReset, IduClockInReset
  <2>3. MemuTypeOK'
    BY <1>1, IdxInRange, WordArith
       DEF TypeOK, ExuTypeOK, ExmType, MemuTypeOK, MwbType, ClockInReset,
           MemuClockInReset, DmemClock
  <2>4. ExuTypeOK' /\ edges' \in 0 .. ResetEdges
    BY <1>1, SizesAssumption DEF TypeOK, ExuTypeOK, ClockInReset
  <2> QED
    BY <1>1, <2>1, <2>2, <2>3, <2>4 DEF TypeOK, ClockInReset
<1>2. CASE AssertReset
  <2>1. IfuTypeOK'
    BY <1>2, WordArith DEF TypeOK, IfuTypeOK, AssertReset, IfuAssertReset
  <2>2. IdexZero \in IdexType
    BY SizesAssumption, WordArith DEF IdexZero, IdexType, Reg, AluControl
  <2>3. IduTypeOK'
    BY <1>2, <2>2, CtrlTypes DEF TypeOK, IduTypeOK, AssertReset, IduAssertReset
  <2>4. ExuTypeOK'
    BY <1>2, SizesAssumption, WordArith
       DEF AssertReset, ExuAssertReset, ExmZero, ExuTypeOK, ExmType, Reg
  <2>5. MemuTypeOK'
    BY <1>2, SizesAssumption, WordArith
       DEF TypeOK, AssertReset, MemuAssertReset, MwbZero, MemuTypeOK, MwbType, Reg
  <2>6. rst_n' \in BOOLEAN
    BY <1>2 DEF AssertReset
  <2>7. edges' \in 0 .. ResetEdges /\ resets' \in 0 .. MaxResets
    BY <1>2, SizesAssumption DEF TypeOK, AssertReset
  <2> QED
    BY <2>1, <2>3, <2>4, <2>5, <2>6, <2>7 DEF TypeOK
<1>3. CASE ReleaseReset
  BY <1>3 DEF TypeOK, IfuTypeOK, IduTypeOK, ExuTypeOK, MemuTypeOK, ReleaseReset,
              ifu_vars, idu_vars, memu_vars
<1> QED
  BY <1>1, <1>2, <1>3

(* Every state of the pipeline is well typed.                              *)
THEOREM TypeCorrect == Spec => []TypeOK
<1>1. TypeOK /\ [Next]_vars => TypeOK'
  <2>1. TypeOK /\ UNCHANGED vars => TypeOK'
    BY DEF TypeOK, IfuTypeOK, IduTypeOK, ExuTypeOK, MemuTypeOK, vars,
           ifu_vars, idu_vars, memu_vars
  <2> QED
    BY <2>1, TypeClock, TypeReset DEF Next
<1> QED
  BY TypeInit, <1>1, PTL DEF Spec

(***************************************************************************)
(* The inductive invariant.                                                *)
(***************************************************************************)

(* What a clock edge leaves in a register is what the read port behind the *)
(* MEM/WB bypass showed before it.                                         *)
LEMMA BypassIsNextX ==
  ASSUME TypeOK, X[0] = 0, RegfileWrite(mwb, WriteData)
  PROVE  \A r \in Reg : X'[r] = ReadReg(r, mwb, WriteData)
BY DEF TypeOK, IduTypeOK, MemuTypeOK, MwbType, RegfileWrite, ReadReg

(* The front end stays coherent: stalls, redirects and the SRAM's delay    *)
(* never pair a word with an address that is not its own.                  *)
LEMMA FetchStep == IInv /\ Clock => FetchInv'
<1> SUFFICES ASSUME IInv, Clock PROVE FetchInv'
  OBVIOUS
<1>1. TypeOK /\ FetchInv
  BY DEF IInv, Clock
<1>2. /\ pc_prev' = pc_r /\ pc_src_d1' = pc_src /\ imem' = imem
      /\ imem_out' = imem[ImemIdx(IF pc_src THEN pc_prev ELSE pc_r)]
      /\ ifid_pc' = IF ifid_write THEN pc_prev ELSE ifid_pc
      /\ ifid_i' = IF pc_src \/ pc_src_d1 THEN FlushWord
                   ELSE IF ifid_write THEN imem_out ELSE ifid_i
  BY DEF Clock, IfuClock
<1>3. (~pc_src_d1 => imem_out = imem[ImemIdx(pc_prev)])'
  BY <1>2
<1>4. (IfidLive => ifid_i = imem[ImemIdx(ifid_pc)])'
  BY <1>1, <1>2 DEF FetchInv, IfidLive
<1>5. (IdexLive => IfidLive)'
  <2> SUFFICES ASSUME IdexLive' PROVE IfidLive'
    OBVIOUS
  <2>1. ~pc_src /\ ~hazard_flag /\ Ctrl(ifid_i.op) # CtrlZero
    BY DEF IdexLive, Clock, IduClock, id_flush, hazard_flag
  <2>2. IfidLive
    BY <2>1, CtrlTypes DEF IfidLive, FlushWord
  <2>3. ifid_i' = imem_out
    BY <1>1, <1>2, <2>1, <2>2 DEF FetchInv, ifid_write
  <2> QED
    BY <1>1, <2>3, InstrFields DEF TypeOK, IfuTypeOK, IfidLive
<1>6. (pc_src_d1 => ~IfidLive)'
  BY <1>2 DEF IfidLive
<1> QED
  BY <1>3, <1>4, <1>5, <1>6 DEF FetchInv

(* ID/EX receives a bubble or the decoded word of IF/ID, with operands     *)
(* that are current in the register file after the edge.                   *)
LEMMA DecodeStep == IInv /\ Clock => DecodeInv'
<1> SUFFICES ASSUME IInv, Clock PROVE DecodeInv'
  OBVIOUS
<1>1. TypeOK /\ FetchInv /\ DecodeInv
  BY DEF IInv, Clock
<1>2. /\ RegfileWrite(mwb, WriteData)
      /\ idex' = IF pc_src THEN IdexZero
                 ELSE Decoded(ifid_i, ifid_pc, mwb, WriteData)
      /\ idex_c' = IF pc_src \/ hazard_flag THEN CtrlZero ELSE Ctrl(ifid_i.op)
      /\ imem' = imem
  BY DEF Clock, IduClock, IfuClock, id_flush, hazard_flag
<1>3. /\ ifid_i.op \in Ops /\ ifid_i.rs1 \in Reg /\ ifid_i.rs2 \in Reg
      /\ ifid_i.imm \in Word
  BY <1>1, InstrFields DEF TypeOK, IfuTypeOK
<1>4. \A r \in Reg : X'[r] = ReadReg(r, mwb, WriteData)
  BY <1>1, <1>2, BypassIsNextX DEF DecodeInv
<1>5. \E op \in Ops : idex_c' = Ctrl(op)
  BY <1>2, <1>3, CtrlTypes DEF Ops
<1>6. X'[0] = 0
  <2>1. 0 \in Reg
    BY SizesAssumption DEF Reg
  <2> QED
    BY <1>1, <1>4, <2>1 DEF DecodeInv, ReadReg
<1>7. idex'.a = X'[idex'.rs1] /\ idex'.b = X'[idex'.rs2]
  BY <1>2, <1>3, <1>4, <1>6 DEF IdexZero, Decoded
<1>8. ASSUME IdexLive'
      PROVE  LET p == Sub(idex'.pc_plus_4, 4)
                 i == imem'[ImemIdx(p)]
             IN  /\ idex_c' = Ctrl(i.op)
                 /\ idex'.rs1 = i.rs1 /\ idex'.rs2 = i.rs2 /\ idex'.rd = i.rd
                 /\ idex'.imm = i.imm /\ idex'.alucontrol = <<i.b30, i.f3>>
                 /\ idex'.pc_plus_shimm = Add(p, i.imm)
                 /\ idex'.pc_plus_4 = Add(p, 4)
  <2>1. /\ idex' = Decoded(ifid_i, ifid_pc, mwb, WriteData)
        /\ idex_c' = Ctrl(ifid_i.op) /\ Ctrl(ifid_i.op) # CtrlZero
    BY <1>2, <1>8 DEF IdexLive
  <2>2. IfidLive
    BY <2>1, CtrlTypes DEF IfidLive, FlushWord
  <2>3. ifid_i = imem[ImemIdx(ifid_pc)]
    BY <1>1, <2>2 DEF FetchInv
  <2>4. Sub(idex'.pc_plus_4, 4) = ifid_pc
    BY <1>1, <2>1, WordArith DEF TypeOK, IfuTypeOK, Decoded
  <2> QED
    BY <1>2, <2>1, <2>3, <2>4 DEF Decoded
<1> QED
  BY <1>5, <1>6, <1>7, <1>8 DEF DecodeInv

(* The load-use stall keeps a load and a reader of its result apart.       *)
LEMMA LoadStep == IInv /\ Clock => LoadInv'
<1> SUFFICES ASSUME IInv, Clock PROVE LoadInv'
  OBVIOUS
<1>1. TypeOK /\ DecodeInv
  BY DEF IInv, Clock
<1>2. PICK op \in Ops : idex_c = Ctrl(op)
  BY <1>1 DEF DecodeInv
<1>3. /\ exm'.memread = idex_c.memread /\ exm'.memtoreg = idex_c.memtoreg
      /\ exm'.regwrite = idex_c.regwrite /\ exm'.memwrite = idex_c.memwrite
      /\ exm'.rd = idex.rd
  BY DEF Clock, ExuClock
<1>4. /\ idex_c.memread = idex_c.memtoreg
      /\ idex_c.memread => idex_c.regwrite /\ ~idex_c.memwrite
  BY <1>2 DEF Ctrl
<1>5. ASSUME exm'.memread, IdexLive' PROVE exm'.rd \notin {idex'.rs1, idex'.rs2}
  <2>1. ~pc_src /\ ~HazardFlag(ifid_i)
    BY <1>5 DEF IdexLive, Clock, IduClock, id_flush
  <2>2. idex'.rs1 = ifid_i.rs1 /\ idex'.rs2 = ifid_i.rs2
    BY <2>1 DEF Clock, IduClock, id_flush, Decoded
  <2> QED
    BY <1>3, <1>5, <2>1, <2>2 DEF HazardFlag
<1> QED
  BY <1>3, <1>4, <1>5 DEF LoadInv

(* Out of reset the pipeline starts from a coherent state.                 *)
LEMMA ReleaseStep == IInv /\ ReleaseReset => (FetchInv /\ DecodeInv /\ LoadInv)'
<1> SUFFICES ASSUME IInv, ReleaseReset PROVE (FetchInv /\ DecodeInv /\ LoadInv)'
  OBVIOUS
<1>1. TypeOK /\ ResetInv /\ edges > 0
  BY SizesAssumption DEF IInv, ReleaseReset, TypeOK
<1>2. /\ IfuInReset /\ Cleared
      /\ idex = IdexZero /\ idex_c = CtrlZero /\ exm = ExmZero
  BY <1>1 DEF ResetInv
<1>3. UNCHANGED <<imem, pc_prev, pc_src_d1, imem_out, ifid_i, ifid_pc, X, idex,
                  idex_c, exm>>
  BY DEF ReleaseReset, ifu_vars, idu_vars
<1>4. FetchInv'
  BY <1>2, <1>3 DEF FetchInv, IfuInReset, Cleared, IfidLive, IdexLive
<1>5. DecodeInv'
  <2>1. X[0] = 0
    BY <1>2, SizesAssumption DEF Cleared, Reg
  <2>2. \E op \in Ops : idex_c = Ctrl(op)
    BY <1>2, CtrlTypes DEF Ops
  <2> QED
    BY <1>2, <1>3, <2>1, <2>2 DEF DecodeInv, IdexZero, IdexLive
<1>6. LoadInv'
  BY <1>2, <1>3 DEF LoadInv, ExmZero
<1> QED
  BY <1>4, <1>5, <1>6

(* In reset the cleared registers stay cleared, and one edge clears the    *)
(* ones that the reset line does not reach.                                *)
LEMMA ResetStep ==
  /\ IInv /\ ClockInReset => ResetInv'
  /\ IInv /\ AssertReset => ResetInv'
<1>1. ASSUME IInv, ClockInReset PROVE ResetInv'
  <2>1. TypeOK /\ ResetInv
    BY <1>1 DEF IInv, ClockInReset
  <2>2. Cleared'
    <3>1. ~exm.memread
      BY <2>1 DEF ResetInv, ExmZero
    <3> QED
      BY <1>1, <2>1, <3>1
         DEF ResetInv, IfuInReset, Cleared, ClockInReset, IfuClockInReset,
             IduClockInReset, MemuClockInReset, DmemClock
  <2> QED
    BY <1>1, <2>1, <2>2
       DEF ResetInv, IfuInReset, ClockInReset, IfuClockInReset, IduClockInReset,
           MemuClockInReset
<1>2. ASSUME IInv, AssertReset PROVE ResetInv'
  BY <1>2 DEF ResetInv, IfuInReset, AssertReset, IfuAssertReset, IduAssertReset,
              ExuAssertReset, MemuAssertReset
<1> QED
  BY <1>1, <1>2

(* IInv holds at power-up.                                                 *)
LEMMA InitIInv == Init => IInv
<1>1. Init => ResetInv
  BY DEF Init, IfuInit, IduInit, ExuInit, MemuInit, ResetInv
<1> QED
  BY <1>1, TypeInit DEF IInv, Init

(* Every step preserves it.                                                *)
LEMMA NextIInv == IInv /\ [Next]_vars => IInv'
<1> SUFFICES ASSUME IInv, [Next]_vars PROVE IInv'
  OBVIOUS
<1>1. CASE Clock
  BY <1>1, TypeClock, FetchStep, DecodeStep, LoadStep DEF IInv, Clock
<1>2. CASE ClockInReset
  BY <1>2, TypeReset, ResetStep DEF IInv, ClockInReset
<1>3. CASE AssertReset
  BY <1>3, TypeReset, ResetStep DEF IInv, AssertReset
<1>4. CASE ReleaseReset
  BY <1>4, TypeReset, ReleaseStep DEF IInv, ReleaseReset
<1>5. CASE UNCHANGED vars
  BY <1>5 DEF IInv, TypeOK, IfuTypeOK, IduTypeOK, ExuTypeOK, MemuTypeOK,
       FetchInv, DecodeInv, LoadInv, ResetInv, IfuInReset, Cleared, IfidLive,
       IdexLive, vars, ifu_vars, idu_vars, memu_vars
<1> QED
  BY <1>1, <1>2, <1>3, <1>4, <1>5 DEF Next

(* The front end, the operands, the stall and the reset stay coherent.     *)
THEOREM Inductive == Spec => []IInv
BY InitIInv, NextIInv, PTL DEF Spec

(***************************************************************************)
(* What follows from it.                                                   *)
(***************************************************************************)

(* The operand an instruction in EX is given is the register as all the    *)
(* instructions before it leave it.                                        *)
LEMMA ForwardIsArch ==
  ASSUME IInv, rst_n, IdexLive, NEW rs, rs \in {idex.rs1, idex.rs2}
  PROVE  Forward(rs, X[rs], mwb, WriteData) = ArchRegs[rs]
<1>1. rs \in Reg /\ LoadInv
  BY DEF IInv, TypeOK, IduTypeOK, IdexType
<1>2. CASE exm.regwrite /\ exm.rd # 0 /\ exm.rd = rs
  <2>1. ~exm.memtoreg
    BY <1>1, <1>2 DEF LoadInv
  <2> QED
    BY <1>1, <1>2, <2>1 DEF Forward, ArchRegs, ExmValue
<1>3. CASE ~(exm.regwrite /\ exm.rd # 0 /\ exm.rd = rs)
  BY <1>1, <1>3 DEF Forward, ArchRegs
<1> QED
  BY <1>2, <1>3

(* Forwarding, bypass and stall together always deliver current operands.  *)
THEOREM OperandsAreFresh == Spec => []OperandsFresh
<1>1. IInv => OperandsFresh
  BY ForwardIsArch DEF IInv, DecodeInv, OperandsFresh, AluA, MuxB
<1> QED
  BY <1>1, Inductive, PTL

(* Whatever the processor did before, a reset that may be released has     *)
(* erased it.                                                              *)
THEOREM ResetsForget == Spec => []ResetForgets
<1>1. IInv => ResetForgets
  BY SizesAssumption DEF IInv, TypeOK, ResetInv, ResetForgets
<1> QED
  BY <1>1, Inductive, PTL

(* No stall is followed by another: the pipeline cannot hold itself up.    *)
THEOREM StallsAreShort == Spec => StallLastsOneCycle
<1>1. IInv /\ [Next]_vars => [hazard_flag => ~hazard_flag']_vars
  <2> SUFFICES ASSUME IInv, Next, hazard_flag PROVE ~hazard_flag'
    OBVIOUS
  <2>1. ~idex_c'.memread
    <3>1. CASE Clock
      BY <3>1 DEF Clock, IduClock, hazard_flag, CtrlZero
    <3>2. CASE ClockInReset \/ ReleaseReset
      <4>1. idex_c = CtrlZero
        BY <3>2 DEF IInv, ResetInv, ClockInReset, ReleaseReset
      <4> QED
        BY <4>1 DEF hazard_flag, HazardFlag, CtrlZero
    <3>3. CASE AssertReset
      BY <3>3 DEF AssertReset, IduAssertReset, CtrlZero
    <3> QED
      BY <3>1, <3>2, <3>3 DEF Next
  <2> QED
    BY <2>1 DEF hazard_flag, HazardFlag
<1> QED
  BY <1>1, Inductive, PTL DEF Spec, StallLastsOneCycle

(***************************************************************************)
(* The pipeline implements RvErrata: every clock edge executes one         *)
(* instruction or none, and every reset is an architectural reset.         *)
(***************************************************************************)

(* What the instructions in flight leave behind is well typed.             *)
LEMMA ArchTypes ==
  ASSUME TypeOK
  PROVE  ArchRegs \in [Reg -> Word] /\ ArchMem \in [DAddr -> Word]
<1>1. ExmValue \in Word
  BY IdxInRange DEF TypeOK, ExuTypeOK, ExmType, MemuTypeOK, ExmValue
<1>2. ArchRegs \in [Reg -> Word]
  BY <1>1, WireTypes DEF TypeOK, IduTypeOK, ArchRegs
<1>3. ArchMem \in [DAddr -> Word]
  BY IdxInRange DEF TypeOK, ExuTypeOK, ExmType, MemuTypeOK, ArchMem
<1> QED
  BY <1>2, <1>3

(* At power-up nothing is in flight.                                       *)
LEMMA RefineInit == Init => Errata!Init
<1> SUFFICES ASSUME Init PROVE Errata!Init
  OBVIOUS
<1>1. /\ pc_r = 0 /\ ~pc_src_d1 /\ ~IfidLive /\ ~IdexLive /\ ~exm.memwrite
      /\ ~rst_n
  BY DEF Init, IfuInit, IfuInReset, IduInit, ExuInit, ExmZero, IfidLive, IdexLive
<1>2. TypeOK
  BY TypeInit
<1>3. ArchFetch = <<pc_prev, 0, 4, 8>>
  BY <1>1, SizesAssumption DEF ArchFetch, Add
<1> QED
  BY <1>1, <1>2, <1>3, ArchTypes
     DEF Errata!Init, Errata!Arch!NoUndo, ArchUndo, TypeOK, IfuTypeOK,
         Errata!IAddr, Errata!DAddr, Errata!Reg, Errata!Word,
         IAddr, DAddr, Reg, Word

(***************************************************************************)
(* The back end at a clock edge.                                           *)
(***************************************************************************)

(* The instructions in EX/MEM and MEM/WB drain by one stage: what they     *)
(* will leave in the registers is found one place further on.              *)
LEMMA Drain ==
  ASSUME IInv, Clock
  PROVE  /\ dmem' = ArchMem
         /\ \A r \in Reg :
              (IF mwb'.regwrite /\ mwb'.rd # 0 /\ mwb'.rd = r
                 THEN WriteData' ELSE X'[r]) = ArchRegs[r]
<1>1. TypeOK /\ LoadInv /\ DecodeInv
  BY DEF IInv, Clock
<1>2. dmem' = ArchMem
  BY DEF Clock, MemuClock, DmemClock, ArchMem
<1>3. \A r \in Reg : X'[r] = ReadReg(r, mwb, WriteData)
  BY <1>1, BypassIsNextX DEF Clock, IduClock, DecodeInv
<1>4. /\ mwb'.regwrite = exm.regwrite /\ mwb'.rd = exm.rd
      /\ mwb'.memtoreg = exm.memtoreg /\ mwb'.aluout = exm.aluout
  BY DEF Clock, MemuClock
<1>5. WriteData' = ExmValue
  <2>1. CASE exm.memtoreg
    <3>1. mwb_dout' = dmem[DmemIdx(exm.aluout)]
      BY <1>1, <2>1 DEF LoadInv, Clock, MemuClock, DmemClock
    <3> QED
      BY <1>4, <2>1, <3>1 DEF WriteData, ExmValue
  <2>2. CASE ~exm.memtoreg
    BY <1>4, <2>2 DEF WriteData, ExmValue
  <2> QED
    BY <2>1, <2>2
<1> QED
  BY <1>2, <1>3, <1>4, <1>5 DEF ArchRegs, ReadReg

(* Behind the edge, only the instruction that was in EX distinguishes the  *)
(* architectural state from what it was.                                   *)
LEMMA Retire ==
  ASSUME IInv, Clock
  PROVE  /\ \A r \in Reg :
              ArchRegs'[r] =
                IF idex_c.regwrite /\ idex.rd # 0 /\ idex.rd = r
                  THEN IF idex_c.memtoreg
                         THEN ArchMem[DmemIdx(ExResult(idex, idex_c, mwb, WriteData))]
                         ELSE ExResult(idex, idex_c, mwb, WriteData)
                  ELSE ArchRegs[r]
         /\ LET a == DmemIdx(ExResult(idex, idex_c, mwb, WriteData)) IN
            /\ ArchMem' = IF idex_c.memwrite
                            THEN [ArchMem EXCEPT ![a] = MuxB(idex, mwb, WriteData)]
                            ELSE ArchMem
            /\ ArchUndo' = IF idex_c.memwrite
                             THEN [addr |-> a, val |-> ArchMem[a]]
                             ELSE [addr |-> -1, val |-> 0]
<1>1. /\ exm'.aluout = ExResult(idex, idex_c, mwb, WriteData)
      /\ exm'.muxb = MuxB(idex, mwb, WriteData) /\ exm'.rd = idex.rd
      /\ exm'.regwrite = idex_c.regwrite /\ exm'.memtoreg = idex_c.memtoreg
      /\ exm'.memwrite = idex_c.memwrite
  BY DEF Clock, ExuClock
<1>2. /\ ArchMem' = IF idex_c.memwrite
                      THEN [ArchMem EXCEPT ![DmemIdx(exm'.aluout)] = exm'.muxb]
                      ELSE ArchMem
      /\ ArchUndo' = IF idex_c.memwrite
                       THEN [addr |-> DmemIdx(exm'.aluout),
                             val |-> ArchMem[DmemIdx(exm'.aluout)]]
                       ELSE [addr |-> -1, val |-> 0]
  BY <1>1, Drain DEF ArchMem, ArchUndo
<1>3. ExmValue' = IF idex_c.memtoreg THEN ArchMem[DmemIdx(exm'.aluout)]
                  ELSE exm'.aluout
  BY <1>1, Drain DEF ExmValue
<1>4. ASSUME NEW r \in Reg
      PROVE  ArchRegs'[r] = IF exm'.regwrite /\ exm'.rd # 0 /\ exm'.rd = r
                              THEN ExmValue' ELSE ArchRegs[r]
  BY Drain DEF ArchRegs
<1> QED
  BY <1>1, <1>2, <1>3, <1>4

(***************************************************************************)
(* The front end at a clock edge.                                          *)
(***************************************************************************)

(* A redirect and a load-use stall never meet.                             *)
LEMMA RedirectNeverStalls == IInv /\ rst_n => ~(pc_src /\ hazard_flag)
<1> SUFFICES ASSUME IInv, rst_n PROVE ~(pc_src /\ hazard_flag)
  OBVIOUS
<1>1. PICK op \in Ops : idex_c = Ctrl(op)
  BY DEF IInv, DecodeInv
<1>2. idex_c.memread => ~idex_c.branch /\ ~idex_c.jump
  BY <1>1 DEF Ctrl
<1> QED
  BY <1>2 DEF pc_src, PcSrc, hazard_flag, HazardFlag

(* A redirect empties the front end and starts it at the target.           *)
LEMMA FetchRedirected ==
  ASSUME IInv, Clock, pc_src
  PROVE  LET t == pc_branch_target IN
         ArchFetch' = <<t, Add(t, 4), Add(Add(t, 4), 4), Add(Add(Add(t, 4), 4), 4)>>
<1>1. ~hazard_flag
  BY RedirectNeverStalls DEF Clock
<1>2. ~IdexLive' /\ ~IfidLive' /\ pc_src_d1' /\ pc_r' = pc_branch_target
  BY <1>1 DEF Clock, IduClock, IfuClock, IdexLive, IfidLive, pc_write, id_flush
<1> QED
  BY <1>2 DEF ArchFetch

(* An instruction in IF/ID decodes to control signals that do something,   *)
(* and its address can be recovered from pc_plus_4.                        *)
LEMMA DecodedIsLive ==
  ASSUME TypeOK, ifid_i \in Instr
  PROVE  Ctrl(ifid_i.op) # CtrlZero /\ Sub(Add(ifid_pc, 4), 4) = ifid_pc
<1>1. ifid_i.op \in Ops /\ ifid_i.op # "NONE"
  BY InstrFields
<1>2. ifid_pc \in Word
  BY DEF TypeOK, IfuTypeOK
<1> QED
  BY <1>1, <1>2, CtrlTypes, WordArith

(* Behind an instruction that goes on, the queue moves up; a stall loses   *)
(* the word fetched behind the one it holds.                               *)
LEMMA FetchAdvances ==
  ASSUME IInv, Clock, ~pc_src, IdexLive
  PROVE  /\ ArchFetch = <<Sub(idex.pc_plus_4, 4), ifid_pc, pc_prev, pc_r>>
         /\ ArchFetch' = <<ifid_pc, IF hazard_flag THEN pc_r ELSE pc_prev, pc_r,
                           Add(pc_r, 4)>>
<1>1. TypeOK /\ FetchInv
  BY DEF IInv, Clock
<1>2. IfidLive /\ ~pc_src_d1 /\ ifid_i \in Instr
  BY <1>1 DEF FetchInv, IfidLive, TypeOK, IfuTypeOK
<1>3. CASE hazard_flag
  <2>1. /\ ~IdexLive' /\ IfidLive'
        /\ ifid_pc' = ifid_pc /\ pc_prev' = pc_r /\ pc_r' = pc_r
    BY <1>2, <1>3 DEF Clock, IduClock, IfuClock, IdexLive, IfidLive, hazard_flag,
                      pc_write, ifid_write
  <2> QED
    BY <1>3, <2>1 DEF ArchFetch
<1>4. CASE ~hazard_flag
  <2>1. idex_c' = Ctrl(ifid_i.op) /\ idex'.pc_plus_4 = Add(ifid_pc, 4)
    BY <1>4 DEF Clock, IduClock, Decoded, hazard_flag, id_flush
  <2>2. IdexLive' /\ Sub(idex'.pc_plus_4, 4) = ifid_pc
    BY <1>1, <1>2, <2>1, DecodedIsLive DEF IdexLive
  <2>3. ifid_pc' = pc_prev /\ pc_prev' = pc_r /\ pc_r' = Add(pc_r, 4)
    BY <1>4 DEF Clock, IfuClock, pc_write, ifid_write
  <2> QED
    BY <1>4, <2>2, <2>3 DEF ArchFetch
<1> QED
  BY <1>3, <1>4 DEF ArchFetch

(* A bubble in EX moves nothing in the queue.                              *)
LEMMA FetchUnmoved ==
  ASSUME IInv, Clock, ~IdexLive
  PROVE  ArchFetch' = ArchFetch
<1>1. TypeOK /\ FetchInv
  BY DEF IInv, Clock
<1>2. ~pc_src /\ ~hazard_flag
  BY DEF IdexLive, CtrlZero, pc_src, PcSrc, hazard_flag, HazardFlag
<1>3. /\ ifid_pc' = pc_prev /\ pc_prev' = pc_r /\ pc_r' = Add(pc_r, 4)
      /\ ifid_i' = IF pc_src_d1 THEN FlushWord ELSE imem_out
      /\ idex_c' = Ctrl(ifid_i.op) /\ idex'.pc_plus_4 = Add(ifid_pc, 4)
      /\ ~pc_src_d1'
  BY <1>2 DEF Clock, IfuClock, IduClock, Decoded, hazard_flag, id_flush, pc_write,
              ifid_write
<1>4. CASE IfidLive
  <2>1. ifid_i \in Instr
    BY <1>1, <1>4 DEF IfidLive, TypeOK, IfuTypeOK
  <2>2. IdexLive' /\ Sub(idex'.pc_plus_4, 4) = ifid_pc
    BY <1>1, <1>3, <2>1, DecodedIsLive DEF IdexLive
  <2> QED
    BY <1>3, <1>4, <2>2 DEF ArchFetch
<1>5. CASE ~IfidLive
  <2>1. ~IdexLive'
    BY <1>3, <1>5, CtrlTypes DEF IfidLive, IdexLive, FlushWord
  <2>2. CASE pc_src_d1
    BY <1>3, <1>5, <2>1, <2>2 DEF ArchFetch, IfidLive
  <2>3. CASE ~pc_src_d1
    <3>1. IfidLive'
      BY <1>1, <1>3, <2>3, InstrFields DEF IfidLive, TypeOK, IfuTypeOK
    <3> QED
      BY <1>3, <1>5, <2>1, <2>3, <3>1 DEF ArchFetch
  <2> QED
    BY <2>2, <2>3
<1> QED
  BY <1>4, <1>5

(***************************************************************************)
(* Steps map to steps.                                                     *)
(***************************************************************************)

(* The abstract machine's constants and arithmetic are the pipeline's.     *)
LEMMA SameWords ==
  /\ \A a : Errata!ImemIdx(a) = ImemIdx(a)
  /\ \A a : Errata!Arch!DmemIdx(a) = DmemIdx(a)
  /\ \A x, y : Errata!Add(x, y) = Add(x, y) /\ Errata!Arch!Add(x, y) = Add(x, y)
  /\ \A x : Errata!Arch!ClearBit0(x) = ClearBit0(x)
  /\ Errata!Arch!ZeroRegs = [r \in Reg |-> 0]
BY DEF Errata!ImemIdx, Errata!Arch!DmemIdx, Errata!Add, Errata!Arch!Add,
       Errata!Arch!ClearBit0, Errata!Arch!ZeroRegs, Errata!Arch!Reg,
       ImemIdx, DmemIdx, Add, ClearBit0, Reg

(* An instruction in EX computes what its opcode says of the architectural *)
(* registers and memory.                                                   *)
LEMMA ExComputes ==
  ASSUME IInv, rst_n, IdexLive,
         NEW p, p = Sub(idex.pc_plus_4, 4), NEW i, i = imem[ImemIdx(p)]
  PROVE  /\ p \in Word /\ i \in Instr
         /\ (idex_c.regwrite /\ idex.rd # 0) = Errata!Arch!WritesRd(i)
         /\ idex.rd = i.rd /\ idex_c.memwrite = (i.op = "S")
         /\ i.op \in {"LOAD", "S"} =>
              ExResult(idex, idex_c, mwb, WriteData) = Errata!Arch!EffAddr(i)
         /\ Errata!Arch!WritesRd(i) =>
              (IF idex_c.memtoreg
                 THEN ArchMem[DmemIdx(ExResult(idex, idex_c, mwb, WriteData))]
                 ELSE ExResult(idex, idex_c, mwb, WriteData))
              = Errata!Arch!Result(i, p)
         /\ MuxB(idex, mwb, WriteData) = ArchRegs[i.rs2]
         /\ pc_src = Errata!Arch!Redirects(i)
         /\ pc_src => pc_branch_target = Errata!Arch!Target(i, p)
         /\ idex_c.memread = (i.op = "LOAD")
<1>1. TypeOK /\ DecodeInv
  BY DEF IInv
<1>2. p \in Word /\ i \in Instr
  BY <1>1, WordArith, InstrFields DEF TypeOK, IfuTypeOK, IduTypeOK, IdexType
<1>3. /\ idex_c = Ctrl(i.op)
      /\ idex.rs1 = i.rs1 /\ idex.rs2 = i.rs2 /\ idex.rd = i.rd
      /\ idex.imm = i.imm /\ idex.alucontrol = <<i.b30, i.f3>>
      /\ idex.pc_plus_shimm = Add(p, i.imm)
      /\ idex.pc_plus_4 = Add(p, 4)
  BY <1>1 DEF DecodeInv
<1>4. /\ AluA(idex, mwb, WriteData) = ArchRegs[i.rs1]
      /\ MuxB(idex, mwb, WriteData) = ArchRegs[i.rs2]
  BY <1>1, <1>3, ForwardIsArch DEF DecodeInv, AluA, MuxB
<1>5. /\ i.op \in Ops /\ i.op # "NONE" /\ i.imm \in Word /\ i.rs1 \in Reg
      /\ i.rs2 \in Reg /\ <<i.b30, i.f3>> \in AluControl
      /\ ArchRegs[i.rs1] \in Word /\ ArchRegs[i.rs2] \in Word
  BY <1>1, <1>2, InstrFields, ArchTypes
<1> DEFINE alu == AluResult(idex, idex_c, mwb, WriteData)
           res == ExResult(idex, idex_c, mwb, WriteData)
<1>6. alu = AluOut(idex_c.alu_op, <<i.b30, i.f3>>, ArchRegs[i.rs1],
                   IF idex_c.alusrc THEN i.imm ELSE ArchRegs[i.rs2])
  BY <1>3, <1>4 DEF AluResult, AluB
<1>7. i.op \in {"LOAD", "S", "JALR"} => alu = Errata!Arch!EffAddr(i)
  <2>1. i.op \in {"LOAD", "S", "JALR"} => idex_c.alu_op = 3 /\ idex_c.alusrc
    BY <1>3 DEF Ctrl
  <2>2. AluOut(3, <<i.b30, i.f3>>, ArchRegs[i.rs1], i.imm)
        = Add(ArchRegs[i.rs1], i.imm)
    BY <1>5, AluAssumption
  <2>3. Errata!Arch!EffAddr(i) = Add(ArchRegs[i.rs1], i.imm)
    BY SameWords DEF Errata!Arch!EffAddr
  <2>4. i.op \in {"LOAD", "S", "JALR"} =>
          alu = AluOut(3, <<i.b30, i.f3>>, ArchRegs[i.rs1], i.imm)
    BY <1>6, <2>1
  <2> QED
    BY <2>2, <2>3, <2>4
<1>8. i.op \in {"LOAD", "S"} => res = Errata!Arch!EffAddr(i)
  <2>1. i.op \in {"LOAD", "S"} => idex_c.result_src = 0
    BY <1>3 DEF Ctrl
  <2> QED
    BY <1>7, <2>1 DEF ExResult
<1>9. (idex_c.regwrite /\ idex.rd # 0) = Errata!Arch!WritesRd(i)
  BY <1>3, <1>5 DEF Ctrl, Errata!Arch!WritesRd, Ops
<1>10. ASSUME Errata!Arch!WritesRd(i)
       PROVE  (IF idex_c.memtoreg THEN ArchMem[DmemIdx(res)] ELSE res)
              = Errata!Arch!Result(i, p)
  <2>1. CASE i.op = "R"
    <3>1. /\ idex_c.alu_op = 2 /\ ~idex_c.alusrc /\ idex_c.result_src = 0
          /\ ~idex_c.memtoreg
      BY <1>3, <2>1 DEF Ctrl
    <3> QED
      BY <1>6, <2>1, <3>1 DEF ExResult, Errata!Arch!Result
  <2>2. CASE i.op = "I"
    <3>1. /\ idex_c.alu_op = 0 /\ idex_c.alusrc /\ idex_c.result_src = 0
          /\ ~idex_c.memtoreg
      BY <1>3, <2>2 DEF Ctrl
    <3> QED
      BY <1>6, <2>2, <3>1 DEF ExResult, Errata!Arch!Result
  <2>3. CASE i.op = "LOAD"
    <3>1. idex_c.memtoreg
      BY <1>3, <2>3 DEF Ctrl
    <3> QED
      BY <1>8, <2>3, <3>1, SameWords DEF Errata!Arch!Result
  <2>4. CASE i.op = "LUI"
    <3>1. idex_c.result_src = 1 /\ ~idex_c.memtoreg
      BY <1>3, <2>4 DEF Ctrl
    <3> QED
      BY <1>3, <2>4, <3>1 DEF ExResult, Errata!Arch!Result
  <2>5. CASE i.op = "AUIPC"
    <3>1. idex_c.result_src = 2 /\ ~idex_c.memtoreg
      BY <1>3, <2>5 DEF Ctrl
    <3> QED
      BY <1>3, <2>5, <3>1, SameWords DEF ExResult, Errata!Arch!Result
  <2>6. CASE i.op \in {"J", "JALR"}
    <3>1. idex_c.result_src = 3 /\ ~idex_c.memtoreg
      BY <1>3, <2>6 DEF Ctrl
    <3> QED
      BY <1>3, <2>6, <3>1, SameWords DEF ExResult, Errata!Arch!Result
  <2> QED
    BY <1>5, <1>10, <2>1, <2>2, <2>3, <2>4, <2>5, <2>6
       DEF Ops, Errata!Arch!WritesRd
<1>11. pc_src = Errata!Arch!Redirects(i)
  <2>1. idex_c.branch = (i.op = "B") /\ idex_c.jump = (i.op \in {"J", "JALR"})
    BY <1>3 DEF Ctrl
  <2>2. i.op = "B" => AluB(idex, idex_c, mwb, WriteData) = ArchRegs[i.rs2]
    BY <1>3, <1>4 DEF Ctrl, AluB
  <2>3. idex.alucontrol[2] = i.f3
    BY <1>3
  <2> QED
    BY <1>4, <2>1, <2>2, <2>3 DEF pc_src, PcSrc, Errata!Arch!Redirects
<1>12. pc_src => pc_branch_target = Errata!Arch!Target(i, p)
  <2>1. idex_c.jalr = (i.op = "JALR")
    BY <1>3 DEF Ctrl
  <2> QED
    BY <1>3, <1>7, <2>1, SameWords
       DEF pc_branch_target, PcBranchTarget, Errata!Arch!Target
<1>13. idex_c.memwrite = (i.op = "S") /\ idex_c.memread = (i.op = "LOAD")
  BY <1>3 DEF Ctrl
<1> HIDE DEF alu, res
<1> QED
  BY <1>2, <1>3, <1>4, <1>8, <1>9, <1>10, <1>11, <1>12, <1>13 DEF res

(* A clock edge with an instruction in EX executes it.                     *)
LEMMA ClockExecutes == IInv /\ Clock /\ IdexLive => Errata!Execute
<1> SUFFICES ASSUME IInv, Clock, IdexLive PROVE Errata!Execute
  OBVIOUS
<1> DEFINE p == Sub(idex.pc_plus_4, 4)
           i == imem[ImemIdx(p)]
           res == ExResult(idex, idex_c, mwb, WriteData)
<1>1. rst_n /\ rst_n' = rst_n /\ imem' = imem /\ TypeOK /\ DecodeInv /\ FetchInv
  BY DEF Clock, IfuClock, IInv
<1>2. ArchFetch = <<p, ifid_pc, pc_prev, pc_r>>
  BY DEF ArchFetch
<1>3. /\ i \in Instr
      /\ (idex_c.regwrite /\ idex.rd # 0) = Errata!Arch!WritesRd(i)
      /\ idex.rd = i.rd /\ idex_c.memwrite = (i.op = "S")
      /\ i.op \in {"LOAD", "S"} => res = Errata!Arch!EffAddr(i)
      /\ Errata!Arch!WritesRd(i) =>
            (IF idex_c.memtoreg THEN ArchMem[DmemIdx(res)] ELSE res)
            = Errata!Arch!Result(i, p)
      /\ MuxB(idex, mwb, WriteData) = ArchRegs[i.rs2]
      /\ pc_src = Errata!Arch!Redirects(i)
      /\ pc_src => pc_branch_target = Errata!Arch!Target(i, p)
      /\ idex_c.memread = (i.op = "LOAD")
  BY <1>1, ExComputes
<1> HIDE DEF p, i, res
<1>4. ArchRegs' = IF Errata!Arch!WritesRd(i)
                    THEN [ArchRegs EXCEPT ![i.rd] = Errata!Arch!Result(i, p)]
                    ELSE ArchRegs
  <2>1. \A r \in Reg : ArchRegs'[r] =
                IF Errata!Arch!WritesRd(i) /\ i.rd = r
                  THEN Errata!Arch!Result(i, p) ELSE ArchRegs[r]
    BY <1>3, Retire DEF res
  <2>2. ArchRegs = [r \in Reg |-> ArchRegs[r]] /\ ArchRegs' = [r \in Reg |-> ArchRegs'[r]]
    BY DEF ArchRegs
  <2> QED
    BY <2>1, <2>2
<1>5. IF i.op = "S"
        THEN LET a == Errata!Arch!DmemIdx(Errata!Arch!EffAddr(i)) IN
             /\ ArchMem' = [ArchMem EXCEPT ![a] = ArchRegs[i.rs2]]
             /\ ArchUndo' = [addr |-> a, val |-> ArchMem[a]]
        ELSE ArchMem' = ArchMem /\ ArchUndo' = Errata!Arch!NoUndo
  BY <1>3, Retire, SameWords DEF res, Errata!Arch!NoUndo
<1>6. Errata!Arch!Exec(i, p)
  BY <1>4, <1>5 DEF Errata!Arch!Exec
<1>7. CASE Errata!Arch!Redirects(i)
  <2>1. Errata!FetchAt(Errata!Arch!Target(i, p))
    BY <1>3, <1>7, FetchRedirected, SameWords DEF Errata!FetchAt
  <2> QED
    BY <1>1, <1>2, <1>6, <1>7, <2>1, SameWords DEF i, Errata!Execute
<1>8. CASE ~Errata!Arch!Redirects(i)
  <2>1. hazard_flag = Errata!LoadUse(i)
    <3>1. ifid_i = imem[ImemIdx(ifid_pc)]
      BY <1>1 DEF FetchInv
    <3> QED
      BY <1>2, <1>3, <3>1, SameWords DEF hazard_flag, HazardFlag, Errata!LoadUse
  <2>2. Errata!Advance(Errata!LoadUse(i))
    BY <1>2, <1>3, <1>8, <2>1, FetchAdvances, SameWords DEF Errata!Advance
  <2> QED
    BY <1>1, <1>2, <1>6, <1>8, <2>2, SameWords DEF i, Errata!Execute
<1> QED
  BY <1>7, <1>8

(* A clock edge with a bubble in EX commits the store in MEM, if any, and  *)
(* does nothing else.                                                      *)
LEMMA ClockCommits == IInv /\ Clock /\ ~IdexLive => Errata!CommitStore
<1> SUFFICES ASSUME IInv, Clock, ~IdexLive PROVE Errata!CommitStore
  OBVIOUS
<1>1. rst_n /\ rst_n' = rst_n /\ imem' = imem
  BY DEF Clock, IfuClock
<1>2. ~idex_c.regwrite /\ ~idex_c.memwrite
  BY DEF IdexLive, CtrlZero
<1>3. ArchRegs' = ArchRegs
  <2>1. \A r \in Reg : ArchRegs'[r] = ArchRegs[r]
    BY <1>2, Retire
  <2>2. ArchRegs = [r \in Reg |-> ArchRegs[r]] /\ ArchRegs' = [r \in Reg |-> ArchRegs'[r]]
    BY DEF ArchRegs
  <2> QED
    BY <2>1, <2>2
<1>4. ArchMem' = ArchMem /\ ArchUndo' = Errata!Arch!NoUndo
  BY <1>2, Retire DEF Errata!Arch!NoUndo
<1>5. ArchFetch' = ArchFetch
  BY FetchUnmoved
<1> QED
  BY <1>1, <1>3, <1>4, <1>5 DEF Errata!CommitStore, Errata!slots

(* With nothing in flight the architectural state is in the registers and  *)
(* in the memory.                                                          *)
LEMMA NothingInFlight ==
  TypeOK /\ exm = ExmZero /\ mwb = MwbZero =>
    ArchRegs = X /\ ArchMem = dmem /\ ArchUndo = Errata!Arch!NoUndo
BY DEF TypeOK, IduTypeOK, ArchRegs, ArchMem, ArchUndo, ExmZero, MwbZero,
       Errata!Arch!NoUndo

(* In reset the queue starts over from address 0.                          *)
LEMMA FetchInReset ==
  IfuInReset /\ idex_c = CtrlZero => ArchFetch = <<pc_prev, 0, 4, 8>>
<1> SUFFICES ASSUME IfuInReset, idex_c = CtrlZero
             PROVE  ArchFetch = <<pc_prev, 0, 4, 8>>
  OBVIOUS
<1>1. ~IdexLive /\ ~IfidLive /\ ~pc_src_d1 /\ pc_r = 0
  BY DEF IfuInReset, IdexLive, IfidLive
<1> QED
  BY <1>1, SizesAssumption DEF ArchFetch, Add

(* Resets are architectural resets.                                        *)
LEMMA ResetRefines ==
  /\ IInv /\ AssertReset => Errata!AssertReset
  /\ IInv /\ ClockInReset => Errata!HoldReset
  /\ IInv /\ ReleaseReset => Errata!ReleaseReset
<1>a. (TypeOK /\ exm = ExmZero /\ mwb = MwbZero =>
         ArchRegs = X /\ ArchMem = dmem /\ ArchUndo = Errata!Arch!NoUndo)'
  BY NothingInFlight, PTL
<1>b. (IfuInReset /\ idex_c = CtrlZero => ArchFetch = <<pc_prev, 0, 4, 8>>)'
  BY FetchInReset, PTL
<1>1. ASSUME IInv, AssertReset PROVE Errata!AssertReset
  <2>1. TypeOK /\ TypeOK'
    BY <1>1, TypeReset DEF IInv
  <2>2. /\ rst_n /\ ~rst_n' /\ imem' = imem /\ X' = X /\ dmem' = dmem
        /\ exm' = ExmZero /\ mwb' = MwbZero /\ IfuInReset' /\ idex_c' = CtrlZero
        /\ pc_prev' = pc_prev
    BY <1>1 DEF AssertReset, IfuAssertReset, IduAssertReset, ExuAssertReset,
                MemuAssertReset, IfuInReset
  <2>3. ArchRegs' = X /\ ArchMem' = dmem /\ ArchUndo' = Errata!Arch!NoUndo
    BY <1>a, <2>1, <2>2 DEF Errata!Arch!NoUndo
  <2>4. ArchFetch' = <<pc_prev, 0, 4, 8>>
    BY <1>b, <2>2
  <2>5. X \in [Reg -> Word] /\ pc_prev \in Word /\ dmem \in [DAddr -> Word]
    BY <2>1 DEF TypeOK, IduTypeOK, IfuTypeOK, MemuTypeOK
  <2>6. Errata!Arch!CancelStore
    <3>1. CASE exm.memwrite
      <4> DEFINE a == DmemIdx(exm.aluout)
      <4>1. a \in DAddr
        BY <2>1, IdxInRange DEF TypeOK, ExuTypeOK, ExmType
      <4>2. ArchUndo = [addr |-> a, val |-> dmem[a]]
        BY <3>1 DEF ArchUndo
      <4>3. ArchMem = [dmem EXCEPT ![a] = exm.muxb]
        BY <3>1 DEF ArchMem
      <4>4. ArchUndo # Errata!Arch!NoUndo
        BY <4>1, <4>2, SizesAssumption DEF Errata!Arch!NoUndo, DAddr
      <4> HIDE DEF a
      <4>5. dmem = [ArchMem EXCEPT ![ArchUndo.addr] = ArchUndo.val]
        BY <2>5, <4>1, <4>2, <4>3
      <4> QED
        BY <2>3, <4>4, <4>5 DEF Errata!Arch!CancelStore
    <3>2. CASE ~exm.memwrite
      BY <2>3, <3>2 DEF Errata!Arch!CancelStore, Errata!Arch!NoUndo, ArchUndo, ArchMem
    <3> QED
      BY <3>1, <3>2
  <2> QED
    BY <2>2, <2>3, <2>4, <2>5, <2>6
       DEF Errata!AssertReset, Errata!Reg, Errata!Word, Reg, Word
<1>2. ASSUME IInv, ClockInReset PROVE Errata!HoldReset
  <2>1. TypeOK /\ TypeOK' /\ ResetInv /\ ResetInv'
    BY <1>2, TypeReset, ResetStep DEF IInv, ClockInReset
  <2>2. /\ ~rst_n /\ rst_n' = rst_n /\ imem' = imem /\ X' = [r \in Reg |-> 0]
        /\ pc_prev' = 0 /\ dmem' = dmem
    BY <1>2, <2>1
       DEF ClockInReset, IfuClockInReset, IduClockInReset, MemuClockInReset,
           DmemClock, ResetInv, IfuInReset, ExmZero
  <2>3. /\ ArchMem = dmem /\ ArchUndo = Errata!Arch!NoUndo
        /\ ArchFetch = <<pc_prev, 0, 4, 8>>
    BY <2>1, NothingInFlight, FetchInReset DEF ResetInv
  <2>4. /\ ArchRegs' = X' /\ ArchMem' = dmem' /\ ArchUndo' = Errata!Arch!NoUndo
        /\ ArchFetch' = <<pc_prev', 0, 4, 8>>
    BY <1>a, <1>b, <2>1 DEF ResetInv, ExmZero, MwbZero, CtrlZero, Errata!Arch!NoUndo
  <2> QED
    BY <2>2, <2>3, <2>4, SameWords DEF Errata!HoldReset, Errata!slots
<1>3. ASSUME IInv, ReleaseReset PROVE Errata!ReleaseReset
  <2>1. TypeOK /\ ResetInv /\ Cleared
    BY <1>3, SizesAssumption DEF IInv, TypeOK, ResetInv, ReleaseReset
  <2>2. ~rst_n /\ rst_n' /\ UNCHANGED <<ifu_vars, idu_vars, exm, memu_vars>>
    BY <1>3 DEF ReleaseReset
  <2>3. /\ ArchRegs' = ArchRegs /\ ArchMem' = ArchMem /\ ArchUndo' = ArchUndo
        /\ ArchFetch' = ArchFetch /\ imem' = imem
    BY <2>2 DEF ifu_vars, idu_vars, memu_vars, ArchRegs, ArchMem, ArchUndo,
                ArchFetch, ExmValue, WriteData, IdexLive, IfidLive
  <2>4. ArchRegs = X /\ ArchFetch = <<pc_prev, 0, 4, 8>>
    BY <2>1, NothingInFlight, FetchInReset DEF ResetInv
  <2> QED
    BY <2>1, <2>2, <2>3, <2>4, SameWords
       DEF Errata!ReleaseReset, Errata!slots, Cleared
<1> QED
  BY <1>1, <1>2, <1>3

(* Every behaviour of the pipeline, with any program, ALU, size and number *)
(* of resets, is a behaviour of the sequential machine RvErrata.           *)
THEOREM Refinement == Spec => ErrataSpec
<1>1. IInv /\ [Next]_vars => [Errata!Next]_(Errata!vars)
  <2> SUFFICES ASSUME IInv, [Next]_vars PROVE [Errata!Next]_(Errata!vars)
    OBVIOUS
  <2>1. CASE Next
    BY <2>1, ClockExecutes, ClockCommits, ResetRefines DEF Next, Errata!Next
  <2>2. CASE UNCHANGED vars
    BY <2>2 DEF vars, ifu_vars, idu_vars, memu_vars, ArchRegs, ArchMem, ArchUndo,
                ArchFetch, ExmValue, WriteData, IdexLive, IfidLive, Errata!vars,
                Errata!slots
  <2> QED
    BY <2>1, <2>2
<1> QED
  BY RefineInit, <1>1, Inductive, PTL DEF Spec, ErrataSpec, Errata!Spec

(***************************************************************************)
(* Programs that keep away from the errata.                                *)
(***************************************************************************)

(* The fetch queue is straight, but for address 0 coming twice after reset.*)
Straight(q) == /\ q[2] = Add(q[1], 4) /\ q[3] = Add(q[2], 4)
               /\ q[4] = Add(q[3], 4)

Boot == <<0, 0, 4, 8>>

QueueInv == rst_n => Straight(ArchFetch) \/ ArchFetch = Boot

CleanInv == IInv /\ imem \in Programs /\ QueueInv

(* The two abstract machines have the same arithmetic and instruction      *)
(* effects.                                                                *)
LEMMA SameArch ==
  /\ \A x, y : Arch!Add(x, y) = Add(x, y)
  /\ \A i, p : Arch!Redirects(i) = Errata!Arch!Redirects(i)
              /\ Arch!Target(i, p) = Errata!Arch!Target(i, p)
              /\ Arch!Exec(i, p) = Errata!Arch!Exec(i, p)
  /\ \A a : Arch!ImemIdx(a) = ImemIdx(a)
  /\ Arch!NoUndo = Errata!Arch!NoUndo /\ Arch!ZeroRegs = Errata!Arch!ZeroRegs
  /\ Arch!CancelStore = Errata!Arch!CancelStore
  /\ Arch!Reg = Reg /\ Arch!Word = Word
BY DEF Arch!Add, Errata!Arch!Add, Add, Arch!Redirects, Errata!Arch!Redirects,
       Arch!Target, Errata!Arch!Target, Arch!EffAddr, Errata!Arch!EffAddr,
       Arch!ClearBit0, Errata!Arch!ClearBit0, Arch!Exec, Errata!Arch!Exec,
       Arch!WritesRd, Errata!Arch!WritesRd, Arch!Result, Errata!Arch!Result,
       Arch!DmemIdx, Errata!Arch!DmemIdx, Arch!ImemIdx, ImemIdx,
       Arch!NoUndo, Errata!Arch!NoUndo, Arch!ZeroRegs, Errata!Arch!ZeroRegs,
       Arch!Reg, Errata!Arch!Reg, Reg, Arch!Word, Word,
       Arch!CancelStore, Errata!Arch!CancelStore

(* A straight queue stays straight, and executes the next instruction in   *)
(* program order.                                                          *)
LEMMA StraightStep ==
  ASSUME CleanInv, rst_n, Errata!Execute, Straight(ArchFetch),
         \A m \in Programs : AvoidsErrata(m)
  PROVE  Straight(ArchFetch)' /\ Arch!Execute
<1> DEFINE p == ArchFetch[1]
           i == imem[ImemIdx(p)]
<1>1. p \in Word /\ AvoidsErrata(imem)
  <2>1. TypeOK
    BY DEF CleanInv, IInv
  <2>2. ArchFetch[1] \in Word
    BY <2>1, WordArith DEF TypeOK, IfuTypeOK, IduTypeOK, IdexType, ArchFetch
  <2> QED
    BY <2>2 DEF CleanInv
<1>2. ~Errata!LoadUse(i)
  BY <1>1, SameWords DEF AvoidsErrata, Errata!LoadUse, Straight
<1> HIDE DEF p
<1>3. /\ Errata!Arch!Exec(i, p) /\ UNCHANGED <<rst_n, imem>>
      /\ IF Errata!Arch!Redirects(i) THEN Errata!FetchAt(Errata!Arch!Target(i, p))
                                    ELSE Errata!Advance(Errata!LoadUse(i))
  BY SameWords DEF Errata!Execute, p
<1>4. CASE Errata!Arch!Redirects(i)
  <2>1. /\ ArchFetch'[1] = Errata!Arch!Target(i, p)
        /\ Straight(ArchFetch')
    BY <1>3, <1>4, SameWords DEF Errata!FetchAt, Straight
  <2> QED
    BY <1>3, <1>4, <2>1, SameArch DEF Arch!Execute, Straight, p
<1>5. CASE ~Errata!Arch!Redirects(i)
  <2>1. /\ ArchFetch'[1] = Add(p, 4)
        /\ Straight(ArchFetch')
    BY <1>2, <1>3, <1>5, SameWords DEF Errata!Advance, Straight, p
  <2> QED
    BY <1>3, <1>5, <2>1, SameArch DEF Arch!Execute, Straight, p
<1> QED
  BY <1>4, <1>5

(* The first of the two executions of address 0 has no effect.             *)
LEMMA BootStep ==
  ASSUME CleanInv, rst_n, Errata!Execute, ArchFetch = Boot,
         \A m \in Programs : AvoidsErrata(m)
  PROVE  Straight(ArchFetch)' /\ Arch!CommitStore
<1> DEFINE i == imem[ImemIdx(0)]
<1>1. i.op \in {"R", "I", "LUI", "AUIPC"} /\ i.rd = 0
  BY DEF CleanInv, AvoidsErrata
<1>2. ArchFetch[1] = 0 /\ ArchFetch[2] = 0 /\ ArchFetch[3] = 4 /\ ArchFetch[4] = 8
  BY DEF Boot
<1>3. /\ Errata!Arch!Exec(i, 0) /\ UNCHANGED <<rst_n, imem>>
      /\ IF Errata!Arch!Redirects(i) THEN Errata!FetchAt(Errata!Arch!Target(i, 0))
                                    ELSE Errata!Advance(Errata!LoadUse(i))
  BY <1>2, SameWords DEF Errata!Execute
<1> HIDE DEF i
<1>4. ~Errata!Arch!Redirects(i) /\ ~Errata!LoadUse(i) /\ ~Errata!Arch!WritesRd(i)
  BY <1>1 DEF Errata!Arch!Redirects, Errata!LoadUse, Errata!Arch!WritesRd
<1>5. ArchRegs' = ArchRegs /\ ArchMem' = ArchMem /\ ArchUndo' = Errata!Arch!NoUndo
  BY <1>1, <1>3, <1>4 DEF Errata!Arch!Exec
<1>6. /\ ArchFetch'[1] = 0 /\ ArchFetch'[2] = 4 /\ ArchFetch'[3] = 8
      /\ ArchFetch'[4] = Add(8, 4)
  BY <1>2, <1>3, <1>4, SameWords DEF Errata!Advance
<1>7. Straight(ArchFetch)'
  BY <1>6, SizesAssumption DEF Straight, Add
<1> QED
  BY <1>2, <1>3, <1>5, <1>6, <1>7, SameArch DEF Arch!CommitStore

(* To programs that keep away from the errata the processor is the         *)
(* architecture, one instruction after the other.                          *)
THEOREM IsaRefinement ==
  ASSUME \A m \in Programs : AvoidsErrata(m)
  PROVE  Spec => IsaSpec
<1>1. Init => CleanInv /\ Arch!Init
  <2> SUFFICES ASSUME Init PROVE QueueInv /\ imem \in Programs /\ Arch!Init
    BY InitIInv DEF CleanInv
  <2>1. Errata!Init /\ rst_n = FALSE /\ imem \in Programs
    BY RefineInit DEF Init, IfuInit
  <2> QED
    BY <2>1, SameArch DEF QueueInv, Arch!Init, Errata!Init, Arch!IAddr, Errata!IAddr,
       Arch!DAddr, Errata!DAddr, Errata!Reg, Errata!Word, Reg, Word
<1>2. CleanInv /\ [Next]_vars => CleanInv' /\ [Arch!Next]_(Arch!vars)
  <2> SUFFICES ASSUME CleanInv, [Next]_vars
               PROVE  QueueInv' /\ imem' = imem /\ [Arch!Next]_(Arch!vars)
    BY NextIInv DEF CleanInv
  <2>1. CASE Clock /\ IdexLive
    <3>1. Errata!Execute /\ rst_n /\ imem' = imem
      BY <2>1, ClockExecutes DEF CleanInv, Clock, IfuClock
    <3> QED
      BY <3>1, StraightStep, BootStep DEF CleanInv, QueueInv, Arch!Next
  <2>2. CASE Clock /\ ~IdexLive
    <3>1. Errata!CommitStore /\ rst_n /\ imem' = imem /\ ArchFetch' = ArchFetch
      BY <2>2, ClockCommits, FetchUnmoved DEF CleanInv, Clock, IfuClock
    <3>2. Arch!CommitStore
      BY <3>1, SameArch DEF Errata!CommitStore, Arch!CommitStore
    <3> QED
      BY <3>1, <3>2 DEF CleanInv, QueueInv, Straight, Arch!Next
  <2>3. CASE AssertReset
    <3>1. Errata!AssertReset
      BY <2>3, ResetRefines DEF CleanInv
    <3>2. Arch!AssertReset /\ imem' = imem /\ ~rst_n'
      BY <3>1, SameArch
         DEF Errata!AssertReset, Arch!AssertReset, Errata!Reg, Errata!Word, Reg, Word
    <3> QED
      BY <3>2 DEF QueueInv, Arch!Next
  <2>4. CASE ClockInReset
    <3>1. Errata!HoldReset
      BY <2>4, ResetRefines DEF CleanInv
    <3>2. Arch!HoldReset /\ imem' = imem /\ ~rst_n'
      BY <3>1, SameArch DEF Errata!HoldReset, Arch!HoldReset
    <3> QED
      BY <3>2 DEF QueueInv, Arch!Next
  <2>5. CASE ReleaseReset
    <3>1. Errata!ReleaseReset /\ imem' = imem
      BY <2>5, ResetRefines
         DEF CleanInv, ReleaseReset, ifu_vars
    <3>2. Arch!ReleaseReset
      BY <3>1, SameArch DEF Errata!ReleaseReset, Arch!ReleaseReset, Errata!slots
    <3>3. ArchFetch' = Boot
      <4>1. IfuInReset /\ idex_c = CtrlZero /\ pc_prev = 0
        BY <2>5, SizesAssumption DEF CleanInv, IInv, TypeOK, ResetInv, Cleared,
                                     ReleaseReset
      <4>2. ArchFetch = Boot
        BY <4>1, FetchInReset DEF Boot
      <4>3. ArchFetch' = ArchFetch
        BY <2>5 DEF ReleaseReset, ifu_vars, idu_vars, ArchFetch, IdexLive, IfidLive
      <4> QED
        BY <4>2, <4>3
    <3> QED
      BY <3>1, <3>2, <3>3 DEF QueueInv, Arch!Next
  <2>6. CASE UNCHANGED vars
    BY <2>6 DEF CleanInv, QueueInv, Straight, vars, ifu_vars, idu_vars, memu_vars,
                ArchRegs, ArchMem, ArchUndo, ArchFetch, ExmValue, WriteData, IdexLive,
                IfidLive, Arch!vars
  <2> QED
    BY <2>1, <2>2, <2>3, <2>4, <2>5, <2>6 DEF Next
<1> QED
  BY <1>1, <1>2, PTL DEF Spec, IsaSpec, Arch!Spec

=============================================================================
