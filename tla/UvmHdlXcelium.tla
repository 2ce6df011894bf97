---------------------------- MODULE UvmHdlXcelium ----------------------------
(***************************************************************************)
(* The Xcelium backend of the HDL backdoor, uvm_hdl_xcelium.c.  Names are  *)
(* resolved by the VHPI for both languages; ranges are taken apart here    *)
(* and their bits looked up as Verilog objects.                            *)
(***************************************************************************)
EXTENDS UvmHdlSim

(* vhpi_handle_by_name: [k] is an index in Verilog only.                   *)
XGetObjectHandle(p) ==
  p.kind # "part" /\ Complete(p) /\ (p.kind = "bit" => lang = "vlog")

XIsValidPathSlice(p) == p.kind = "part"

(* Faulty variant: the loop goes on behind a missing bit.                  *)
XSetVlogPartselGoesOn(p, v, flag) ==
  LET T == {b \in Bits : lang = "vlog" /\ p.known /\ Selects(p, b)} IN
  /\ PutBits(T, [b \in T |-> v[IndexOf(p, b)]], flag)
  /\ Answer(IF lang = "vlog" /\ Complete(p) THEN 1 ELSE 0)

(* Bit by bit up to the first one missing, whose predecessors stay written. *)
XSetVlogPartsel(p, v, flag) ==
  LET T == {b \in Bits : lang = "vlog" /\ Touches(p, b)} IN
  /\ PutBits(T, [b \in T |-> v[IndexOf(p, b)]], flag)
  /\ Answer(IF lang = "vlog" /\ Complete(p) THEN 1 ELSE 0)

(* Bit by bit up to the first one missing.                                 *)
XGetVlogPartsel(p, base) ==
  LET there(i) == lang = "vlog" /\ Reached(p, i) IN
  /\ value' = [k \in Positions |->
                 IF k < Width(p) /\ there(k) THEN sig[BitAt(p, k)] ELSE base[k]]
  /\ Answer(IF there(Width(p) - 1) THEN 1 ELSE 0)

XSetVlog(p, v, flag) ==
  LET T == {b \in Bits : Selects(p, b)} IN
  /\ PutBits(T, [b \in T |-> v[IndexOf(p, b)]], flag)
  /\ Answer(1)

XGetVlog(p) ==
  \/ /\ Width(p) > MaxWidth
     /\ Failed /\ UNCHANGED value
  \/ /\ Width(p) <= MaxWidth
     /\ value' = CopyWords(Width(p), [k \in 0 .. Width(p) - 1 |-> sig[BitAt(p, k)]], value)
     /\ Answer(1)

(* vhpi2val joins aval and bval with the logical operators of C: its index *)
(* is 1, and the bit '1', as soon as aval has the bit or the rest of bval, *)
(* shifted left, is not zero; it is never 'x' or 'z'.  bval is signed, so  *)
(* its top bit stays in it while it is shifted right.                      *)
XBvalLeft(v, k) ==
  \E m \in k .. ChunkBits * (Chunk(k) + 1) - 1 :
     /\ m \in Positions /\ v[m] \in {"x", "z"}
     /\ ~(k = ChunkBits * Chunk(k) /\ m = k + ChunkBits - 1)
XVhpi2Val(v, k) == IF v[k] \in {"1", "x"} \/ XBvalLeft(v, k) THEN "1" ELSE "0"

XSetVhdl(p, v, flag) ==
  /\ PutBits(Bits, [b \in Bits |-> XVhpi2Val(v, b)], flag)
  /\ Answer(1)

(* Every word is cleared, then the characters are shifted in from the left *)
(* of the array.  U, W and X read as x; L and - as 0; H as 1: "h" is any   *)
(* of them (weak).  The buffer the characters are in is freed after the    *)
(* first word: later words hold what the freed memory holds (junk).        *)
XGetVhdl(p, weak, junk) ==
  LET char == [c \in Bits |->
                 IF c >= ChunkBits THEN junk
                 ELSE IF sig[W - 1 - c] = "h" THEN weak ELSE sig[W - 1 - c]]
  IN  /\ value' = ShiftWords(W, char, [k \in Positions |-> "0"])
      /\ Answer(1)

-----------------------------------------------------------------------------
(* The calls of uvm_hdl.svh.  A name without a handle leaves the variable  *)
(* language uninitialised: each branch of the switch then returns 0.       *)

XCheckPath(p) ==
  /\ Answer(IF XGetObjectHandle(p) THEN 1 ELSE 0)
  /\ UNCHANGED <<sig, frc, value, partsel>>

XGet(p, weak, junk) ==
  IF ~XGetObjectHandle(p) THEN Failed /\ UNCHANGED value
  ELSE IF lang = "vlog" THEN XGetVlog(p) ELSE XGetVhdl(p, weak, junk)

XRead(p, weak, junk) ==
  /\ IF XIsValidPathSlice(p) THEN XGetVlogPartsel(p, ClearWords(value))
     ELSE XGet(p, weak, junk)
  /\ UNCHANGED <<sig, frc, partsel>>

XSet(p, v, flag) ==
  /\ IF XIsValidPathSlice(p) THEN XSetVlogPartsel(p, v, flag)
     ELSE IF ~XGetObjectHandle(p) THEN Failed /\ UNCHANGED simVars
     ELSE IF lang = "vlog" THEN XSetVlog(p, v, flag) ELSE XSetVhdl(p, v, flag)
  /\ UNCHANGED <<value, partsel>>
XDeposit(p, v) == XSet(p, v, "deposit")
XForce(p, v) == XSet(p, v, "force")
XRelease(p) == XSet(p, value, "release")

(* A released range is read through a path that has been cut down to its   *)
(* last bit and is no range any more: the vector is cleared and the call   *)
(* returns 0, whatever was released.                                       *)
XReleaseAndRead(p, weak, junk) ==
  /\ UNCHANGED <<sig, partsel>>
  /\ IF XIsValidPathSlice(p)
     THEN /\ frc' = frc \ {b \in Bits : lang = "vlog" /\ Touches(p, b)}
          /\ value' = ClearWords(value)
          /\ Failed
     ELSE /\ frc' = frc \ {b \in Bits : XGetObjectHandle(p) /\ Selects(p, b)}
          /\ XGet(p, weak, junk)
=============================================================================
