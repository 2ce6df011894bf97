------------------------------ MODULE UvmHdlVcs ------------------------------
(***************************************************************************)
(* The VCS backend of the HDL backdoor, uvm_hdl_vcs.c, as it is compiled   *)
(* for mixed-language designs (VCSMX, without VCSMX_FAST_UVM and without   *)
(* UVM_DPI_DO_TYPE_CHECK): names are resolved by the MHPI, which tells a   *)
(* Verilog object (VPI) from a VHDL one (VHPI).                            *)
(***************************************************************************)
EXTENDS UvmHdlSim

(* mhpi_handle_by_name; a range is not a name, an index one in Verilog.    *)
VHandle(p) == p.kind # "part" /\ Complete(p) /\ (p.kind = "bit" => lang = "vlog")
VIsVpi(p) == VHandle(p) /\ lang = "vlog"
VIsVhpi(p) == VHandle(p) /\ lang = "vhdl"

VSetVlog(p, v, flag) ==
  LET T == {b \in Bits : Selects(p, b)} IN
  /\ PutBits(T, [b \in T |-> v[IndexOf(p, b)]], flag)
  /\ Answer(1)

VGetVlog(p) ==
  \/ /\ Width(p) > MaxWidth
     /\ Failed /\ UNCHANGED value
  \/ /\ Width(p) <= MaxWidth
     /\ value' = CopyWords(Width(p), [k \in 0 .. Width(p) - 1 |-> sig[BitAt(p, k)]], value)
     /\ Answer(1)

(* uvm_hdl_get_mhdl shifts the characters of the object's string into the  *)
(* words from the top word down without clearing them first, so what a     *)
(* word held moves up.  The top word takes the characters left over from   *)
(* whole words, but the string is always advanced by a whole word.  A      *)
(* character past the string's end, like any other than 0, 1 and Z, is x.  *)
VTop(n) == n - ChunkBits * (Chunks(n) - 1)
VCharAt(c) == IF c \notin Bits THEN "x"
              ELSE IF sig[W - 1 - c] = "h" THEN "x" ELSE sig[W - 1 - c]
VGetMhdl ==
  LET max == Chunks(W)
      new(k) == LET j == Chunk(k)
                    n == IF j = max - 1 THEN VTop(W) ELSE ChunkBits
                    m == k - ChunkBits * j
                    first == ChunkBits * (max - 1 - j)
                IN  IF j >= max THEN value[k]
                    ELSE IF m < n THEN VCharAt(first + n - 1 - m)
                    ELSE value[k - n]
  IN  \/ /\ W > MaxWidth
         /\ Failed /\ UNCHANGED value
      \/ /\ W <= MaxWidth
         /\ value' = [k \in Positions |-> new(k)]
         /\ Answer(1)

(* uvm_hdl_dtob: the digits of aval, all of them for a lower word, from    *)
(* the leading 1 on for the top word.  x counts as 1 and z as 0.           *)
VDigit(v, k) == IF k \in Positions /\ v[k] \in {"1", "x"} THEN "1" ELSE "0"
VDigits(v, j) ==
  LET ones == {m \in 0 .. ChunkBits - 1 : VDigit(v, ChunkBits * j + m) = "1"} IN
  IF ones = {} THEN 1 ELSE 1 + CHOOSE m \in ones : \A o \in ones : o <= m

(* uvm_hdl_set_mhdl keeps the first digits of the top word, as many as the *)
(* object has bits in it.  When the top word has fewer digits the string   *)
(* is shorter than the object; the simulator then either refuses it or     *)
(* takes it for the object's low bits (fits).                              *)
VSetMhdl(v, flag, fits) ==
  LET top == Chunks(W) - 1
      digits == VDigits(v, top)
      taken == IF digits < VTop(W) THEN digits ELSE VTop(W)
      new(b) == LET m == b - ChunkBits * top IN
                IF m < 0 THEN VDigit(v, b)
                ELSE IF m < taken THEN VDigit(v, b + digits - taken) ELSE "0"
  IN  IF taken = VTop(W) \/ fits
      THEN PutBits(Bits, [b \in Bits |-> new(b)], flag) /\ Answer(1)
      ELSE Failed /\ UNCHANGED simVars

-----------------------------------------------------------------------------
(* The calls of uvm_hdl.svh.                                               *)

VCheckPath(p) ==
  /\ Answer(IF VHandle(p) THEN 1 ELSE 0)
  /\ UNCHANGED <<sig, frc, value, partsel>>

(* A name without a handle takes neither branch of uvm_hdl_read, which     *)
(* then ends without a return statement: the answer is whatever is in the  *)
(* result register (junk).                                                 *)
VRead(p, junk) ==
  /\ \/ VIsVpi(p) /\ VGetVlog(p)
     \/ VIsVhpi(p) /\ VGetMhdl
     \/ ~VHandle(p) /\ Answer(junk) /\ UNCHANGED value
  /\ UNCHANGED <<sig, frc, partsel>>

VSet(p, v, flag, fits) ==
  /\ \/ VIsVpi(p) /\ VSetVlog(p, v, flag)
     \/ VIsVhpi(p) /\ VSetMhdl(v, flag, fits)
     \/ ~VHandle(p) /\ Failed /\ UNCHANGED simVars
  /\ UNCHANGED <<value, partsel>>
VDeposit(p, v, fits) == VSet(p, v, "deposit", fits)
VForce(p, v, fits) == VSet(p, v, "force", fits)

(* Faulty variant: nothing is released.                                    *)
VReleaseIgnored(p) ==
  Answer(IF VHandle(p) THEN 1 ELSE 0) /\ UNCHANGED <<sig, frc, value, partsel>>

(* Both release calls lift the force and read nothing.                     *)
VRelease(p) ==
  /\ frc' = frc \ {b \in Bits : VHandle(p) /\ Selects(p, b)}
  /\ Answer(IF VHandle(p) THEN 1 ELSE 0)
  /\ UNCHANGED <<sig, value, partsel>>
VReleaseAndRead(p) == VRelease(p)
=============================================================================
