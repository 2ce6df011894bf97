----------------------------- MODULE UvmHdlQuesta ----------------------------
(***************************************************************************)
(* The Questa backend of the HDL backdoor, uvm_hdl_questa.c: Verilog       *)
(* objects through the VPI, VHDL objects through the FLI.  Each C function *)
(* is an action of the same name; p is the path, v the caller's vector.    *)
(***************************************************************************)
EXTENDS UvmHdlSim

(* uvm_is_vhdl_path strips a select off the name before it looks it up.    *)
QIsVhdlPath(p) == FindSignal(p)

-----------------------------------------------------------------------------
(* Verilog objects.                                                        *)

(* A range is written bit by bit, and the function returns at the first    *)
(* bit that is not there: the bits before it keep their new value.         *)
QSetVlogPartsel(p, v, flag) ==
  LET T == {b \in Bits : Touches(p, b) /\ VpiHandle([p EXCEPT !.kind = "bit", !.rhs = b])}
  IN  /\ PutBits(T, [b \in T |-> v[IndexOf(p, b)]], flag)
      /\ Answer(IF \A i \in 0 .. Width(p) - 1 : BitAt(p, i) \in T THEN 1 ELSE 0)

QSetVlog(p, v, flag) ==
  \/ /\ p.kind = "part"
     /\ QSetVlogPartsel(p, v, flag)
  \/ /\ p.kind # "part" /\ ~VpiHandle(p)
     /\ Failed /\ UNCHANGED simVars
  \/ /\ VpiHandle(p)
     /\ LET T == {b \in Bits : Selects(p, b)}
        IN  PutBits(T, [b \in T |-> v[IndexOf(p, b)]], flag)
     /\ Answer(1)

(* A range is read bit by bit with partsel set, so that the nested calls   *)
(* do not clear the vector.  When a bit is missing, the bit read before it *)
(* is stored once more in its place and the flag stays set.                *)
QGetVlogPartsel(p, base) ==
  LET there(i) == lang = "vlog" /\ Reached(p, i)
      all == there(Width(p) - 1)
  IN  /\ value' = [k \in Positions |->
           IF k >= Width(p) THEN base[k]
           ELSE IF there(k) THEN sig[BitAt(p, k)]
           ELSE IF k = 0 THEN "0"
           ELSE IF there(k - 1) THEN sig[BitAt(p, k - 1)] ELSE base[k]]
      /\ partsel' = ~all
      /\ Answer(IF all THEN 1 ELSE 0)

QGetVlog(p) ==
  LET base == IF partsel THEN value ELSE ClearWords(value) IN
  \/ /\ p.kind = "part"
     /\ QGetVlogPartsel(p, base)
  \/ /\ p.kind # "part" /\ (~VpiHandle(p) \/ Width(p) > MaxWidth)
     /\ value' = base
     /\ Failed /\ UNCHANGED partsel
  \/ /\ VpiHandle(p) /\ Width(p) <= MaxWidth
     /\ value' = CopyWords(Width(p), [k \in 0 .. Width(p) - 1 |-> sig[BitAt(p, k)]], base)
     /\ Answer(1) /\ UNCHANGED partsel

-----------------------------------------------------------------------------
(* VHDL objects.                                                           *)

(* Faulty variant: every character is taken as it is.                     *)
QUncarried(s, n, junk) == s

(* string_to_vecval: a character that is none of 0, 1, x and z leaves abit *)
(* and bbit as the last character set them; before the first they hold     *)
(* whatever was on the stack (junk).                                       *)
QCarried(s, n, junk) ==
  [c \in 0 .. n - 1 |->
     LET before == {d \in 0 .. c : s[d] \in Logic} IN
     IF before = {} THEN junk
     ELSE s[CHOOSE d \in before : \A e \in before : e <= d]]
QStringToVecval(s, n, junk, base) == ShiftWords(n, QCarried(s, n, junk), base)

(* Faulty variants: the characters are in the order of the bits.           *)
QVecvalReversed(n, v) == [c \in 0 .. n - 1 |-> v[c]]
QArrayReversed == [c \in Bits |-> IF sig[c] \in Logic THEN sig[c] ELSE "-"]

(* vecval_to_string: character nbits-1-i is bit i.                         *)
QVecvalToString(n, v) == [c \in 0 .. n - 1 |-> v[n - 1 - c]]

(* vhdl_array_of_char2string: an array is written from its left bit.       *)
QArrayToString == [c \in Bits |-> IF sig[W - 1 - c] \in Logic THEN sig[W - 1 - c] ELSE "-"]

(* The selected characters, from lhs to rhs for a range.  An index past    *)
(* the array reads what lies before it in memory (junk).                   *)
QGetVhdl(p, junk) ==
  LET char(b) == IF W - 1 - b \in Bits THEN QArrayToString[W - 1 - b] ELSE junk
      s == [c \in 0 .. Width(p) - 1 |->
              CASE p.kind = "whole" -> QArrayToString[c]
                [] p.kind = "bit"   -> char(p.rhs)
                [] OTHER           -> char(p.lhs - c * Incr(p))]
  IN  /\ value' = QStringToVecval(s, Width(p), junk, value)
      /\ Answer(1)
      /\ UNCHANGED partsel

(* Faulty variant: every bit of the object is written.                     *)
QSetVhdlUnselected(p, v, flag, junk) ==
  PutBits(Bits, [b \in Bits |-> v[b]], flag) /\ Answer(1)

(* A whole object is forced with the type the caller asked for.  The bits  *)
(* of a range or an index are always deposited, as 1 or else 0; an index   *)
(* takes the bit of its own number.  A bit that is not there is skipped    *)
(* and the call succeeds all the same.  For a range wider than the object  *)
(* the string is read before its start (junk, taken as 1 or not).          *)
QSetVhdl(p, v, flag, junk) ==
  LET T == {b \in Bits : Selects(p, b)}
      two(l) == IF l = "1" THEN "1" ELSE "0"
      char == QVecvalToString(W, v)
      new == [b \in T |->
                CASE p.kind = "whole" -> char[W - 1 - b]
                  [] p.kind = "bit"   -> two(char[W - 1 - p.rhs])
                  [] OTHER           -> two(IF IndexOf(p, b) < W
                                              THEN char[W - IndexOf(p, b) - 1] ELSE junk)]
  IN  /\ PutBits(T, new, IF p.kind = "whole" \/ flag = "release" THEN flag ELSE "deposit")
      /\ Answer(1)

-----------------------------------------------------------------------------
(* The calls of uvm_hdl.svh.                                               *)

QCheckPath(p) ==
  /\ Answer(IF QIsVhdlPath(p) \/ VpiHandle(p) THEN 1 ELSE 0)
  /\ UNCHANGED <<sig, frc, value, partsel>>

QRead(p, junk) ==
  /\ IF QIsVhdlPath(p) THEN QGetVhdl(p, junk) ELSE QGetVlog(p)
  /\ UNCHANGED simVars

QSet(p, v, flag, junk) ==
  /\ IF QIsVhdlPath(p) THEN QSetVhdl(p, v, flag, junk) ELSE QSetVlog(p, v, flag)
  /\ UNCHANGED <<value, partsel>>
QDeposit(p, v, junk) == QSet(p, v, "deposit", junk)
QForce(p, v, junk) == QSet(p, v, "force", junk)
QRelease(p) == QSet(p, value, "release", "0")

(* Writing a range cuts the caller's path down to its last bit, so that    *)
(* the read that follows fetches this bit alone.                           *)
QLastBit(p) == [p EXCEPT !.kind = "bit", !.rhs = BitAt(p, Width(p) - 1)]
QReleaseAndRead(p, junk) ==
  LET T == {b \in Bits : Touches(p, b)} IN
  IF QIsVhdlPath(p)
  THEN /\ frc' = {b \in frc : ~Selects(p, b)}
       /\ QGetVhdl(p, junk)
       /\ UNCHANGED sig
  ELSE /\ frc' = IF lang = "vlog" THEN frc \ T ELSE frc
       /\ IF lang = "vlog" /\ Complete(p)
          THEN QGetVlog(IF p.kind = "part" THEN QLastBit(p) ELSE p)
          ELSE Failed /\ UNCHANGED <<value, partsel>>
       /\ UNCHANGED sig
=============================================================================
