------------------------------ MODULE UvmHdlSim ------------------------------
(***************************************************************************)
(* What the HDL backdoor of the UVM DPI library (src/lib/uvm/.../src/dpi/  *)
(* uvm_hdl_*.c) sees of the simulator it is linked into: one object of the *)
(* design under test, the names the simulator resolves, the calls that put *)
(* a value on it, and the vector of aval/bval words a value travels in.    *)
(* A simulator is not part of this repository: these definitions say what  *)
(* the C code relies on, and are the only external ones of the backdoor.   *)
(*                                                                         *)
(* A vector is a function from bit positions to four-state values, and a   *)
(* word of it ("chunk") is ChunkBits consecutive positions: 32 in the code.*)
(* A VHDL object may also hold "h", which stands for the five std_logic    *)
(* values that are none of 0, 1, X and Z.                                  *)
(***************************************************************************)
EXTENDS Integers

CONSTANTS
  Widths,     \* the widths the object may have
  ChunkBits,  \* bits of one word of a vector
  MaxWidth,   \* UVM_HDL_MAX_WIDTH: positions of the caller's vector
  Paths,      \* the paths callers use
  Deposits,   \* the vectors callers pass to a write
  Drives      \* the values the design itself gives the object (its low bits)

Logic == {"0", "1", "x", "z"}
Positions == 0 .. MaxWidth - 1
Vector == [Positions -> Logic]
Levels == Logic \cup {"h"}

(* A path: a name the simulator knows or not, alone, with one index (rhs)  *)
(* or with a range [lhs:rhs].                                              *)
Path == [known : BOOLEAN, kind : {"whole", "bit", "part"}, lhs : Nat, rhs : Nat]

ASSUME WidthsAssumption == MaxWidth \in Nat /\ Widths \subseteq 1 .. MaxWidth
ASSUME ChunkBitsAssumption == ChunkBits \in Nat \ {0}
ASSUME PathsAssumption == Paths \subseteq Path
ASSUME DepositsAssumption == Deposits \subseteq Vector
ASSUME DrivesAssumption == Drives \subseteq [Positions -> Levels]

VARIABLES
  backend,  \* the vendor file uvm_hdl.c includes
  lang,     \* the language the object is written in
  W,        \* its width
  sig,      \* the object's value, bit by bit
  frc,      \* its bits that are forced
  value,    \* the caller's vector, which a read fills
  partsel,  \* the static flag of uvm_hdl_questa.c
  ret       \* what the last call returned

simVars == <<sig, frc>>
config == <<backend, lang, W>>
Bits == 0 .. W - 1

-----------------------------------------------------------------------------
(* The bits a path selects: the i-th of them is the one that travels at    *)
(* position i of a vector.  Ranges run from rhs to lhs, either way.        *)

Incr(p) == IF p.lhs > p.rhs THEN 1 ELSE -1
Width(p) == CASE p.kind = "whole" -> W
              [] p.kind = "bit"   -> 1
              [] OTHER           -> (p.lhs - p.rhs) * Incr(p) + 1
BitAt(p, i) == IF p.kind = "whole" THEN i ELSE p.rhs + i * Incr(p)
IndexOf(p, b) == IF p.kind = "whole" THEN b ELSE (b - p.rhs) * Incr(p)
Selects(p, b) == IndexOf(p, b) \in 0 .. Width(p) - 1

(* A loop over a range stops at the first bit that does not exist.         *)
Reached(p, i) == p.known /\ \A j \in 0 .. i : BitAt(p, j) \in Bits
Complete(p) == Reached(p, Width(p) - 1)
Touches(p, b) == Selects(p, b) /\ Reached(p, IndexOf(p, b))

(* vpi_handle_by_name knows Verilog names, alone or with one index;        *)
(* mti_FindSignal knows VHDL names.                                        *)
VpiHandle(p) == lang = "vlog" /\ p.kind # "part" /\ Complete(p)
FindSignal(p) == lang = "vhdl" /\ p.known

(* A put on the bits T: a deposit leaves forced bits alone, a release      *)
(* keeps the value (a reg's: uvm_hdl.svh:104-111).                         *)
PutBits(T, new, flag) ==
  /\ sig' = [b \in Bits |->
               IF b \in T /\ (flag = "force" \/ (flag = "deposit" /\ b \notin frc))
               THEN new[b] ELSE sig[b]]
  /\ frc' = IF flag = "force" THEN frc \cup T
            ELSE IF flag = "release" THEN frc \ T ELSE frc

-----------------------------------------------------------------------------
(* The words of a vector.                                                  *)

Chunk(k) == k \div ChunkBits
Chunks(n) == IF n = 0 THEN 0 ELSE (n - 1) \div ChunkBits + 1
CharsOf(j, n) == IF n < ChunkBits * (j + 1) THEN n - ChunkBits * j ELSE ChunkBits

(* Copying an n-bit object whole: its words are overwritten, the padding of *)
(* the last one with 0, and the words above it are left as they are.       *)
CopyWords(n, bit, base) ==
  [k \in Positions |-> IF k < n THEN bit[k]
                       ELSE IF Chunk(k) < Chunks(n) THEN "0" ELSE base[k]]

(* for (i = 0; i < chunks - 1; ++i) value[i] = 0: all words but the last.  *)
ClearWords(base) ==
  [k \in Positions |-> IF Chunk(k) < Chunks(MaxWidth) - 1 THEN "0" ELSE base[k]]

(* Shifting characters into words from the left: word j takes the next     *)
(* ChunkBits characters, so its last character is its bit 0.               *)
ShiftWords(n, char, base) ==
  [k \in Positions |->
     LET j == Chunk(k)
         c == ChunkBits * j + (CharsOf(j, n) - 1 - (k - ChunkBits * j))
     IN  IF j >= Chunks(n) THEN base[k]
         ELSE IF k < n THEN char[c] ELSE "0"]

(* Memory a VHDL read may see without having written it.                   *)
Junk == IF lang = "vhdl" THEN Logic ELSE {"0"}
JunkBit == Junk \cap {"0", "1"}
Weak == IF lang = "vhdl" THEN {"0", "1", "x"} ELSE {"0"}

Answer(r) == ret' = r
Failed == Answer(0)
=============================================================================
