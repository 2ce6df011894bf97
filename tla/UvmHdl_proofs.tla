---------------------------- MODULE UvmHdl_proofs ----------------------------
(***************************************************************************)
(* The promises of the HDL backdoor for every object, path, vector, word   *)
(* size and vendor file.  Each is a property of single steps, under the    *)
(* invariant that the object and the vector hold what they may hold; what  *)
(* has to be seen is that each conversion of each backend, whole, bit by   *)
(* bit over a range, by words, or through a string of a VHDL array and     *)
(* back, keeps the bits where they belong.                                 *)
(***************************************************************************)
EXTENDS UvmHdl, NaturalsInduction, WellFoundedInduction, TLAPS

-----------------------------------------------------------------------------
(* Paths.  The object has bits, and a path is one of the three kinds.      *)
LEMMA WidthIs ==
  ASSUME W \in Widths
  PROVE  /\ W \in Nat /\ W >= 1 /\ W <= MaxWidth /\ MaxWidth \in Nat
         /\ \A b : b \in Bits <=> (b \in Int /\ 0 <= b /\ b < W)
BY WidthsAssumption DEF Bits

LEMMA PathIs ==
  ASSUME W \in Widths, NEW p \in Path
  PROVE  /\ p.known \in BOOLEAN /\ p.lhs \in Nat /\ p.rhs \in Nat
         /\ p.kind \in {"whole", "bit", "part"}
         /\ Incr(p) \in {1, -1}
         /\ p.kind = "whole" => Width(p) = W
         /\ p.kind = "bit" => Width(p) = 1
         /\ p.kind = "part" /\ Incr(p) = 1 => Width(p) = p.lhs - p.rhs + 1
         /\ p.kind = "part" /\ Incr(p) = -1 => Width(p) = p.rhs - p.lhs + 1
         /\ Width(p) \in Nat /\ Width(p) >= 1
<1>1. /\ p.known \in BOOLEAN /\ p.lhs \in Nat /\ p.rhs \in Nat
      /\ p.kind \in {"whole", "bit", "part"}
  BY DEF Path
<1>2. Incr(p) \in {1, -1}
  BY DEF Incr
<1>3. /\ p.kind = "whole" => Width(p) = W
      /\ p.kind = "bit" => Width(p) = 1
      /\ p.kind = "part" => Width(p) = (p.lhs - p.rhs) * Incr(p) + 1
  BY <1>1 DEF Width
<1>4. CASE p.kind = "part"
  <2>1. CASE p.lhs > p.rhs
    <3>1. Incr(p) = 1
      BY <2>1 DEF Incr
    <3> QED
      BY <1>1, <1>3, <1>4, <2>1, <3>1
  <2>2. CASE ~(p.lhs > p.rhs)
    <3>1. Incr(p) = -1
      BY <2>2 DEF Incr
    <3> QED
      BY <1>1, <1>3, <1>4, <2>2, <3>1
  <2> QED
    BY <2>1, <2>2
<1>5. CASE p.kind # "part"
  BY <1>1, <1>2, <1>3, <1>5, WidthIs
<1> QED
  BY <1>4, <1>5

(* BitAt and IndexOf are inverse to each other.                            *)
LEMMA BitOfIndex ==
  ASSUME W \in Widths, NEW p \in Path
  PROVE  /\ \A b \in Int : IndexOf(p, b) \in Int /\ BitAt(p, IndexOf(p, b)) = b
         /\ \A i \in Int : BitAt(p, i) \in Int /\ IndexOf(p, BitAt(p, i)) = i
         /\ p.kind = "bit" => BitAt(p, 0) = p.rhs
<1>1. p.rhs \in Nat /\ Incr(p) \in {1, -1} /\ p.kind \in {"whole", "bit", "part"}
  BY PathIs
<1>2. CASE p.kind = "whole"
  BY <1>2 DEF BitAt, IndexOf
<1>3. CASE p.kind # "whole" /\ Incr(p) = 1
  BY <1>1, <1>3 DEF BitAt, IndexOf
<1>4. CASE p.kind # "whole" /\ Incr(p) = -1
  BY <1>1, <1>4 DEF BitAt, IndexOf
<1> QED
  BY <1>1, <1>2, <1>3, <1>4

(* A selected bit is some bit of the path, and has an index in it.         *)
LEMMA SelectedIndex ==
  ASSUME W \in Widths, NEW p \in Path, NEW b, b \in Selection(p)
  PROVE  /\ p.known /\ b \in Bits /\ b \in Int /\ Selects(p, b)
         /\ IndexOf(p, b) \in 0 .. Width(p) - 1
         /\ BitAt(p, IndexOf(p, b)) = b
<1>1. p.known /\ b \in Bits /\ Selects(p, b)
  BY DEF Selection
<1>2. b \in Int
  BY <1>1, WidthIs
<1> QED
  BY <1>1, <1>2, BitOfIndex DEF Selects

(* A loop over a range gets no further than the object is wide, so that    *)
(* the range of a path it completes fits the vector.                       *)
LEMMA ReachedFits ==
  ASSUME W \in Widths, NEW p \in Path, NEW i \in Nat, Reached(p, i)
  PROVE  i < W /\ i < MaxWidth
<1>1. BitAt(p, 0) \in Bits /\ BitAt(p, i) \in Bits
  BY DEF Reached
<1>2. p.rhs \in Nat /\ Incr(p) \in {1, -1}
  BY PathIs
<1>3. CASE p.kind = "whole"
  BY <1>1, <1>3, WidthIs DEF BitAt
<1>4. CASE p.kind # "whole" /\ Incr(p) = 1
  BY <1>1, <1>2, <1>4, WidthIs DEF BitAt
<1>5. CASE p.kind # "whole" /\ Incr(p) = -1
  BY <1>1, <1>2, <1>5, WidthIs DEF BitAt
<1> QED
  BY <1>2, <1>3, <1>4, <1>5

LEMMA CompleteFits ==
  ASSUME W \in Widths, NEW p \in Path, Complete(p)
  PROVE  /\ p.known /\ Width(p) <= W /\ Width(p) <= MaxWidth
         /\ \A i \in 0 .. Width(p) - 1 : BitAt(p, i) \in Bits
<1>1. Width(p) \in Nat /\ Width(p) >= 1 /\ W \in Nat /\ MaxWidth \in Nat /\ p.known \in BOOLEAN
  BY PathIs, WidthIs
<1>2. Width(p) - 1 \in Nat
  BY <1>1
<1>3. Width(p) - 1 < W /\ Width(p) - 1 < MaxWidth
  BY <1>2, ReachedFits DEF Complete
<1> QED
  BY <1>1, <1>3 DEF Complete, Reached

-----------------------------------------------------------------------------
(* Words.  Position k is position k - ChunkBits * Chunk(k) of word Chunk(k).*)
LEMMA Division ==
  ASSUME NEW b \in Nat \ {0}, NEW k \in Nat
  PROVE  k \div b \in Nat /\ b * (k \div b) <= k /\ k < b * (k \div b) + b
OBVIOUS

LEMMA Quotient ==
  ASSUME NEW b \in Nat \ {0}, NEW j \in Nat, NEW m \in Nat, m < b
  PROVE  (b * j + m) \div b = j
OBVIOUS

LEMMA SmallQuotient ==
  ASSUME NEW b \in Nat \ {0}, NEW k \in Nat, k < b PROVE k \div b = 0
OBVIOUS

LEMMA ChunkIs ==
  ASSUME NEW k \in Nat
  PROVE  /\ Chunk(k) \in Nat /\ ChunkBits * Chunk(k) \in Nat
         /\ ChunkBits * Chunk(k) <= k /\ k < ChunkBits * Chunk(k) + ChunkBits
<1>1. ChunkBits \in Nat \ {0}
  BY ChunkBitsAssumption
<1>2. Chunk(k) \in Nat
  BY <1>1, Division DEF Chunk
<1> QED
  BY <1>1, <1>2, Division DEF Chunk

(* An object of one word.                                                  *)
LEMMA OneChunk ==
  ASSUME NEW n \in Nat, n >= 1, n <= ChunkBits
  PROVE  /\ Chunks(n) = 1 /\ CharsOf(0, n) = n
         /\ \A k \in 0 .. n - 1 : Chunk(k) = 0
<1>1. ChunkBits \in Nat \ {0}
  BY ChunkBitsAssumption
<1>2. \A k \in 0 .. n - 1 : Chunk(k) = 0
  BY <1>1, SmallQuotient DEF Chunk
<1>3. (n - 1) \div ChunkBits = 0
  BY <1>1, SmallQuotient
<1>4. Chunks(n) = 1
  BY <1>3 DEF Chunks
<1>5. CharsOf(0, n) = n
  BY <1>1 DEF CharsOf
<1> QED
  BY <1>2, <1>4, <1>5

-----------------------------------------------------------------------------
(* What the conversions return are vectors again.                          *)
LEMMA PositionIs ==
  /\ MaxWidth \in Nat
  /\ \A k : k \in Positions <=> (k \in Nat /\ k < MaxWidth)
BY WidthsAssumption DEF Positions

LEMMA ZeroIsLogic == "0" \in Logic /\ "1" \in Logic /\ "x" \in Logic
BY DEF Logic

LEMMA CopiedIsVector ==
  ASSUME NEW n \in Nat, NEW bit, NEW base \in Vector,
         \A k \in 0 .. n - 1 : bit[k] \in Logic
  PROVE  CopyWords(n, bit, base) \in Vector
<1> SUFFICES ASSUME NEW k \in Positions
             PROVE  (IF k < n THEN bit[k]
                     ELSE IF Chunk(k) < Chunks(n) THEN "0" ELSE base[k]) \in Logic
  BY DEF CopyWords, Vector
<1>1. k \in Nat /\ base[k] \in Logic
  BY PositionIs DEF Vector
<1> QED
  BY <1>1, ZeroIsLogic

LEMMA ClearedIsVector ==
  ASSUME NEW base \in Vector PROVE ClearWords(base) \in Vector
<1> SUFFICES ASSUME NEW k \in Positions
             PROVE  (IF Chunk(k) < Chunks(MaxWidth) - 1 THEN "0" ELSE base[k]) \in Logic
  BY DEF ClearWords, Vector
<1>1. base[k] \in Logic
  BY DEF Vector
<1> QED
  BY <1>1, ZeroIsLogic

(* Position k of a shifted vector comes from the character CharOf(k, n) of *)
(* the n, which is one of them.                                            *)
CharOf(k, n) ==
  ChunkBits * Chunk(k) + (CharsOf(Chunk(k), n) - 1 - (k - ChunkBits * Chunk(k)))

LEMMA ShiftsFrom ==
  ASSUME NEW n \in Nat, NEW k \in Nat, k < n
  PROVE  CharOf(k, n) \in 0 .. n - 1
<1> DEFINE first == ChunkBits * Chunk(k)
<1>1. first \in Nat /\ first <= k /\ k < first + ChunkBits /\ ChunkBits \in Nat
  BY ChunkIs, ChunkBitsAssumption
<1>2. Chunk(k) \in Nat
  BY ChunkIs
<1>3. ChunkBits * (Chunk(k) + 1) = first + ChunkBits
  BY <1>1, <1>2
<1>4. CharOf(k, n) = first + (CharsOf(Chunk(k), n) - 1 - (k - first))
  BY DEF CharOf
<1>5. CharsOf(Chunk(k), n) = IF n < first + ChunkBits THEN n - first ELSE ChunkBits
  BY <1>3 DEF CharsOf
<1>6. CASE n < first + ChunkBits
  <2>1. CharsOf(Chunk(k), n) = n - first
    BY <1>5, <1>6
  <2> HIDE DEF first
  <2>2. CharOf(k, n) = first + ((n - first) - 1 - (k - first))
    BY <1>4, <2>1
  <2> QED
    BY <1>1, <2>2
<1>7. CASE ~(n < first + ChunkBits)
  <2>1. CharsOf(Chunk(k), n) = ChunkBits
    BY <1>5, <1>7
  <2> HIDE DEF first
  <2>2. CharOf(k, n) = first + (ChunkBits - 1 - (k - first))
    BY <1>4, <2>1
  <2> QED
    BY <1>1, <1>7, <2>2
<1> QED
  BY <1>6, <1>7

LEMMA ShiftedIsVector ==
  ASSUME NEW n \in Nat, NEW char, NEW base \in Vector,
         \A c \in 0 .. n - 1 : char[c] \in Logic
  PROVE  ShiftWords(n, char, base) \in Vector
<1> SUFFICES ASSUME NEW k \in Positions
             PROVE  (IF Chunk(k) >= Chunks(n) THEN base[k]
                     ELSE IF k < n THEN char[CharOf(k, n)] ELSE "0") \in Logic
  BY DEF ShiftWords, CharOf, Vector
<1>1. k \in Nat /\ base[k] \in Logic
  BY PositionIs DEF Vector
<1>2. k < n => char[CharOf(k, n)] \in Logic
  BY <1>1, ShiftsFrom
<1> QED
  BY <1>1, <1>2, ZeroIsLogic

(* A set of numbers has a least one; one of numbers up to c has a last.   *)
LEMMA LeastIndex ==
  ASSUME NEW T, T \subseteq Nat, T # {} PROVE \E x \in T : \A y \in T : x <= y
<1> DEFINE R == OpToRel(<, Nat)
<1>1. IsWellFoundedOn(R, Nat)
  BY NatLessThanWellFounded
<1>2. \A x, y \in Nat : x < y => <<x, y>> \in R
  BY DEF OpToRel
<1> HIDE DEF R
<1>3. PICK x \in T : \A y \in T : ~(<<y, x>> \in R)
  BY <1>1, WFMin
<1>4. ASSUME NEW y \in T PROVE x <= y
  <2>1. ~(y < x)
    BY <1>2, <1>3
  <2> QED
    BY <2>1
<1> QED
  BY <1>4

LEMMA LastOf ==
  ASSUME NEW c \in Nat, NEW S \in SUBSET (0 .. c), S # {}
  PROVE  \E d \in S : \A e \in S : e <= d
<1> DEFINE R == {c - d : d \in S}
<1>0. S \subseteq Int /\ c \in Int
  OBVIOUS
<1>1. R \subseteq Nat /\ R # {}
  <2>1. \A d \in S : c - d \in Nat
    OBVIOUS
  <2>2. \E d \in S : c - d \in R
    OBVIOUS
  <2> QED
    BY <2>1, <2>2
<1>2. PICK r \in R : \A x \in R : r <= x
  BY <1>1, LeastIndex
<1>3. PICK d \in S : r = c - d
  OBVIOUS
<1>4. \A e \in S : c - d <= c - e
  BY <1>2, <1>3
<1>5. \A e \in S : e <= d
  BY <1>0, <1>4
<1> QED
  BY <1>5

(* string_to_vecval carries the last of 0, 1, x and z on.                  *)
LEMMA CarriedIsLogic ==
  ASSUME NEW s, NEW n \in Nat, NEW junk \in Logic
  PROVE  \A c \in 0 .. n - 1 : QCarried(s, n, junk)[c] \in Logic
<1> SUFFICES ASSUME NEW c \in 0 .. n - 1 PROVE QCarried(s, n, junk)[c] \in Logic
  OBVIOUS
<1> DEFINE until(x) == {d \in 0 .. x : s[d] \in Logic}
           last(x) == CHOOSE d \in until(x) : \A e \in until(x) : e <= d
           f == [x \in 0 .. n - 1 |-> IF until(x) = {} THEN junk ELSE s[last(x)]]
           before == until(c)
<1>0. QCarried(s, n, junk) = f
  BY Zenon DEF QCarried
<1>1. f[c] = IF before = {} THEN junk ELSE s[last(c)]
  <2> HIDE DEF last, until
  <2> QED
    OBVIOUS
<1>2. ASSUME before # {} PROVE last(c) \in before
  <2>1. before \in SUBSET (0 .. c) /\ c \in Nat
    OBVIOUS
  <2> HIDE DEF until
  <2>2. \E d \in before : \A e \in before : e <= d
    BY <1>2, <2>1, LastOf
  <2> QED
    BY <2>2
<1>3. before # {} => s[last(c)] \in Logic
  BY <1>2
<1> HIDE DEF last, f
<1> QED
  BY <1>0, <1>1, <1>3

-----------------------------------------------------------------------------
(* The invariant: types, and that a Verilog object never holds "h".  The   *)
(* reads of the Verilog functions copy the object's levels as they are.    *)
SigInv == lang = "vlog" => sig \in [Bits -> Logic]
HdlInv == TypeOK /\ SigInv

SignalsTyped ==
  /\ sig' \in [Bits -> Levels] /\ frc' \in SUBSET Bits
  /\ lang = "vlog" => sig' \in [Bits -> Logic]
ValueTyped == value' \in Vector /\ partsel' \in BOOLEAN
RetTyped == ret' \in {0, 1}

(* What may be put on an object.                                           *)
Level == IF lang = "vlog" THEN Logic ELSE Levels

LEMMA SigIs ==
  ASSUME HdlInv
  PROVE  /\ sig \in [Bits -> Levels] /\ frc \in SUBSET Bits
         /\ lang = "vlog" => \A b \in Bits : sig[b] \in Logic
         /\ \A b \in Bits : sig[b] # "h" => sig[b] \in Logic
         /\ value \in Vector /\ W \in Widths
BY DEF HdlInv, TypeOK, SigInv, Levels

LEMMA LogicIsLevel == \A l \in Logic : l \in Level /\ l \in Levels
BY DEF Level, Levels

LEMMA PutIsTyped ==
  ASSUME HdlInv, NEW T, NEW new, NEW flag \in {"force", "release", "deposit"},
         T \subseteq Bits, \A b \in T : flag # "release" => new[b] \in Level,
         PutBits(T, new, flag)
  PROVE  SignalsTyped
<1> DEFINE put(b) == IF b \in T /\ (flag = "force" \/ (flag = "deposit" /\ b \notin frc))
                     THEN new[b] ELSE sig[b]
<1>1. sig' = [b \in Bits |-> put(b)]
  BY DEF PutBits
<1>2. \A b \in Bits : put(b) \in Level
  <2>1. \A b \in Bits : sig[b] \in Level
    BY DEF HdlInv, TypeOK, SigInv, Level
  <2> QED
    BY <2>1
<1>3. frc' \in SUBSET Bits
  <2>1. frc' = frc \cup T \/ frc' = frc \ T \/ frc' = frc
    BY DEF PutBits
  <2> QED
    BY <2>1 DEF HdlInv, TypeOK
<1>4. sig' \in [Bits -> Level]
  <2> HIDE DEF put
  <2> QED
    BY <1>1, <1>2
<1>5. sig' \in [Bits -> Levels] /\ (lang = "vlog" => sig' \in [Bits -> Logic])
  BY <1>4, LogicIsLevel DEF Level
<1> QED
  BY <1>3, <1>5 DEF SignalsTyped

LEMMA SameSignalsTyped == ASSUME HdlInv, UNCHANGED sig, frc' \in SUBSET Bits
                          PROVE  SignalsTyped
BY DEF HdlInv, TypeOK, SigInv, SignalsTyped

LEMMA SameValueTyped == ASSUME HdlInv, UNCHANGED <<value, partsel>> PROVE ValueTyped
BY DEF HdlInv, TypeOK, ValueTyped

(* The bits a path reaches, or selects when it names an object, take their *)
(* value from the vector.                                                  *)
LEMMA TouchedFromVector ==
  ASSUME HdlInv, NEW p \in Path, NEW v \in Vector, NEW b \in Bits, Touches(p, b)
  PROVE  v[IndexOf(p, b)] \in Logic
<1>1. IndexOf(p, b) \in 0 .. Width(p) - 1 /\ Reached(p, IndexOf(p, b))
  BY DEF Touches, Selects
<1>2. W \in Widths
  BY SigIs
<1>3. IndexOf(p, b) \in Nat
  BY <1>1, <1>2, PathIs
<1>4. IndexOf(p, b) \in Positions
  BY <1>1, <1>2, <1>3, ReachedFits, PositionIs
<1> QED
  BY <1>4 DEF Vector

LEMMA SelectedFromVector ==
  ASSUME HdlInv, NEW p \in Path, NEW v \in Vector, NEW b \in Bits, Selects(p, b), Complete(p)
  PROVE  v[IndexOf(p, b)] \in Logic
<1>1. W \in Widths
  BY SigIs
<1>2. IndexOf(p, b) \in 0 .. Width(p) - 1
  BY DEF Selects
<1>3. Width(p) <= MaxWidth /\ Width(p) \in Nat
  BY <1>1, CompleteFits, PathIs
<1>4. IndexOf(p, b) \in Positions
  BY <1>2, <1>3, PositionIs
<1> QED
  BY <1>4 DEF Vector

-----------------------------------------------------------------------------
(* Writes of the three backends keep the signal typed.                     *)
Flags == {"force", "release", "deposit"}

LEMMA QSetVlogTyped ==
  ASSUME HdlInv, NEW p \in Path, NEW v \in Vector, NEW flag \in Flags, QSetVlog(p, v, flag)
  PROVE  SignalsTyped /\ RetTyped
<1>1. CASE QSetVlogPartsel(p, v, flag)
  <2> DEFINE T == {b \in Bits : Touches(p, b) /\ VpiHandle([p EXCEPT !.kind = "bit", !.rhs = b])}
             new == [b \in T |-> v[IndexOf(p, b)]]
  <2>1. PutBits(T, new, flag) /\ RetTyped
    BY <1>1 DEF QSetVlogPartsel, Answer, RetTyped
  <2>2. T \subseteq Bits /\ \A b \in T : Touches(p, b) /\ new[b] = v[IndexOf(p, b)]
    OBVIOUS
  <2> HIDE DEF T, new
  <2>3. \A b \in T : new[b] \in Level
    BY <2>2, TouchedFromVector, LogicIsLevel
  <2> QED
    BY <2>1, <2>2, <2>3, PutIsTyped DEF Flags
<1>2. CASE Failed /\ UNCHANGED simVars
  BY <1>2, SameSignalsTyped, SigIs DEF simVars, Failed, Answer, RetTyped
<1>3. CASE /\ VpiHandle(p)
           /\ LET T == {b \in Bits : Selects(p, b)}
              IN  PutBits(T, [b \in T |-> v[IndexOf(p, b)]], flag)
           /\ Answer(1)
  <2> DEFINE T == {b \in Bits : Selects(p, b)}
             new == [b \in T |-> v[IndexOf(p, b)]]
  <2>1. PutBits(T, new, flag) /\ RetTyped
    BY <1>3 DEF Answer, RetTyped
  <2>2. T \subseteq Bits /\ \A b \in T : Selects(p, b) /\ new[b] = v[IndexOf(p, b)]
    OBVIOUS
  <2>3. Complete(p)
    BY <1>3 DEF VpiHandle
  <2> HIDE DEF T, new
  <2>4. \A b \in T : new[b] \in Level
    BY <2>2, <2>3, SelectedFromVector, LogicIsLevel
  <2> QED
    BY <2>1, <2>2, <2>4, PutIsTyped DEF Flags
<1> QED
  BY <1>1, <1>2, <1>3 DEF QSetVlog

LEMMA QSetVhdlTyped ==
  ASSUME HdlInv, NEW p \in Path, NEW v \in Vector, NEW flag \in Flags, NEW junk,
         QSetVhdl(p, v, flag, junk)
  PROVE  SignalsTyped /\ RetTyped
<1> DEFINE T == {b \in Bits : Selects(p, b)}
           two(l) == IF l = "1" THEN "1" ELSE "0"
           char == QVecvalToString(W, v)
           index(b) == IF IndexOf(p, b) < W THEN char[W - IndexOf(p, b) - 1] ELSE junk
           whole(b) == char[W - 1 - b]
           bit == char[W - 1 - p.rhs]
           value_of(b) == CASE p.kind = "whole" -> whole(b)
                            [] p.kind = "bit"   -> two(bit)
                            [] OTHER            -> two(index(b))
           new == [b \in T |-> value_of(b)]
           how == IF p.kind = "whole" \/ flag = "release" THEN flag ELSE "deposit"
<1>1. PutBits(T, new, how) /\ RetTyped /\ how \in Flags
  BY DEF QSetVhdl, Answer, RetTyped, Flags
<1>2. T \subseteq Bits /\ \A b \in T : new[b] = value_of(b)
  OBVIOUS
<1>3. \A l : two(l) \in Level
  BY LogicIsLevel, ZeroIsLogic
<1>4. ASSUME NEW b \in Bits PROVE whole(b) \in Level
  <2>1. W \in Nat /\ W <= MaxWidth /\ b \in 0 .. W - 1 /\ MaxWidth \in Nat
    BY SigIs, WidthIs DEF Bits
  <2>2. whole(b) = v[b]
    BY <2>1 DEF QVecvalToString
  <2>3. b \in Positions
    BY <2>1, PositionIs
  <2> QED
    BY <2>2, <2>3, LogicIsLevel DEF Vector
<1> HIDE DEF two, char, index, whole, bit
<1>5. \A b \in Bits : value_of(b) \in Level
  BY <1>3, <1>4
<1> HIDE DEF T, new, how, value_of
<1>6. \A b \in T : new[b] \in Level
  BY <1>2, <1>5
<1> QED
  BY <1>1, <1>2, <1>6, PutIsTyped DEF Flags

LEMMA QSetTyped ==
  ASSUME HdlInv, NEW p \in Path, NEW v \in Vector, NEW flag \in Flags, NEW junk,
         QSet(p, v, flag, junk)
  PROVE  SignalsTyped /\ ValueTyped /\ RetTyped
BY QSetVlogTyped, QSetVhdlTyped, SameValueTyped DEF QSet

LEMMA XSetTyped ==
  ASSUME HdlInv, NEW p \in Path, NEW v \in Vector, NEW flag \in Flags, XSet(p, v, flag)
  PROVE  SignalsTyped /\ ValueTyped /\ RetTyped
<1>1. ValueTyped
  BY SameValueTyped DEF XSet
<1>2. CASE XSetVlogPartsel(p, v, flag)
  <2> DEFINE T == {b \in Bits : lang = "vlog" /\ Touches(p, b)}
             new == [b \in T |-> v[IndexOf(p, b)]]
  <2>1. PutBits(T, new, flag) /\ RetTyped
    BY <1>2 DEF XSetVlogPartsel, Answer, RetTyped
  <2>2. T \subseteq Bits /\ \A b \in T : Touches(p, b) /\ new[b] = v[IndexOf(p, b)]
    OBVIOUS
  <2> HIDE DEF T, new
  <2>3. \A b \in T : new[b] \in Level
    BY <2>2, TouchedFromVector, LogicIsLevel
  <2> QED
    BY <1>1, <2>1, <2>2, <2>3, PutIsTyped DEF Flags
<1>3. CASE Failed /\ UNCHANGED simVars
  BY <1>1, <1>3, SameSignalsTyped, SigIs DEF simVars, Failed, Answer, RetTyped
<1>4. CASE XGetObjectHandle(p) /\ XSetVlog(p, v, flag)
  <2> DEFINE T == {b \in Bits : Selects(p, b)}
             new == [b \in T |-> v[IndexOf(p, b)]]
  <2>1. PutBits(T, new, flag) /\ RetTyped
    BY <1>4 DEF XSetVlog, Answer, RetTyped
  <2>2. T \subseteq Bits /\ \A b \in T : Selects(p, b) /\ new[b] = v[IndexOf(p, b)]
    OBVIOUS
  <2>3. Complete(p)
    BY <1>4 DEF XGetObjectHandle
  <2> HIDE DEF T, new
  <2>4. \A b \in T : new[b] \in Level
    BY <2>2, <2>3, SelectedFromVector, LogicIsLevel
  <2> QED
    BY <1>1, <2>1, <2>2, <2>4, PutIsTyped DEF Flags
<1>5. CASE XSetVhdl(p, v, flag)
  <2> DEFINE new == [b \in Bits |-> XVhpi2Val(v, b)]
  <2>1. PutBits(Bits, new, flag) /\ RetTyped
    BY <1>5 DEF XSetVhdl, Answer, RetTyped
  <2>2. \A b \in Bits : new[b] \in Level
    BY LogicIsLevel, ZeroIsLogic DEF XVhpi2Val
  <2> HIDE DEF new
  <2> QED
    BY <1>1, <2>1, <2>2, PutIsTyped DEF Flags
<1> QED
  BY <1>2, <1>3, <1>4, <1>5 DEF XSet

LEMMA VSetTyped ==
  ASSUME HdlInv, NEW p \in Path, NEW v \in Vector, NEW flag \in Flags, NEW fits,
         VSet(p, v, flag, fits)
  PROVE  SignalsTyped /\ ValueTyped /\ RetTyped
<1>1. ValueTyped
  BY SameValueTyped DEF VSet
<1>2. CASE Failed /\ UNCHANGED simVars
  BY <1>1, <1>2, SameSignalsTyped, SigIs DEF simVars, Failed, Answer, RetTyped
<1>3. CASE VIsVpi(p) /\ VSetVlog(p, v, flag)
  <2> DEFINE T == {b \in Bits : Selects(p, b)}
             new == [b \in T |-> v[IndexOf(p, b)]]
  <2>1. PutBits(T, new, flag) /\ RetTyped
    BY <1>3 DEF VSetVlog, Answer, RetTyped
  <2>2. T \subseteq Bits /\ \A b \in T : Selects(p, b) /\ new[b] = v[IndexOf(p, b)]
    OBVIOUS
  <2>3. Complete(p)
    BY <1>3 DEF VIsVpi, VHandle
  <2> HIDE DEF T, new
  <2>4. \A b \in T : new[b] \in Level
    BY <2>2, <2>3, SelectedFromVector, LogicIsLevel
  <2> QED
    BY <1>1, <2>1, <2>2, <2>4, PutIsTyped DEF Flags
<1>4. CASE VSetMhdl(v, flag, fits)
  <2> DEFINE top == Chunks(W) - 1
             digits == VDigits(v, top)
             taken == IF digits < VTop(W) THEN digits ELSE VTop(W)
             new(b) == LET m == b - ChunkBits * top IN
                       IF m < 0 THEN VDigit(v, b)
                       ELSE IF m < taken THEN VDigit(v, b + digits - taken) ELSE "0"
             put == [b \in Bits |-> new(b)]
  <2>1. (PutBits(Bits, put, flag) /\ Answer(1)) \/ (Failed /\ UNCHANGED simVars)
    BY <1>4 DEF VSetMhdl
  <2>2. \A k : VDigit(v, k) \in Level
    BY LogicIsLevel, ZeroIsLogic DEF VDigit
  <2> HIDE DEF top, digits, taken
  <2>3. \A b : new(b) \in Level
    BY <2>2, LogicIsLevel, ZeroIsLogic
  <2> HIDE DEF new
  <2>4. \A b \in Bits : put[b] \in Level
    BY <2>3
  <2> HIDE DEF put
  <2> QED
    BY <1>1, <1>2, <2>1, <2>4, PutIsTyped DEF Flags, Answer, RetTyped
<1> QED
  BY <1>2, <1>3, <1>4 DEF VSet

-----------------------------------------------------------------------------
(* Reads of the three backends return a vector.                            *)
LEMMA BitIsLogic ==
  ASSUME HdlInv, lang = "vlog", NEW p \in Path, NEW i \in Nat, Reached(p, i)
  PROVE  BitAt(p, i) \in Bits /\ sig[BitAt(p, i)] \in Logic
<1>1. BitAt(p, i) \in Bits
  BY DEF Reached
<1> QED
  BY <1>1, SigIs

LEMMA CopiedObjectIsVector ==
  ASSUME HdlInv, lang = "vlog", NEW p \in Path, Complete(p), NEW base \in Vector
  PROVE  CopyWords(Width(p), [k \in 0 .. Width(p) - 1 |-> sig[BitAt(p, k)]], base) \in Vector
<1> DEFINE bit == [k \in 0 .. Width(p) - 1 |-> sig[BitAt(p, k)]]
<1>1. Width(p) \in Nat
  BY SigIs, PathIs
<1>2. \A k \in 0 .. Width(p) - 1 : bit[k] \in Logic
  BY SigIs, CompleteFits
<1>3. CopyWords(Width(p), bit, base) \in Vector
  <2> HIDE DEF bit
  <2> QED
    BY <1>1, <1>2, CopiedIsVector
<1> QED
  BY <1>3

LEMMA QGetVlogTyped ==
  ASSUME HdlInv, NEW p \in Path, QGetVlog(p)
  PROVE  ValueTyped /\ RetTyped
<1> DEFINE base == IF partsel THEN value ELSE ClearWords(value)
<1>1. base \in Vector
  BY SigIs, ClearedIsVector
<1>2. partsel \in BOOLEAN
  BY DEF HdlInv, TypeOK
<1>3. CASE QGetVlogPartsel(p, base)
  <2> DEFINE there(i) == lang = "vlog" /\ Reached(p, i)
             all == there(Width(p) - 1)
             old(k) == base[k]
             new(k) == IF k >= Width(p) THEN old(k)
                       ELSE IF there(k) THEN sig[BitAt(p, k)]
                       ELSE IF k = 0 THEN "0"
                       ELSE IF there(k - 1) THEN sig[BitAt(p, k - 1)] ELSE old(k)
  <2>1. value' = [k \in Positions |-> new(k)] /\ (partsel' = ~all) /\ RetTyped
    BY <1>3 DEF QGetVlogPartsel, Answer, RetTyped
  <2>2. partsel' \in BOOLEAN
    BY <2>1
  <2>3. ASSUME NEW k \in Nat, there(k) PROVE sig[BitAt(p, k)] \in Logic
    BY <2>3, BitIsLogic
  <2>4. \A k \in Positions : old(k) \in Logic /\ k \in Nat
    BY <1>1, PositionIs DEF Vector
  <2>5. ASSUME NEW k \in Positions PROVE new(k) \in Logic
    <3>1. k # 0 => k - 1 \in Nat
      BY <2>4
    <3> HIDE DEF there, base, old
    <3> QED
      BY <2>3, <2>4, <3>1, ZeroIsLogic
  <2> HIDE DEF new
  <2> QED
    BY <2>1, <2>2, <2>5 DEF ValueTyped, Vector
<1>4. CASE value' = base /\ Failed /\ UNCHANGED partsel
  BY <1>1, <1>2, <1>4 DEF ValueTyped, RetTyped, Failed, Answer
<1>5. CASE /\ VpiHandle(p)
           /\ value' = CopyWords(Width(p), [k \in 0 .. Width(p) - 1 |-> sig[BitAt(p, k)]], base)
           /\ Answer(1) /\ UNCHANGED partsel
  <2>1. lang = "vlog" /\ Complete(p)
    BY <1>5 DEF VpiHandle
  <2> HIDE DEF base
  <2>2. value' \in Vector
    BY <1>1, <1>5, <2>1, CopiedObjectIsVector
  <2> QED
    BY <1>2, <1>5, <2>2 DEF ValueTyped, RetTyped, Answer
<1> QED
  BY <1>3, <1>4, <1>5 DEF QGetVlog

LEMMA QGetVhdlTyped ==
  ASSUME HdlInv, NEW p \in Path, NEW junk \in Logic, QGetVhdl(p, junk)
  PROVE  ValueTyped /\ RetTyped
<1>1. PICK s : value' = QStringToVecval(s, Width(p), junk, value)
  BY DEF QGetVhdl
<1>2. Width(p) \in Nat /\ value \in Vector
  BY SigIs, PathIs
<1>3. \A c \in 0 .. Width(p) - 1 : QCarried(s, Width(p), junk)[c] \in Logic
  BY <1>2, CarriedIsLogic
<1>4. value' \in Vector
  BY <1>1, <1>2, <1>3, ShiftedIsVector DEF QStringToVecval
<1> QED
  BY <1>4 DEF QGetVhdl, HdlInv, TypeOK, ValueTyped, RetTyped, Answer

LEMMA XGetTyped ==
  ASSUME HdlInv, NEW p \in Path, NEW weak \in Weak, NEW junk \in Junk, XGet(p, weak, junk),
         UNCHANGED partsel
  PROVE  ValueTyped /\ RetTyped
<1>0. partsel' \in BOOLEAN
  BY DEF HdlInv, TypeOK
<1>1. CASE Failed /\ UNCHANGED value
  BY <1>1, SameValueTyped DEF RetTyped, Failed, Answer
<1>2. CASE XGetObjectHandle(p) /\ lang = "vlog" /\ XGetVlog(p)
  <2>1. Complete(p)
    BY <1>2 DEF XGetObjectHandle
  <2>2. value' \in Vector \/ UNCHANGED value
    BY <1>2, <2>1, SigIs, CopiedObjectIsVector DEF XGetVlog
  <2> QED
    BY <1>0, <1>2, <2>2, SigIs DEF XGetVlog, ValueTyped, RetTyped, Failed, Answer
<1>3. CASE XGetVhdl(p, weak, junk)
  <2> DEFINE of(c) == IF c >= ChunkBits THEN junk
                      ELSE IF sig[W - 1 - c] = "h" THEN weak ELSE sig[W - 1 - c]
             char == [c \in Bits |-> of(c)]
             zero == [k \in Positions |-> "0"]
  <2>1. value' = ShiftWords(W, char, zero) /\ RetTyped
    BY <1>3 DEF XGetVhdl, Answer, RetTyped
  <2>2. zero \in Vector
    BY ZeroIsLogic DEF Vector
  <2>3. weak \in Logic /\ junk \in Logic
    BY DEF Weak, Junk, Logic
  <2>4. W \in Nat
    BY SigIs, WidthIs
  <2>5. ASSUME NEW c \in 0 .. W - 1 PROVE of(c) \in Logic
    <3>1. W - 1 - c \in Bits
      BY <2>4 DEF Bits
    <3> QED
      BY <2>3, <3>1, SigIs
  <2>6. \A c \in 0 .. W - 1 : char[c] = of(c)
    BY DEF Bits
  <2> HIDE DEF char, of, zero
  <2> QED
    BY <1>0, <2>1, <2>2, <2>4, <2>5, <2>6, ShiftedIsVector DEF ValueTyped
<1> QED
  BY <1>1, <1>2, <1>3 DEF XGet

LEMMA XReadTyped ==
  ASSUME HdlInv, NEW p \in Path, NEW weak \in Weak, NEW junk \in Junk, XRead(p, weak, junk)
  PROVE  ValueTyped /\ RetTyped
<1>1. CASE XGetVlogPartsel(p, ClearWords(value))
  <2> DEFINE there(i) == lang = "vlog" /\ Reached(p, i)
             base == ClearWords(value)
             old(k) == base[k]
             new(k) == IF k < Width(p) /\ there(k) THEN sig[BitAt(p, k)] ELSE old(k)
  <2>1. value' = [k \in Positions |-> new(k)] /\ RetTyped
    BY <1>1 DEF XGetVlogPartsel, Answer, RetTyped
  <2>2. \A k \in Positions : old(k) \in Logic /\ k \in Nat
    BY SigIs, ClearedIsVector, PositionIs DEF Vector
  <2>3. ASSUME NEW k \in Nat, there(k) PROVE sig[BitAt(p, k)] \in Logic
    BY <2>3, BitIsLogic
  <2> HIDE DEF there, base, old
  <2>4. \A k \in Positions : new(k) \in Logic
    BY <2>2, <2>3
  <2> HIDE DEF new
  <2> QED
    BY <2>1, <2>4 DEF XRead, HdlInv, TypeOK, ValueTyped, Vector
<1>2. CASE XGet(p, weak, junk)
  BY <1>2, XGetTyped DEF XRead
<1> QED
  BY <1>1, <1>2 DEF XRead

(* VTop: the top word has the bits of the object left over from the others. *)
LEMMA TopWord ==
  ASSUME NEW n \in Nat, n >= 1
  PROVE  /\ Chunks(n) \in Nat /\ Chunks(n) >= 1
         /\ ChunkBits * (Chunks(n) - 1) \in Nat
         /\ VTop(n) \in Nat /\ VTop(n) >= 1 /\ VTop(n) <= ChunkBits
         /\ n = ChunkBits * (Chunks(n) - 1) + VTop(n)
<1> DEFINE q == (n - 1) \div ChunkBits
<1>1. ChunkBits \in Nat \ {0} /\ n - 1 \in Nat
  BY ChunkBitsAssumption
<1>2. q \in Nat /\ ChunkBits * q <= n - 1 /\ n - 1 < ChunkBits * q + ChunkBits
  BY <1>1, Division
<1>3. Chunks(n) = q + 1
  BY DEF Chunks
<1> HIDE DEF q
<1>4. Chunks(n) - 1 = q /\ ChunkBits * q \in Nat
  BY <1>1, <1>2, <1>3
<1>5. VTop(n) = n - ChunkBits * q
  BY <1>4 DEF VTop
<1> QED
  BY <1>1, <1>2, <1>3, <1>4, <1>5

LEMMA VCharIsLogic == ASSUME HdlInv, NEW c PROVE VCharAt(c) \in Logic
<1>1. CASE c \notin Bits
  BY <1>1, ZeroIsLogic DEF VCharAt
<1>2. CASE c \in Bits
  <2>1. W - 1 - c \in Bits
    BY <1>2, SigIs, WidthIs DEF Bits
  <2> QED
    BY <1>2, <2>1, SigIs, ZeroIsLogic DEF VCharAt
<1> QED
  BY <1>1, <1>2

LEMMA VGetMhdlTyped ==
  ASSUME HdlInv, VGetMhdl, UNCHANGED partsel PROVE ValueTyped /\ RetTyped
<1> DEFINE max == Chunks(W)
           size(k) == IF Chunk(k) = max - 1 THEN VTop(W) ELSE ChunkBits
           place(k) == k - ChunkBits * Chunk(k)
           first(k) == ChunkBits * (max - 1 - Chunk(k))
           char(k) == VCharAt(first(k) + size(k) - 1 - place(k))
           new(k) == IF Chunk(k) >= max THEN value[k]
                     ELSE IF place(k) < size(k) THEN char(k)
                     ELSE value[k - size(k)]
<1>1. CASE Failed /\ UNCHANGED value
  BY <1>1, SameValueTyped DEF RetTyped, Failed, Answer
<1>2. CASE value' = [k \in Positions |-> new(k)] /\ Answer(1)
  <2>1. \A k : char(k) \in Logic
    BY VCharIsLogic
  <2>2. \A k \in Positions : value[k] \in Logic
    BY SigIs DEF Vector
  <2>3. ASSUME NEW k \in Positions, ~(place(k) < size(k)) PROVE k - size(k) \in Positions
    <3>1. k \in Nat /\ k < MaxWidth /\ MaxWidth \in Nat
      BY PositionIs
    <3>2. place(k) \in Nat /\ place(k) <= k
      BY <3>1, ChunkIs
    <3>3. size(k) \in Nat
      BY SigIs, WidthIs, TopWord, ChunkBitsAssumption
    <3> HIDE DEF place, size
    <3>4. k - size(k) \in Nat /\ k - size(k) < MaxWidth
      BY <2>3, <3>1, <3>2, <3>3
    <3> QED
      BY <3>4, PositionIs
  <2> HIDE DEF char, size, place
  <2>4. \A k \in Positions : new(k) \in Logic
    BY <2>1, <2>2, <2>3
  <2> HIDE DEF new
  <2> QED
    BY <1>2, <2>4 DEF HdlInv, TypeOK, ValueTyped, RetTyped, Answer, Vector
<1>3. (Failed /\ UNCHANGED value) \/ (value' = [k \in Positions |-> new(k)] /\ Answer(1))
  BY DEF VGetMhdl
<1> QED
  BY <1>1, <1>2, <1>3

LEMMA VReadTyped ==
  ASSUME HdlInv, NEW p \in Path, NEW junk \in {0, 1}, VRead(p, junk)
  PROVE  ValueTyped /\ RetTyped
<1>1. CASE VIsVpi(p) /\ VGetVlog(p)
  <2>1. Complete(p) /\ lang = "vlog"
    BY <1>1 DEF VIsVpi, VHandle
  <2>2. value' \in Vector \/ UNCHANGED value
    BY <1>1, <2>1, SigIs, CopiedObjectIsVector DEF VGetVlog
  <2> QED
    BY <1>1, <2>2 DEF VRead, VGetVlog, HdlInv, TypeOK, ValueTyped, RetTyped, Failed, Answer
<1>2. CASE VGetMhdl
  BY <1>2, VGetMhdlTyped DEF VRead
<1>3. CASE Answer(junk) /\ UNCHANGED value
  BY <1>3, SameValueTyped DEF VRead, RetTyped, Answer
<1> QED
  BY <1>1, <1>2, <1>3 DEF VRead

-----------------------------------------------------------------------------
(* Every call keeps the invariant.                                         *)
CallTyped == SignalsTyped /\ ValueTyped /\ RetTyped

LEMMA StubTyped == ASSUME HdlInv, StubCall PROVE CallTyped
BY SameSignalsTyped, SameValueTyped, SigIs DEF CallTyped, StubCall, Failed, Answer, RetTyped

LEMMA FewerForced ==
  ASSUME HdlInv, UNCHANGED sig, frc' \subseteq frc PROVE SignalsTyped
BY SigIs, SameSignalsTyped

LEMMA QReleaseAndReadTyped ==
  ASSUME HdlInv, NEW p \in Path, NEW junk \in Logic, QReleaseAndRead(p, junk)
  PROVE  CallTyped
<1>1. SignalsTyped
  <2>1. UNCHANGED sig /\ frc' \subseteq frc
    BY DEF QReleaseAndRead
  <2> QED
    BY <2>1, FewerForced
<1>2. CASE QGetVhdl(p, junk)
  BY <1>1, <1>2, QGetVhdlTyped DEF CallTyped
<1>3. CASE QGetVlog(p)
  BY <1>1, <1>3, QGetVlogTyped DEF CallTyped
<1>4. CASE Complete(p) /\ QGetVlog(QLastBit(p))
  <2>1. Width(p) \in Nat /\ Width(p) >= 1
    BY SigIs, PathIs
  <2>2. BitAt(p, Width(p) - 1) \in Bits
    BY <1>4, <2>1, SigIs, CompleteFits
  <2>3. BitAt(p, Width(p) - 1) \in Nat
    BY <2>2, SigIs, WidthIs DEF Bits
  <2>4. QLastBit(p) \in Path
    BY <2>3 DEF QLastBit, Path
  <2> QED
    BY <1>1, <1>4, <2>4, QGetVlogTyped DEF CallTyped
<1>5. CASE Failed /\ UNCHANGED <<value, partsel>>
  BY <1>1, <1>5, SameValueTyped DEF CallTyped, RetTyped, Failed, Answer
<1> QED
  BY <1>2, <1>3, <1>4, <1>5 DEF QReleaseAndRead

LEMMA XReleaseAndReadTyped ==
  ASSUME HdlInv, NEW p \in Path, NEW weak \in Weak, NEW junk \in Junk,
         XReleaseAndRead(p, weak, junk)
  PROVE  CallTyped
<1>1. SignalsTyped
  <2>1. UNCHANGED sig /\ frc' \subseteq frc
    BY DEF XReleaseAndRead
  <2> QED
    BY <2>1, FewerForced
<1>2. CASE value' = ClearWords(value) /\ Failed
  BY <1>1, <1>2, SigIs, ClearedIsVector
     DEF XReleaseAndRead, CallTyped, ValueTyped, RetTyped, Failed, Answer, HdlInv, TypeOK
<1>3. CASE XGet(p, weak, junk)
  BY <1>1, <1>3, XGetTyped DEF XReleaseAndRead, CallTyped
<1> QED
  BY <1>2, <1>3 DEF XReleaseAndRead

LEMMA VReleaseTyped == ASSUME HdlInv, NEW p, VRelease(p) PROVE CallTyped
<1>1. UNCHANGED sig /\ frc' \subseteq frc
  BY DEF VRelease
<1> QED
  BY <1>1, FewerForced, SameValueTyped DEF VRelease, CallTyped, RetTyped, Answer

LEMMA CheckPathTyped ==
  ASSUME HdlInv, NEW p, CheckPath(p) PROVE CallTyped
<1>1. UNCHANGED <<sig, frc, value, partsel>> /\ RetTyped
  BY DEF CheckPath, QCheckPath, XCheckPath, VCheckPath, StubCall, Failed, Answer, RetTyped
<1> QED
  BY <1>1, SigIs, SameSignalsTyped, SameValueTyped DEF CallTyped

LEMMA ReadTyped ==
  ASSUME HdlInv, NEW p \in Path, Read(p) PROVE CallTyped
<1>1. SignalsTyped
  BY SigIs, SameSignalsTyped DEF Read, QRead, XRead, VRead, StubCall, simVars
<1>2. \A junk \in Junk : junk \in Logic
  BY DEF Junk, Logic
<1>3. ASSUME NEW junk \in Junk, QRead(p, junk) PROVE ValueTyped /\ RetTyped
  BY <1>2, <1>3, QGetVhdlTyped, QGetVlogTyped DEF QRead
<1> QED
  BY <1>1, <1>3, XReadTyped, VReadTyped, StubTyped DEF Read, CallTyped

LEMMA WriteTyped ==
  ASSUME HdlInv, NEW p \in Path, NEW v \in Vector, Deposit(p, v) \/ ForceValue(p, v)
  PROVE  CallTyped
BY QSetTyped, XSetTyped, VSetTyped, StubTyped
   DEF Deposit, QDeposit, XDeposit, VDeposit, ForceValue, QForce, XForce, VForce, Flags, CallTyped

LEMMA ReleaseTyped ==
  ASSUME HdlInv, NEW p \in Path, Release(p) PROVE CallTyped
<1>1. value \in Vector
  BY SigIs
<1> QED
  BY <1>1, QSetTyped, XSetTyped, VReleaseTyped, StubTyped
     DEF Release, QRelease, XRelease, Flags, CallTyped

LEMMA ReleaseAndReadTyped ==
  ASSUME HdlInv, NEW p \in Path, ReleaseAndRead(p) PROVE CallTyped
<1>1. \A junk \in Junk : junk \in Logic
  BY DEF Junk, Logic
<1> QED
  BY <1>1, QReleaseAndReadTyped, XReleaseAndReadTyped, VReleaseTyped, StubTyped
     DEF ReleaseAndRead, VReleaseAndRead

(* A call that keeps the types, on an object that stays the same one.      *)
LEMMA CallKeepsInv ==
  ASSUME HdlInv, CallTyped, UNCHANGED config, call' \in Calls PROVE HdlInv'
<1>1. Bits' = Bits
  BY DEF config, Bits
<1> QED
  BY <1>1 DEF HdlInv, TypeOK, SigInv, CallTyped, SignalsTyped, ValueTyped, RetTyped, config

LEMMA InitInv == HdlInit => HdlInv
<1> SUFFICES ASSUME HdlInit PROVE HdlInv
  OBVIOUS
<1>1. PICK d \in Drives : Plain(d) /\ sig = [b \in Bits |-> d[b]]
  BY DEF HdlInit
<1>2. \A b \in Bits : d[b] \in Levels
  BY DrivesAssumption, WidthsAssumption DEF HdlInit, Bits, Positions
<1>3. SigInv /\ sig \in [Bits -> Levels]
  BY <1>1, <1>2 DEF Plain, SigInv, Levels
<1>4. value \in Vector
  BY DepositsAssumption DEF HdlInit
<1> QED
  BY <1>3, <1>4 DEF HdlInit, HdlInv, TypeOK, Calls

LEMMA NextInv == HdlInv /\ [HdlNext]_hdlVars => HdlInv'
<1> SUFFICES ASSUME HdlInv, [HdlNext]_hdlVars PROVE HdlInv'
  OBVIOUS
<1>1. ASSUME NEW p \in Paths, CheckPath(p) PROVE HdlInv'
  <2>1. call' \in Calls /\ UNCHANGED config
    BY <1>1 DEF CheckPath, Calls
  <2> QED
    BY <1>1, <2>1, CheckPathTyped, CallKeepsInv
<1>2. ASSUME NEW p \in Paths, Read(p) PROVE HdlInv'
  <2>1. call' \in Calls /\ UNCHANGED config
    BY <1>2 DEF Read, Calls
  <2> QED
    BY <1>2, <2>1, PathsAssumption, ReadTyped, CallKeepsInv
<1>3. ASSUME NEW p \in Paths, ReleaseAndRead(p) PROVE HdlInv'
  <2>1. call' \in Calls /\ UNCHANGED config
    BY <1>3 DEF ReleaseAndRead, Calls
  <2> QED
    BY <1>3, <2>1, PathsAssumption, ReleaseAndReadTyped, CallKeepsInv
<1>4. ASSUME NEW p \in Paths, Release(p) PROVE HdlInv'
  <2>1. call' \in Calls /\ UNCHANGED config
    BY <1>4 DEF Release, Calls
  <2> QED
    BY <1>4, <2>1, PathsAssumption, ReleaseTyped, CallKeepsInv
<1>5. ASSUME NEW p \in Paths, NEW v \in Deposits, Deposit(p, v) \/ ForceValue(p, v)
      PROVE  HdlInv'
  <2>1. call' \in Calls /\ UNCHANGED config
    BY <1>5 DEF Deposit, ForceValue, Calls
  <2> QED
    BY <1>5, <2>1, PathsAssumption, DepositsAssumption, WriteTyped, CallKeepsInv
<1>6. ASSUME NEW d \in Drives, Drive(d) PROVE HdlInv'
  <2> DEFINE new(b) == IF b \in frc THEN sig[b] ELSE d[b]
  <2>1. sig' = [b \in Bits |-> new(b)]
    BY <1>6 DEF Drive
  <2>2. ASSUME NEW b \in Bits PROVE new(b) \in Levels /\ (lang = "vlog" => new(b) \in Logic)
    <3>1. b \in Positions
      BY SigIs, WidthIs, PositionIs DEF Bits
    <3>2. d[b] \in Levels /\ (lang = "vlog" => d[b] # "h")
      BY <1>6, <3>1, DrivesAssumption DEF Drive, Plain
    <3> QED
      BY <3>2, SigIs DEF Levels
  <2> HIDE DEF new
  <2>3. SignalsTyped
    BY <1>6, <2>1, <2>2, SigIs DEF SignalsTyped, Drive
  <2>4. ValueTyped /\ RetTyped
    BY <1>6, SameValueTyped DEF Drive, RetTyped, HdlInv, TypeOK
  <2>5. call' \in Calls /\ UNCHANGED config
    BY <1>6 DEF Drive, Calls
  <2> QED
    BY <2>3, <2>4, <2>5, CallKeepsInv DEF CallTyped
<1>7. CASE UNCHANGED hdlVars
  BY <1>7 DEF hdlVars, HdlInv, TypeOK, SigInv, Bits
<1> QED
  BY <1>1, <1>2, <1>3, <1>4, <1>5, <1>6, <1>7 DEF HdlNext

LEMMA HdlSpecInv == HdlSpec => []HdlInv
<1> QED
  BY InitInv, NextInv, PTL DEF HdlSpec

(* The caller's vector always holds four-state values, and every call      *)
(* answers 0 or 1, whatever a read found, skipped or read past the end     *)
(* (uvm_hdl_questa.c, uvm_hdl_xcelium.c, uvm_hdl_vcs.c).                   *)
THEOREM HdlTypes == HdlSpec => []TypeOK
<1>1. HdlInv => TypeOK
  BY DEF HdlInv
<1> QED
  BY <1>1, HdlSpecInv, PTL

-----------------------------------------------------------------------------
(* Writes that succeed.                                                    *)
WriteDone(p, v, op) ==
  \A b \in Selection(p) :
    IF op = "deposit" THEN b \notin frc => sig'[b] = v[IndexOf(p, b)]
    ELSE b \in frc' /\ sig'[b] = v[IndexOf(p, b)]

LEMMA PutLands ==
  ASSUME NEW p, NEW v, NEW flag \in {"deposit", "force"}, NEW T, NEW new,
         \A b \in Selection(p) : b \in T /\ new[b] = v[IndexOf(p, b)],
         PutBits(T, new, flag)
  PROVE  WriteDone(p, v, flag)
<1> SUFFICES ASSUME NEW b \in Selection(p)
             PROVE  IF flag = "deposit" THEN b \notin frc => sig'[b] = v[IndexOf(p, b)]
                    ELSE b \in frc' /\ sig'[b] = v[IndexOf(p, b)]
  BY DEF WriteDone
<1>1. b \in Bits /\ b \in T /\ new[b] = v[IndexOf(p, b)]
  BY DEF Selection
<1>2. sig'[b] = IF flag = "force" \/ (flag = "deposit" /\ b \notin frc) THEN new[b] ELSE sig[b]
  BY <1>1 DEF PutBits
<1>3. flag = "force" => frc' = frc \cup T
  BY DEF PutBits
<1> QED
  BY <1>1, <1>2, <1>3

(* A put of the caller's vector on a set of bits that has the selected ones. *)
LEMMA PutVectorLands ==
  ASSUME NEW p, NEW v, NEW flag \in {"deposit", "force"}, NEW T, Selection(p) \subseteq T,
         PutBits(T, [b \in T |-> v[IndexOf(p, b)]], flag)
  PROVE  WriteDone(p, v, flag)
<1> DEFINE new == [b \in T |-> v[IndexOf(p, b)]]
<1>1. \A b \in Selection(p) : b \in T /\ new[b] = v[IndexOf(p, b)]
  OBVIOUS
<1>2. PutBits(T, new, flag)
  OBVIOUS
<1> HIDE DEF new
<1> QED
  BY <1>1, <1>2, PutLands

LEMMA SelectionSelects == ASSUME NEW p PROVE Selection(p) \subseteq {b \in Bits : Selects(p, b)}
BY DEF Selection

(* A range that was written to its end has all its bits written.           *)
LEMMA SelectionTouched ==
  ASSUME W \in Widths, NEW p \in Path, Complete(p)
  PROVE  \A b \in Selection(p) : b \in Bits /\ Touches(p, b)
<1> SUFFICES ASSUME NEW b \in Selection(p) PROVE b \in Bits /\ Touches(p, b)
  OBVIOUS
<1>1. b \in Bits /\ p.known /\ Selects(p, b) /\ IndexOf(p, b) \in 0 .. Width(p) - 1
  BY SelectedIndex
<1>2. Width(p) \in Nat
  BY PathIs
<1>3. Reached(p, IndexOf(p, b))
  BY <1>1, <1>2 DEF Complete, Reached
<1> QED
  BY <1>1, <1>3 DEF Touches

LEMMA QSetVlogLands ==
  ASSUME HdlInv, NEW p \in Path, NEW v, NEW flag \in {"deposit", "force"},
         QSetVlog(p, v, flag), ret' = 1
  PROVE  WriteDone(p, v, flag)
<1>1. CASE QSetVlogPartsel(p, v, flag)
  <2> DEFINE T == {b \in Bits : Touches(p, b) /\ VpiHandle([p EXCEPT !.kind = "bit", !.rhs = b])}
  <2>1. /\ PutBits(T, [b \in T |-> v[IndexOf(p, b)]], flag)
        /\ ret' = IF \A i \in 0 .. Width(p) - 1 : BitAt(p, i) \in T THEN 1 ELSE 0
    BY <1>1 DEF QSetVlogPartsel, Answer
  <2> HIDE DEF T
  <2>2. \A i \in 0 .. Width(p) - 1 : BitAt(p, i) \in T
    BY <2>1
  <2>3. Selection(p) \subseteq T
    BY <2>2, SigIs, SelectedIndex
  <2> QED
    BY <2>1, <2>3, PutVectorLands
<1>2. CASE LET T == {b \in Bits : Selects(p, b)}
           IN  PutBits(T, [b \in T |-> v[IndexOf(p, b)]], flag)
  <2> DEFINE T == {b \in Bits : Selects(p, b)}
  <2>1. PutBits(T, [b \in T |-> v[IndexOf(p, b)]], flag) /\ Selection(p) \subseteq T
    BY <1>2, SelectionSelects
  <2> HIDE DEF T
  <2> QED
    BY <2>1, PutVectorLands
<1>3. ~Failed
  BY DEF Failed, Answer
<1> QED
  BY <1>1, <1>2, <1>3 DEF QSetVlog

(* vecval_to_string and the indices into it, where uvm_hdl_questa.c counts *)
(* them right.                                                             *)
LEMMA QSetVhdlLands ==
  ASSUME HdlInv, backend = "questa", lang = "vhdl", NEW p \in Path, NEW v \in Vector,
         NEW flag \in {"deposit", "force"}, NEW junk,
         Writable(p, v, flag), QSetVhdl(p, v, flag, junk)
  PROVE  WriteDone(p, v, flag)
<1> DEFINE T == {b \in Bits : Selects(p, b)}
           two(l) == IF l = "1" THEN "1" ELSE "0"
           char == QVecvalToString(W, v)
           index(b) == IF IndexOf(p, b) < W THEN char[W - IndexOf(p, b) - 1] ELSE junk
           whole(b) == char[W - 1 - b]
           bit == char[W - 1 - p.rhs]
           value_of(b) == CASE p.kind = "whole" -> whole(b)
                            [] p.kind = "bit"   -> two(bit)
                            [] OTHER            -> two(index(b))
           new == [b \in T |-> value_of(b)]
           how == IF p.kind = "whole" \/ flag = "release" THEN flag ELSE "deposit"
<1>0. /\ W \in Nat /\ W >= 1 /\ W <= MaxWidth /\ MaxWidth \in Nat /\ W \in Widths
      /\ Width(p) \in Nat /\ p.kind \in {"whole", "bit", "part"}
  BY SigIs, WidthIs, PathIs
<1>1. PutBits(T, new, how)
  BY DEF QSetVhdl
<1>2. \/ p.kind = "whole"
      \/ p.kind = "part" /\ flag = "deposit" /\ Width(p) <= W /\ TwoState(v, Width(p))
      \/ p.kind = "bit" /\ flag = "deposit" /\ p.rhs = 0 /\ TwoState(v, 1)
  BY DEF Writable
<1>3. how = flag
  BY <1>2
<1>4. \A c \in 0 .. W - 1 : char[c] = v[W - 1 - c]
  BY DEF QVecvalToString
<1>5. ASSUME NEW b \in Selection(p) PROVE b \in T /\ new[b] = value_of(b)
  BY SelectionSelects
<1> HIDE DEF char, T, new, how
<1>6. ASSUME NEW b \in Selection(p) PROVE value_of(b) = v[IndexOf(p, b)]
  <2>0. b \in 0 .. W - 1 /\ b \in Int
    BY <1>0, SelectedIndex DEF Bits
  <2>1. IndexOf(p, b) \in 0 .. Width(p) - 1 /\ BitAt(p, IndexOf(p, b)) = b
    BY <1>0, SelectedIndex
  <2>2. CASE p.kind = "whole"
    <3>1. IndexOf(p, b) = b
      BY <2>2 DEF IndexOf
    <3>2. whole(b) = v[b]
      BY <1>0, <1>4, <2>0
    <3> QED
      BY <2>2, <3>1, <3>2
  <2>3. CASE p.kind = "part" /\ Width(p) <= W /\ TwoState(v, Width(p))
    <3> DEFINE i == IndexOf(p, b)
    <3>1. i \in Nat /\ i < Width(p) /\ i < W /\ i < MaxWidth
      BY <1>0, <2>1, <2>3
    <3>2. W - i - 1 \in 0 .. W - 1 /\ W - 1 - (W - i - 1) = i
      BY <1>0, <3>1
    <3>3. index(b) = v[i]
      BY <1>4, <3>1, <3>2
    <3>4. v[i] \in {"0", "1"}
      BY <2>3, <3>1, PositionIs DEF TwoState
    <3> HIDE DEF index, i
    <3>5. two(index(b)) = v[i]
      BY <3>3, <3>4
    <3> QED
      BY <2>3, <3>5 DEF i
  <2>4. CASE p.kind = "bit" /\ p.rhs = 0 /\ TwoState(v, 1)
    <3>1. IndexOf(p, b) = 0
      BY <1>0, <2>1, <2>4, PathIs
    <3>2. bit = v[0]
      BY <1>0, <1>4, <2>4
    <3>3. v[0] \in {"0", "1"}
      BY <1>0, <2>4, PositionIs DEF TwoState
    <3> HIDE DEF bit
    <3> QED
      BY <2>4, <3>1, <3>2, <3>3
  <2> QED
    BY <1>2, <2>2, <2>3, <2>4
<1> HIDE DEF value_of
<1>7. \A b \in Selection(p) : b \in T /\ new[b] = v[IndexOf(p, b)]
  BY <1>5, <1>6
<1> QED
  BY <1>1, <1>3, <1>7, PutLands

(* vhpi2val gives 0 and 1 back as they are when no bit of the vector is x  *)
(* or z.                                                                   *)
LEMMA XVhpi2ValIs ==
  ASSUME NEW v \in Vector, TwoState(v, MaxWidth), NEW k \in Positions
  PROVE  XVhpi2Val(v, k) = v[k]
<1>1. \A m \in Positions : v[m] \in {"0", "1"}
  BY PositionIs DEF TwoState
<1>2. ~XBvalLeft(v, k)
  BY <1>1 DEF XBvalLeft
<1> QED
  BY <1>1, <1>2 DEF XVhpi2Val

LEMMA XSetLands ==
  ASSUME HdlInv, backend = "xcelium", NEW p \in Path, NEW v \in Vector,
         NEW flag \in {"deposit", "force"}, Writable(p, v, flag),
         XSet(p, v, flag), ret' = 1
  PROVE  WriteDone(p, v, flag)
<1>0. ~Failed /\ lang \in {"vlog", "vhdl"} /\ W \in Widths
  BY DEF Failed, Answer, HdlInv, TypeOK
<1>1. CASE XSetVlogPartsel(p, v, flag)
  <2> DEFINE T == {b \in Bits : lang = "vlog" /\ Touches(p, b)}
  <2>1. PutBits(T, [b \in T |-> v[IndexOf(p, b)]], flag) /\ lang = "vlog" /\ Complete(p)
    BY <1>1 DEF XSetVlogPartsel, Answer
  <2>2. Selection(p) \subseteq T
    BY <1>0, <2>1, SelectionTouched
  <2> HIDE DEF T
  <2> QED
    BY <2>1, <2>2, PutVectorLands
<1>2. CASE XSetVlog(p, v, flag)
  <2> DEFINE T == {b \in Bits : Selects(p, b)}
  <2>1. PutBits(T, [b \in T |-> v[IndexOf(p, b)]], flag) /\ Selection(p) \subseteq T
    BY <1>2, SelectionSelects DEF XSetVlog
  <2> HIDE DEF T
  <2> QED
    BY <2>1, PutVectorLands
<1>3. CASE XGetObjectHandle(p) /\ p.kind # "part" /\ lang # "vlog" /\ XSetVhdl(p, v, flag)
  <2> DEFINE new == [b \in Bits |-> XVhpi2Val(v, b)]
  <2>1. PutBits(Bits, new, flag)
    BY <1>3 DEF XSetVhdl
  <2>2. TwoState(v, MaxWidth)
    BY <1>0, <1>3 DEF Writable
  <2>3. p.kind = "whole"
    BY <1>0, <1>3, PathIs DEF XGetObjectHandle
  <2>4. ASSUME NEW b \in Selection(p) PROVE b \in Bits /\ new[b] = v[IndexOf(p, b)]
    <3>1. b \in Bits /\ b \in Positions
      BY <1>0, SelectedIndex, WidthIs, PositionIs
    <3>2. XVhpi2Val(v, b) = v[b]
      BY <2>2, <3>1, XVhpi2ValIs
    <3> QED
      BY <2>3, <3>1, <3>2 DEF IndexOf
  <2> HIDE DEF new
  <2> QED
    BY <2>1, <2>4, PutLands
<1> QED
  BY <1>0, <1>1, <1>2, <1>3 DEF XSet, XIsValidPathSlice

(* uvm_hdl_dtob: the digits of a word end with its highest 1.              *)
LEMMA DigitsAre ==
  ASSUME NEW v, NEW j
  PROVE  /\ VDigits(v, j) \in 1 .. ChunkBits
         /\ \A m \in 0 .. ChunkBits - 1 :
              m >= VDigits(v, j) => VDigit(v, ChunkBits * j + m) # "1"
         /\ VDigits(v, j) # 1 =>
              VDigit(v, ChunkBits * j + (VDigits(v, j) - 1)) = "1"
<1> DEFINE digit(m) == VDigit(v, ChunkBits * j + m)
           ones == {m \in 0 .. ChunkBits - 1 : digit(m) = "1"}
           top == CHOOSE m \in ones : \A o \in ones : o <= m
<1>0. ChunkBits \in Nat \ {0}
  BY ChunkBitsAssumption
<1>1. VDigits(v, j) = IF ones = {} THEN 1 ELSE 1 + top
  BY DEF VDigits
<1> HIDE DEF digit
<1>2. CASE ones = {}
  BY <1>0, <1>1, <1>2 DEF digit
<1>3. CASE ones # {}
  <2>1. ones \in SUBSET (0 .. ChunkBits - 1) /\ ChunkBits - 1 \in Nat
    BY <1>0
  <2>2. top \in ones /\ \A o \in ones : o <= top
    <3> HIDE DEF ones
    <3>1. \E m \in ones : \A o \in ones : o <= m
      BY <1>3, <2>1, LastOf
    <3> QED
      BY <3>1
  <2> HIDE DEF top
  <2>3. top \in 0 .. ChunkBits - 1 /\ digit(top) = "1"
        /\ \A m \in 0 .. ChunkBits - 1 : digit(m) = "1" => m <= top
    BY <2>2
  <2>4. VDigits(v, j) = top + 1 /\ VDigits(v, j) - 1 = top
    BY <1>1, <1>3, <2>3
  <2>5. VDigits(v, j) \in 1 .. ChunkBits
    BY <1>0, <2>3, <2>4
  <2>6. \A m \in 0 .. ChunkBits - 1 : m >= VDigits(v, j) => digit(m) # "1"
    BY <1>0, <2>3, <2>4
  <2> HIDE DEF ones
  <2> QED
    BY <2>3, <2>4, <2>5, <2>6 DEF digit
<1> QED
  BY <1>2, <1>3

(* The string uvm_hdl_set_mhdl makes of 0s and 1s that fit the object is   *)
(* the object's value, although it drops the leading zeros.                *)
LEMMA VSetMhdlLands ==
  ASSUME HdlInv, backend = "vcs", lang = "vhdl", NEW p \in Path, p.kind = "whole",
         NEW v \in Vector, NEW flag \in {"deposit", "force"}, NEW fits,
         Writable(p, v, flag), VSetMhdl(v, flag, fits), ret' = 1
  PROVE  WriteDone(p, v, flag)
<1> DEFINE top == Chunks(W) - 1
           base == ChunkBits * top
           digits == VDigits(v, top)
           taken == IF digits < VTop(W) THEN digits ELSE VTop(W)
           new(b) == LET m == b - ChunkBits * top IN
                     IF m < 0 THEN VDigit(v, b)
                     ELSE IF m < taken THEN VDigit(v, b + digits - taken) ELSE "0"
           put == [b \in Bits |-> new(b)]
<1>0. /\ W \in Nat /\ W >= 1 /\ W <= MaxWidth /\ MaxWidth \in Nat /\ W \in Widths
      /\ ChunkBits \in Nat \ {0}
  BY SigIs, WidthIs, ChunkBitsAssumption
<1>1. PutBits(Bits, put, flag)
  <2>1. (PutBits(Bits, put, flag) /\ Answer(1)) \/ (Failed /\ UNCHANGED simVars)
    BY DEF VSetMhdl
  <2>2. ~Failed
    BY DEF Failed, Answer
  <2> HIDE DEF put
  <2> QED
    BY <2>1, <2>2
<1>2. /\ TwoState(v, W)
      /\ \A k \in Positions : k >= W /\ Chunk(k) < Chunks(W) => v[k] = "0"
  BY DEF Writable
<1>3. /\ top \in Nat /\ base \in Nat /\ VTop(W) \in Nat /\ VTop(W) >= 1
      /\ VTop(W) <= ChunkBits /\ W = base + VTop(W) /\ top < Chunks(W)
  <2>1. /\ Chunks(W) \in Nat /\ Chunks(W) >= 1 /\ ChunkBits * (Chunks(W) - 1) \in Nat
        /\ VTop(W) \in Nat /\ VTop(W) >= 1 /\ VTop(W) <= ChunkBits
        /\ W = ChunkBits * (Chunks(W) - 1) + VTop(W)
    BY <1>0, TopWord
  <2>2. Chunks(W) - 1 \in Nat /\ Chunks(W) - 1 < Chunks(W)
    BY <2>1
  <2> QED
    BY <2>1, <2>2
<1>4. digits \in 1 .. ChunkBits /\ digits \in Int
  BY <1>0, DigitsAre
<1>5. digits <= VTop(W)
  <2> SUFFICES ASSUME digits > VTop(W) PROVE FALSE
    BY <1>3, <1>4
  <2> DEFINE k == base + (digits - 1)
  <2>1. digits # 1 /\ digits - 1 \in Nat /\ digits - 1 < ChunkBits
    BY <1>0, <1>3, <1>4
  <2>2. VDigit(v, k) = "1"
    BY <2>1, DigitsAre
  <2>3. k \in Positions /\ v[k] \in {"1", "x"}
    BY <2>2 DEF VDigit
  <2>4. Chunk(k) = top
    <3>1. (ChunkBits * top + (digits - 1)) \div ChunkBits = top
      <4> HIDE DEF top, digits
      <4> QED
        BY <1>0, <1>3, <2>1, Quotient
    <3> QED
      BY <3>1 DEF Chunk
  <2>5. k >= W
    <3> HIDE DEF base, digits
    <3> QED
      BY <1>3, <1>4
  <2> HIDE DEF k, top
  <2> QED
    BY <1>2, <1>3, <2>3, <2>4, <2>5
<1>6. taken = digits
  BY <1>3, <1>4, <1>5
<1>7. ASSUME NEW b \in Selection(p) PROVE new(b) = v[IndexOf(p, b)]
  <2>0. b \in Nat /\ b < W /\ b \in Positions
    BY <1>0, SelectedIndex, WidthIs, PositionIs
  <2>1. v[b] \in {"0", "1"}
    BY <1>2, <2>0 DEF TwoState
  <2>2. VDigit(v, b) = v[b]
    BY <2>0, <2>1 DEF VDigit
  <2>3. b - base >= digits => v[b] = "0"
    <3> DEFINE m == b - base
    <3> SUFFICES ASSUME m >= digits PROVE v[b] = "0"
      OBVIOUS
    <3>1. m \in 0 .. ChunkBits - 1 /\ b = base + m
      <4> HIDE DEF base, digits
      <4> QED
        BY <1>0, <1>3, <1>4, <2>0
    <3>2. VDigit(v, ChunkBits * top + m) # "1"
      <4> HIDE DEF m, top
      <4> QED
        BY <3>1, DigitsAre
    <3> QED
      BY <2>1, <2>2, <3>1, <3>2
  <2> DEFINE at == b + digits - taken
  <2>4. at = b
    <3> HIDE DEF taken, digits
    <3> QED
      BY <1>4, <1>6, <2>0
  <2>5. new(b) = IF b - base < 0 THEN VDigit(v, b)
                 ELSE IF b - base < taken THEN VDigit(v, at) ELSE "0"
    OBVIOUS
  <2> HIDE DEF at, taken, digits, base, new
  <2>6. b - base \in Int
    BY <1>3, <2>0
  <2>7. new(b) = v[b]
    BY <1>4, <1>6, <2>2, <2>3, <2>4, <2>5, <2>6
  <2> QED
    BY <2>7 DEF IndexOf
<1> HIDE DEF new
<1>8. \A b \in Selection(p) : b \in Bits /\ put[b] = v[IndexOf(p, b)]
  BY <1>7 DEF Selection
<1> HIDE DEF put
<1> QED
  BY <1>1, <1>8, PutLands

LEMMA VSetLands ==
  ASSUME HdlInv, backend = "vcs", NEW p \in Path, NEW v \in Vector,
         NEW flag \in {"deposit", "force"}, NEW fits, Writable(p, v, flag),
         VSet(p, v, flag, fits), ret' = 1
  PROVE  WriteDone(p, v, flag)
<1>0. ~Failed /\ lang \in {"vlog", "vhdl"} /\ W \in Widths
  BY DEF Failed, Answer, HdlInv, TypeOK
<1>1. CASE VSetVlog(p, v, flag)
  <2> DEFINE T == {b \in Bits : Selects(p, b)}
  <2>1. PutBits(T, [b \in T |-> v[IndexOf(p, b)]], flag) /\ Selection(p) \subseteq T
    BY <1>1, SelectionSelects DEF VSetVlog
  <2> HIDE DEF T
  <2> QED
    BY <2>1, PutVectorLands
<1>2. CASE VIsVhpi(p) /\ VSetMhdl(v, flag, fits)
  <2>1. lang = "vhdl" /\ p.kind = "whole"
    BY <1>0, <1>2, PathIs DEF VIsVhpi, VHandle
  <2> QED
    BY <1>2, <2>1, VSetMhdlLands
<1> QED
  BY <1>0, <1>1, <1>2 DEF VSet

(* Every backend.                                                          *)
LEMMA DepositLands ==
  ASSUME HdlInv, NEW p \in Paths, NEW v \in Deposits, Deposit(p, v), ret' = 1,
         Writable(p, v, "deposit")
  PROVE  WriteDone(p, v, "deposit")
<1>1. p \in Path /\ v \in Vector /\ lang \in {"vlog", "vhdl"} /\ ~StubCall
  BY PathsAssumption, DepositsAssumption DEF HdlInv, TypeOK, StubCall, Failed, Answer
<1>2. ASSUME NEW junk, QDeposit(p, v, junk), backend = "questa" PROVE WriteDone(p, v, "deposit")
  BY <1>1, <1>2, QSetVlogLands, QSetVhdlLands DEF QDeposit, QSet, QIsVhdlPath, FindSignal
<1> QED
  BY <1>1, <1>2, XSetLands, VSetLands DEF Deposit, XDeposit, VDeposit

LEMMA ForceLands ==
  ASSUME HdlInv, NEW p \in Paths, NEW v \in Deposits, ForceValue(p, v), ret' = 1,
         Writable(p, v, "force")
  PROVE  WriteDone(p, v, "force")
<1>1. p \in Path /\ v \in Vector /\ lang \in {"vlog", "vhdl"} /\ ~StubCall
  BY PathsAssumption, DepositsAssumption DEF HdlInv, TypeOK, StubCall, Failed, Answer
<1>2. ASSUME NEW junk, QForce(p, v, junk), backend = "questa" PROVE WriteDone(p, v, "force")
  BY <1>1, <1>2, QSetVlogLands, QSetVhdlLands DEF QForce, QSet, QIsVhdlPath, FindSignal
<1> QED
  BY <1>1, <1>2, XSetLands, VSetLands DEF ForceValue, XForce, VForce

(* Which call a step of the specification was.                             *)
LEMMA StepIs ==
  ASSUME HdlNext
  PROVE  \/ \E d \in Drives : Drive(d)
         \/ \E p \in Paths : /\ call'.path = p
                             /\ \/ CheckPath(p) /\ call'.op = "check_path"
                                \/ Read(p) /\ call'.op = "read"
                                \/ ReleaseAndRead(p) /\ call'.op = "release_and_read"
                                \/ Release(p) /\ call'.op = "release"
                                \/ \E v \in Deposits :
                                     /\ call'.arg = v
                                     /\ \/ Deposit(p, v) /\ call'.op = "deposit"
                                        \/ ForceValue(p, v) /\ call'.op = "force"
BY DEF HdlNext, CheckPath, Read, ReleaseAndRead, Release, Deposit, ForceValue

LEMMA DriveIsNoCall == ASSUME NEW d, Drive(d) PROVE call'.op = "none"
BY DEF Drive

LEMMA WriteSteps == []HdlInv /\ [][HdlNext]_hdlVars => WriteLands
<1> DEFINE A == call'.op \in {"deposit", "force"} /\ ret' = 1 =>
                  (Writable(call'.path, call'.arg, call'.op) =>
                     WriteDone(call'.path, call'.arg, call'.op))
<1>1. HdlInv /\ [HdlNext]_hdlVars => [A]_hdlVars
  <2> SUFFICES ASSUME HdlInv, HdlNext, call'.op \in {"deposit", "force"}, ret' = 1,
                      Writable(call'.path, call'.arg, call'.op)
               PROVE  WriteDone(call'.path, call'.arg, call'.op)
    OBVIOUS
  <2> QED
    BY StepIs, DriveIsNoCall, DepositLands, ForceLands
<1>2. [A]_hdlVars =>
        [call'.op \in {"deposit", "force"} /\ ret' = 1 =>
           LET p == call'.path
               v == call'.arg
           IN  Writable(p, v, call'.op) =>
                 \A b \in Selection(p) :
                   IF call'.op = "deposit"
                   THEN b \notin frc => sig'[b] = v[IndexOf(p, b)]
                   ELSE b \in frc' /\ sig'[b] = v[IndexOf(p, b)]]_hdlVars
  BY DEF WriteDone
<1> QED
  BY <1>1, <1>2, PTL DEF WriteLands

(* uvm_hdl_deposit and uvm_hdl_force: a write that returns 1 has put the   *)
(* caller's value on every bit the path names, for each vendor file, over  *)
(* its string and word conversions, for all widths and word sizes.         *)
THEOREM WritesLand == HdlSpec => WriteLands
BY WriteSteps, HdlSpecInv, PTL DEF HdlSpec

-----------------------------------------------------------------------------
(* Reads that succeed.                                                     *)
ReadDone(p) == \A i \in 0 .. Width(p) - 1 : value'[i] = sig[BitAt(p, i)]

LEMMA CopyReads ==
  ASSUME HdlInv, NEW p \in Path, Complete(p), NEW base,
         value' = CopyWords(Width(p), [k \in 0 .. Width(p) - 1 |-> sig[BitAt(p, k)]], base)
  PROVE  ReadDone(p)
<1> DEFINE bit == [k \in 0 .. Width(p) - 1 |-> sig[BitAt(p, k)]]
<1>1. Width(p) \in Nat /\ Width(p) <= MaxWidth
  BY SigIs, PathIs, CompleteFits
<1>2. value' = CopyWords(Width(p), bit, base) /\ \A k \in 0 .. Width(p) - 1 : bit[k] = sig[BitAt(p, k)]
  OBVIOUS
<1>3. ASSUME NEW i \in 0 .. Width(p) - 1 PROVE value'[i] = sig[BitAt(p, i)]
  <2>1. i \in Positions /\ i < Width(p)
    BY <1>1, PositionIs
  <2> HIDE DEF bit
  <2> QED
    BY <1>2, <2>1 DEF CopyWords
<1> QED
  BY <1>3 DEF ReadDone

LEMMA QGetVlogReads ==
  ASSUME HdlInv, NEW p \in Path, QGetVlog(p), ret' = 1 PROVE ReadDone(p)
<1> DEFINE base == IF partsel THEN value ELSE ClearWords(value)
<1>1. ~Failed
  BY DEF Failed, Answer
<1>2. CASE QGetVlogPartsel(p, base)
  <2> DEFINE there(i) == lang = "vlog" /\ Reached(p, i)
             new(k) == IF k >= Width(p) THEN base[k]
                       ELSE IF there(k) THEN sig[BitAt(p, k)]
                       ELSE IF k = 0 THEN "0"
                       ELSE IF there(k - 1) THEN sig[BitAt(p, k - 1)] ELSE base[k]
  <2>1. value' = [k \in Positions |-> new(k)] /\ there(Width(p) - 1)
    BY <1>2 DEF QGetVlogPartsel, Answer
  <2>2. Complete(p)
    BY <2>1 DEF Complete
  <2>3. Width(p) \in Nat /\ Width(p) <= MaxWidth
    BY <2>2, SigIs, PathIs, CompleteFits
  <2>4. ASSUME NEW i \in 0 .. Width(p) - 1 PROVE value'[i] = sig[BitAt(p, i)]
    <3>1. i \in Positions /\ ~(i >= Width(p))
      BY <2>3, PositionIs
    <3>2. there(i)
      BY <2>1, <2>3 DEF Reached
    <3>3. new(i) = sig[BitAt(p, i)]
      <4> HIDE DEF base, there
      <4> QED
        BY <3>1, <3>2
    <3> HIDE DEF new
    <3> QED
      BY <2>1, <3>1, <3>3
  <2> QED
    BY <2>4 DEF ReadDone
<1>3. CASE /\ VpiHandle(p)
           /\ value' = CopyWords(Width(p), [k \in 0 .. Width(p) - 1 |-> sig[BitAt(p, k)]], base)
  <2> HIDE DEF base
  <2> QED
    BY <1>3, CopyReads DEF VpiHandle
<1> QED
  BY <1>1, <1>2, <1>3 DEF QGetVlog

(* Characters that are all 0, 1, x or z are carried over unchanged, and    *)
(* those of one word come out in the order of the bits.                    *)
LEMMA CarriedIs ==
  ASSUME NEW s, NEW n \in Nat, NEW junk, NEW c \in 0 .. n - 1, s[c] \in Logic
  PROVE  QCarried(s, n, junk)[c] = s[c]
<1> DEFINE until(x) == {d \in 0 .. x : s[d] \in Logic}
           last(x) == CHOOSE d \in until(x) : \A e \in until(x) : e <= d
           f == [x \in 0 .. n - 1 |-> IF until(x) = {} THEN junk ELSE s[last(x)]]
<1>1. QCarried(s, n, junk) = f
  BY DEF QCarried
<1>2. c \in until(c) /\ until(c) \subseteq 0 .. c /\ c \in Nat
  OBVIOUS
<1>3. f[c] = IF until(c) = {} THEN junk ELSE s[last(c)]
  <2> HIDE DEF last, until
  <2> QED
    OBVIOUS
<1>4. last(c) = c
  <2> HIDE DEF until
  <2>1. \A e \in until(c) : e <= c
    BY <1>2
  <2>2. last(c) \in until(c) /\ \A e \in until(c) : e <= last(c)
    BY <1>2, <2>1
  <2>3. last(c) \in 0 .. c /\ c <= last(c)
    BY <1>2, <2>2
  <2> HIDE DEF last
  <2> QED
    BY <1>2, <2>3
<1> HIDE DEF f, last, until
<1> QED
  BY <1>1, <1>2, <1>3, <1>4

LEMMA OneWordShifts ==
  ASSUME NEW n \in Nat, n >= 1, n <= ChunkBits, n <= MaxWidth, NEW char, NEW base
  PROVE  \A k \in 0 .. n - 1 : ShiftWords(n, char, base)[k] = char[n - 1 - k]
<1> SUFFICES ASSUME NEW k \in 0 .. n - 1
             PROVE  ShiftWords(n, char, base)[k] = char[n - 1 - k]
  OBVIOUS
<1>1. k \in Positions /\ k \in Nat /\ k < n
  BY PositionIs
<1>2. ShiftWords(n, char, base)[k] =
        IF Chunk(k) >= Chunks(n) THEN base[k]
        ELSE IF k < n THEN char[CharOf(k, n)] ELSE "0"
  BY <1>1 DEF ShiftWords, CharOf
<1>3. Chunk(k) = 0 /\ Chunks(n) = 1 /\ CharsOf(0, n) = n
  BY <1>1, OneChunk
<1>4. ChunkBits * 0 = 0
  BY ChunkBitsAssumption
<1>5. CharOf(k, n) = 0 + (n - 1 - (k - 0))
  BY <1>3, <1>4 DEF CharOf
<1>6. CharOf(k, n) = n - 1 - k
  BY <1>1, <1>5
<1> QED
  BY <1>1, <1>2, <1>3, <1>6

(* The characters a VHDL read of Questa selects.                           *)
LEMMA QGetVhdlReads ==
  ASSUME HdlInv, NEW p \in Path, NEW junk, Complete(p), OneWord(p), QGetVhdl(p, junk)
  PROVE  ReadDone(p)
<1> DEFINE n == Width(p)
           char(b) == IF W - 1 - b \in Bits THEN QArrayToString[W - 1 - b] ELSE junk
           ranged(c) == char(p.lhs - c * Incr(p))
           of(c) == CASE p.kind = "whole" -> QArrayToString[c]
                      [] p.kind = "bit"   -> char(p.rhs)
                      [] OTHER            -> ranged(c)
           s == [c \in 0 .. n - 1 |-> of(c)]
<1>0. /\ n \in Nat /\ n >= 1 /\ n <= W /\ n <= MaxWidth /\ W \in Nat /\ W \in Widths
      /\ p.known /\ p.kind \in {"whole", "bit", "part"}
      /\ p.lhs \in Nat /\ p.rhs \in Nat /\ Incr(p) \in {1, -1}
      /\ \A i \in 0 .. n - 1 : BitAt(p, i) \in Bits
  BY SigIs, WidthIs, PathIs, CompleteFits
<1>1. value' = ShiftWords(n, QCarried(s, n, junk), value)
  BY DEF QGetVhdl, QStringToVecval
<1>2. n <= ChunkBits /\ \A b \in Selection(p) : sig[b] # "h"
  BY DEF OneWord
<1>3. \A i \in 0 .. n - 1 : BitAt(p, i) \in Selection(p)
  <2>1. \A i \in 0 .. n - 1 : IndexOf(p, BitAt(p, i)) = i
    BY <1>0, BitOfIndex
  <2> QED
    BY <1>0, <2>1 DEF Selection, Selects
<1>4. \A i \in 0 .. n - 1 : sig[BitAt(p, i)] \in Logic
  BY <1>0, <1>2, <1>3, SigIs
<1>5. \A b \in Bits : W - 1 - b \in Bits /\ (sig[b] \in Logic => QArrayToString[W - 1 - b] = sig[b])
  <2> SUFFICES ASSUME NEW b \in Bits
               PROVE  W - 1 - b \in Bits
                      /\ (sig[b] \in Logic => QArrayToString[W - 1 - b] = sig[b])
    OBVIOUS
  <2>1. W - 1 - b \in Bits /\ W - 1 - (W - 1 - b) = b
    BY <1>0, WidthIs DEF Bits
  <2> QED
    BY <2>1 DEF QArrayToString
<1>6. ASSUME NEW k \in 0 .. n - 1 PROVE of(n - 1 - k) = sig[BitAt(p, k)]
  <2>0. BitAt(p, k) \in Bits /\ sig[BitAt(p, k)] \in Logic /\ k \in Int
    BY <1>0, <1>4
  <2>1. CASE p.kind = "whole"
    <3>1. BitAt(p, k) = k /\ n = W
      BY <1>0, <2>1, PathIs DEF BitAt
    <3>2. QArrayToString[W - 1 - k] = sig[k]
      BY <1>5, <2>0, <3>1
    <3> HIDE DEF n
    <3> QED
      BY <2>1, <3>1, <3>2
  <2>2. CASE p.kind = "bit"
    <3>1. n = 1
      BY <1>0, <2>2, PathIs
    <3>2. BitAt(p, k) = p.rhs
      <4>1. k = 0
        BY <3>1
      <4> QED
        BY <1>0, <2>2, <4>1, BitOfIndex
    <3>3. char(p.rhs) = sig[p.rhs]
      BY <1>5, <2>0, <3>2
    <3> HIDE DEF n, char
    <3> QED
      BY <2>2, <3>2, <3>3
  <2>3. CASE p.kind = "part"
    <3>1. p.lhs - (n - 1 - k) * Incr(p) = BitAt(p, k)
      <4>1. CASE Incr(p) = 1
        BY <1>0, <2>0, <2>3, <4>1, PathIs DEF BitAt
      <4>2. CASE Incr(p) = -1
        BY <1>0, <2>0, <2>3, <4>2, PathIs DEF BitAt
      <4> QED
        BY <1>0, <4>1, <4>2
    <3>2. char(BitAt(p, k)) = sig[BitAt(p, k)]
      BY <1>5, <2>0
    <3>3. ranged(n - 1 - k) = sig[BitAt(p, k)]
      <4> HIDE DEF char, n
      <4> QED
        BY <3>1, <3>2
    <3> HIDE DEF n, char, ranged
    <3> QED
      BY <2>3, <3>3
  <2> QED
    BY <1>0, <2>1, <2>2, <2>3
<1> HIDE DEF of
<1>7. ASSUME NEW k \in 0 .. n - 1 PROVE value'[k] = sig[BitAt(p, k)]
  <2>1. n - 1 - k \in 0 .. n - 1
    BY <1>0
  <2>2. s[n - 1 - k] = sig[BitAt(p, k)] /\ s[n - 1 - k] \in Logic
    BY <1>4, <1>6, <2>1
  <2> HIDE DEF s, n
  <2>3. QCarried(s, n, junk)[n - 1 - k] = s[n - 1 - k]
    BY <1>0, <2>1, <2>2, CarriedIs
  <2>4. ShiftWords(n, QCarried(s, n, junk), value)[k] = QCarried(s, n, junk)[n - 1 - k]
    BY <1>0, <1>2, OneWordShifts
  <2> QED
    BY <1>1, <2>2, <2>3, <2>4
<1> QED
  BY <1>7 DEF ReadDone

(* A VHDL object of one word: Xcelium reads its characters from the left.  *)
LEMMA WholeOneWord ==
  ASSUME HdlInv, NEW p \in Path, p.kind = "whole", p.known, OneWord(p)
  PROVE  /\ W \in Nat /\ W >= 1 /\ W <= ChunkBits /\ W <= MaxWidth /\ Width(p) = W
         /\ \A k \in 0 .. W - 1 : BitAt(p, k) = k /\ sig[k] \in Logic /\ sig[k] # "h"
<1>1. W \in Nat /\ W >= 1 /\ W <= MaxWidth /\ Width(p) = W
  BY SigIs, WidthIs, PathIs
<1>2. W <= ChunkBits
  BY <1>1 DEF OneWord
<1>3. ASSUME NEW k \in 0 .. W - 1 PROVE BitAt(p, k) = k /\ sig[k] \in Logic /\ sig[k] # "h"
  <2>1. k \in Bits /\ k \in Selection(p)
    BY <1>1, <1>3 DEF Bits, Selection, Selects, IndexOf
  <2>2. sig[k] # "h"
    BY <2>1 DEF OneWord
  <2> QED
    BY <2>1, <2>2, SigIs DEF BitAt
<1> QED
  BY <1>1, <1>2, <1>3

LEMMA XGetReads ==
  ASSUME HdlInv, NEW p \in Path, NEW weak, NEW junk,
         lang = "vhdl" => OneWord(p), XGet(p, weak, junk), ret' = 1
  PROVE  ReadDone(p)
<1>0. ~Failed /\ lang \in {"vlog", "vhdl"}
  BY DEF Failed, Answer, HdlInv, TypeOK
<1>1. CASE XGetObjectHandle(p) /\ XGetVlog(p)
  BY <1>0, <1>1, CopyReads DEF XGetVlog, XGetObjectHandle
<1>2. CASE XGetObjectHandle(p) /\ lang = "vhdl" /\ XGetVhdl(p, weak, junk)
  <2> DEFINE of(c) == IF c >= ChunkBits THEN junk
                      ELSE IF sig[W - 1 - c] = "h" THEN weak ELSE sig[W - 1 - c]
             char == [c \in Bits |-> of(c)]
             zero == [k \in Positions |-> "0"]
  <2>1. value' = ShiftWords(W, char, zero)
    BY <1>2 DEF XGetVhdl
  <2>2. p.kind = "whole" /\ p.known
    BY <1>2, SigIs, PathIs, CompleteFits DEF XGetObjectHandle
  <2>3. /\ W \in Nat /\ W >= 1 /\ W <= ChunkBits /\ W <= MaxWidth /\ Width(p) = W
        /\ \A k \in 0 .. W - 1 : BitAt(p, k) = k /\ sig[k] \in Logic /\ sig[k] # "h"
    BY <1>2, <2>2, WholeOneWord
  <2>4. ASSUME NEW k \in 0 .. W - 1 PROVE value'[k] = sig[k]
    <3>1. W - 1 - k \in 0 .. W - 1 /\ W - 1 - (W - 1 - k) = k /\ ~(W - 1 - k >= ChunkBits)
      BY <2>3, ChunkBitsAssumption
    <3>2. of(W - 1 - k) = sig[k]
      BY <2>3, <3>1
    <3>3. char[W - 1 - k] = of(W - 1 - k)
      BY <3>1 DEF Bits
    <3> HIDE DEF of, char, zero
    <3>4. ShiftWords(W, char, zero)[k] = char[W - 1 - k]
      BY <2>3, OneWordShifts
    <3> QED
      BY <2>1, <3>2, <3>3, <3>4
  <2> QED
    BY <2>3, <2>4 DEF ReadDone
<1> QED
  BY <1>0, <1>1, <1>2 DEF XGet

LEMMA XReadReads ==
  ASSUME HdlInv, NEW p \in Path, NEW weak, NEW junk,
         lang = "vhdl" => OneWord(p), XRead(p, weak, junk), ret' = 1
  PROVE  ReadDone(p)
<1>1. CASE XGetVlogPartsel(p, ClearWords(value))
  <2> DEFINE there(i) == lang = "vlog" /\ Reached(p, i)
             base == ClearWords(value)
             new(k) == IF k < Width(p) /\ there(k) THEN sig[BitAt(p, k)] ELSE base[k]
  <2>1. value' = [k \in Positions |-> new(k)] /\ there(Width(p) - 1)
    BY <1>1 DEF XGetVlogPartsel, Answer
  <2>2. Complete(p)
    BY <2>1 DEF Complete
  <2>3. Width(p) \in Nat /\ Width(p) <= MaxWidth
    BY <2>2, SigIs, PathIs, CompleteFits
  <2>4. ASSUME NEW i \in 0 .. Width(p) - 1 PROVE value'[i] = sig[BitAt(p, i)]
    <3>1. i \in Positions /\ i < Width(p)
      BY <2>3, PositionIs
    <3>2. there(i)
      BY <2>1, <2>3 DEF Reached
    <3>3. new(i) = sig[BitAt(p, i)]
      <4> HIDE DEF base, there
      <4> QED
        BY <3>1, <3>2
    <3> HIDE DEF new
    <3> QED
      BY <2>1, <3>1, <3>3
  <2> QED
    BY <2>4 DEF ReadDone
<1>2. CASE XGet(p, weak, junk)
  BY <1>2, XGetReads
<1> QED
  BY <1>1, <1>2 DEF XRead

(* uvm_hdl_get_mhdl on an object of one word: its top word is all there is. *)
LEMMA VGetMhdlReads ==
  ASSUME HdlInv, NEW p \in Path, p.kind = "whole", p.known, OneWord(p), VGetMhdl, ret' = 1
  PROVE  ReadDone(p)
<1> DEFINE max == Chunks(W)
           size(k) == IF Chunk(k) = max - 1 THEN VTop(W) ELSE ChunkBits
           place(k) == k - ChunkBits * Chunk(k)
           first(k) == ChunkBits * (max - 1 - Chunk(k))
           from(k) == first(k) + size(k) - 1 - place(k)
           new(k) == IF Chunk(k) >= max THEN value[k]
                     ELSE IF place(k) < size(k) THEN VCharAt(from(k))
                     ELSE value[k - size(k)]
<1>1. value' = [k \in Positions |-> new(k)]
  <2>1. (Failed /\ UNCHANGED value) \/ (value' = [k \in Positions |-> new(k)] /\ Answer(1))
    BY DEF VGetMhdl
  <2>2. ~Failed
    BY DEF Failed, Answer
  <2> HIDE DEF new
  <2> QED
    BY <2>1, <2>2
<1>2. /\ W \in Nat /\ W >= 1 /\ W <= ChunkBits /\ W <= MaxWidth /\ Width(p) = W
      /\ \A k \in 0 .. W - 1 : BitAt(p, k) = k /\ sig[k] \in Logic /\ sig[k] # "h"
  BY WholeOneWord
<1>3. max = 1 /\ \A k \in 0 .. W - 1 : Chunk(k) = 0
  BY <1>2, OneChunk
<1>4. ChunkBits * 0 = 0 /\ ChunkBits \in Nat
  BY ChunkBitsAssumption
<1>5. VTop(W) = W
  BY <1>2, <1>3, <1>4 DEF VTop
<1>6. ASSUME NEW k \in 0 .. W - 1 PROVE value'[k] = sig[k]
  <2>1. Chunk(k) = 0 /\ max - 1 = 0 /\ max - 1 - Chunk(k) = 0 /\ k \in Nat
    BY <1>3
  <2>2. size(k) = W /\ place(k) = k /\ first(k) = 0
    <3>1. size(k) = W
      BY <1>5, <2>1
    <3>2. place(k) = k - 0
      BY <1>4, <2>1
    <3>3. first(k) = 0
      BY <1>4, <2>1
    <3> QED
      BY <2>1, <3>1, <3>2, <3>3
  <2>3. from(k) = W - 1 - k
    <3> HIDE DEF first, size, place
    <3> QED
      BY <1>2, <2>1, <2>2
  <2>4. VCharAt(W - 1 - k) = sig[k]
    <3>1. W - 1 - k \in Bits /\ W - 1 - (W - 1 - k) = k
      BY <1>2 DEF Bits
    <3> QED
      BY <1>2, <3>1 DEF VCharAt
  <2>5. ~(Chunk(k) >= max) /\ place(k) < size(k)
    <3> HIDE DEF place, size
    <3> QED
      BY <1>2, <1>3, <2>1, <2>2
  <2>6. new(k) = sig[k]
    <3> HIDE DEF place, size, from, max
    <3> QED
      BY <2>3, <2>4, <2>5
  <2>7. k \in Positions
    BY <1>2, PositionIs
  <2> HIDE DEF new
  <2> QED
    BY <1>1, <2>6, <2>7
<1> QED
  BY <1>2, <1>6 DEF ReadDone

LEMMA ReadReads ==
  ASSUME HdlInv, NEW p \in Paths, Read(p), ret' = 1, Readable(p)
  PROVE  ReadDone(p)
<1>1. p \in Path /\ lang \in {"vlog", "vhdl"} /\ ~Failed
  BY PathsAssumption DEF HdlInv, TypeOK, Failed, Answer
<1>2. ASSUME NEW junk, backend = "questa", QRead(p, junk) PROVE ReadDone(p)
  BY <1>1, <1>2, QGetVhdlReads, QGetVlogReads DEF QRead, QIsVhdlPath, FindSignal, Readable
<1>3. ASSUME NEW weak, NEW junk, backend = "xcelium", XRead(p, weak, junk) PROVE ReadDone(p)
  BY <1>1, <1>3, XReadReads DEF Readable
<1>4. ASSUME NEW junk, backend = "vcs", VRead(p, junk) PROVE ReadDone(p)
  <2>1. VHandle(p) /\ Complete(p) /\ p.known /\ (lang = "vhdl" => OneWord(p) /\ p.kind = "whole")
    BY <1>1, <1>4, SigIs, PathIs, CompleteFits DEF Readable, VHandle
  <2>2. (VIsVpi(p) /\ VGetVlog(p)) \/ (VIsVhpi(p) /\ VGetMhdl)
    BY <1>4, <2>1 DEF VRead
  <2> QED
    BY <1>1, <2>1, <2>2, CopyReads, VGetMhdlReads DEF VGetVlog, VIsVhpi
<1> QED
  BY <1>1, <1>2, <1>3, <1>4 DEF Read, StubCall

LEMMA ReadSteps == []HdlInv /\ [][HdlNext]_hdlVars => ReadIsTrue
<1> DEFINE A == call'.op = "read" /\ ret' = 1 /\ Readable(call'.path) => ReadDone(call'.path)
<1>1. HdlInv /\ [HdlNext]_hdlVars => [A]_hdlVars
  <2> SUFFICES ASSUME HdlInv, HdlNext, call'.op = "read", ret' = 1, Readable(call'.path)
               PROVE  ReadDone(call'.path)
    OBVIOUS
  <2> QED
    BY StepIs, DriveIsNoCall, ReadReads
<1>2. [A]_hdlVars =>
        [call'.op = "read" /\ ret' = 1 /\ Readable(call'.path) =>
           \A i \in 0 .. Width(call'.path) - 1 :
             value'[i] = sig[BitAt(call'.path, i)]]_hdlVars
  BY DEF ReadDone
<1> QED
  BY <1>1, <1>2, PTL DEF ReadIsTrue

(* uvm_hdl_read: a read that returns 1 has fetched the object's bits, bit  *)
(* by bit the ones the path names, after any history of calls, failed      *)
(* range reads (which leave the flag partsel set) included.                *)
THEOREM ReadsAreTrue == HdlSpec => ReadIsTrue
BY ReadSteps, HdlSpecInv, PTL DEF HdlSpec

-----------------------------------------------------------------------------
(* Releases that succeed.                                                  *)
Lifted(p) == Selection(p) \cap frc' = {}

LEMMA PutReleases ==
  ASSUME NEW p, NEW T, NEW new, Selection(p) \subseteq T, PutBits(T, new, "release")
  PROVE  Lifted(p)
<1>1. frc' = frc \ T
  BY DEF PutBits
<1> QED
  BY <1>1 DEF Lifted

LEMMA TouchedReleases ==
  ASSUME HdlInv, NEW p \in Path, Complete(p), frc' = frc \ {b \in Bits : Touches(p, b)}
  PROVE  Lifted(p)
BY SigIs, SelectionTouched DEF Lifted

LEMMA SelectedReleases ==
  ASSUME NEW p, frc' = frc \ {b \in Bits : Selects(p, b)} PROVE Lifted(p)
BY DEF Lifted, Selection

LEMMA QReleaseLifts ==
  ASSUME HdlInv, NEW p \in Path, QRelease(p), ret' = 1 PROVE Lifted(p)
<1> DEFINE T == {b \in Bits : Selects(p, b)}
<1>0. Selection(p) \subseteq T
  BY SelectionSelects
<1>1. CASE QSetVhdl(p, value, "release", "0")
  <2>1. PICK new : PutBits(T, new, "release")
    BY <1>1 DEF QSetVhdl
  <2> HIDE DEF T
  <2> QED
    BY <1>0, <2>1, PutReleases
<1>2. CASE QSetVlogPartsel(p, value, "release")
  <2> DEFINE Q == {b \in Bits : Touches(p, b) /\ VpiHandle([p EXCEPT !.kind = "bit", !.rhs = b])}
  <2>1. /\ PutBits(Q, [b \in Q |-> value[IndexOf(p, b)]], "release")
        /\ ret' = IF \A i \in 0 .. Width(p) - 1 : BitAt(p, i) \in Q THEN 1 ELSE 0
    BY <1>2 DEF QSetVlogPartsel, Answer
  <2> HIDE DEF Q
  <2>2. \A i \in 0 .. Width(p) - 1 : BitAt(p, i) \in Q
    BY <2>1
  <2>3. Selection(p) \subseteq Q
    BY <2>2, SigIs, SelectedIndex
  <2> QED
    BY <2>1, <2>3, PutReleases
<1>3. CASE \E new : PutBits(T, new, "release")
  <2> HIDE DEF T
  <2> QED
    BY <1>0, <1>3, PutReleases
<1>4. ~Failed
  BY DEF Failed, Answer
<1>5. QSetVlog(p, value, "release") =>
        \/ QSetVlogPartsel(p, value, "release")
        \/ Failed
        \/ \E new : PutBits(T, new, "release")
  BY DEF QSetVlog
<1> QED
  BY <1>1, <1>2, <1>3, <1>4, <1>5 DEF QRelease, QSet

LEMMA XReleaseLifts ==
  ASSUME HdlInv, NEW p \in Path, XRelease(p), ret' = 1 PROVE Lifted(p)
<1>0. ~Failed
  BY DEF Failed, Answer
<1>1. CASE XSetVlogPartsel(p, value, "release")
  <2> DEFINE T == {b \in Bits : lang = "vlog" /\ Touches(p, b)}
  <2>1. PutBits(T, [b \in T |-> value[IndexOf(p, b)]], "release") /\ lang = "vlog" /\ Complete(p)
    BY <1>1 DEF XSetVlogPartsel, Answer
  <2>2. Selection(p) \subseteq T
    BY <2>1, SigIs, SelectionTouched
  <2> HIDE DEF T
  <2> QED
    BY <2>1, <2>2, PutReleases
<1>2. CASE XSetVlog(p, value, "release")
  <2> DEFINE T == {b \in Bits : Selects(p, b)}
  <2>1. PICK new : PutBits(T, new, "release")
    BY <1>2 DEF XSetVlog
  <2>2. Selection(p) \subseteq T
    BY SelectionSelects
  <2> HIDE DEF T
  <2> QED
    BY <2>1, <2>2, PutReleases
<1>3. CASE XSetVhdl(p, value, "release")
  <2>1. PICK new : PutBits(Bits, new, "release")
    BY <1>3 DEF XSetVhdl
  <2>2. Selection(p) \subseteq Bits
    BY DEF Selection
  <2> QED
    BY <2>1, <2>2, PutReleases
<1> QED
  BY <1>0, <1>1, <1>2, <1>3 DEF XRelease, XSet

LEMMA VReleaseLifts ==
  ASSUME NEW p, VRelease(p), ret' = 1 PROVE Lifted(p)
<1>1. VHandle(p)
  BY DEF VRelease, Answer
<1>2. frc' = frc \ {b \in Bits : Selects(p, b)}
  BY <1>1 DEF VRelease
<1> QED
  BY <1>2, SelectedReleases

LEMMA ReleaseLifts ==
  ASSUME HdlInv, NEW p \in Paths, Release(p), ret' = 1 PROVE Lifted(p)
<1>1. p \in Path /\ ~StubCall
  BY PathsAssumption DEF StubCall, Failed, Answer
<1> QED
  BY <1>1, QReleaseLifts, XReleaseLifts, VReleaseLifts DEF Release

LEMMA QReleaseAndReadLifts ==
  ASSUME HdlInv, NEW p \in Path, NEW junk, QReleaseAndRead(p, junk), ret' = 1
  PROVE  /\ Lifted(p) /\ UNCHANGED sig
         /\ backend = "questa" /\ ReleaseReadable(p) => ReadDone(p)
<1>0. ~Failed /\ UNCHANGED sig /\ lang \in {"vlog", "vhdl"}
  BY DEF Failed, Answer, QReleaseAndRead, HdlInv, TypeOK
<1>1. CASE QIsVhdlPath(p)
  <2>1. frc' = {b \in frc : ~Selects(p, b)} /\ QGetVhdl(p, junk) /\ lang = "vhdl"
    BY <1>1 DEF QReleaseAndRead, QIsVhdlPath, FindSignal
  <2>2. Lifted(p)
    BY <2>1 DEF Lifted, Selection
  <2>3. backend = "questa" /\ ReleaseReadable(p) => Complete(p) /\ OneWord(p)
    BY <2>1 DEF ReleaseReadable, Readable
  <2> QED
    BY <1>0, <2>1, <2>2, <2>3, QGetVhdlReads
<1>2. CASE ~QIsVhdlPath(p)
  <2>1. lang = "vlog" /\ Complete(p) /\ frc' = frc \ {b \in Bits : Touches(p, b)}
        /\ QGetVlog(IF p.kind = "part" THEN QLastBit(p) ELSE p)
    BY <1>0, <1>2 DEF QReleaseAndRead
  <2>2. Lifted(p)
    BY <2>1, TouchedReleases
  <2>3. backend = "questa" /\ ReleaseReadable(p) => p.kind # "part"
    BY <2>1 DEF ReleaseReadable
  <2> QED
    BY <1>0, <2>1, <2>2, <2>3, QGetVlogReads
<1> QED
  BY <1>1, <1>2

LEMMA XReleaseAndReadLifts ==
  ASSUME HdlInv, NEW p \in Path, NEW weak, NEW junk, XReleaseAndRead(p, weak, junk), ret' = 1
  PROVE  /\ Lifted(p) /\ UNCHANGED sig
         /\ backend = "xcelium" /\ ReleaseReadable(p) => ReadDone(p)
<1>0. ~Failed /\ UNCHANGED sig
  BY DEF Failed, Answer, XReleaseAndRead
<1>1. /\ frc' = frc \ {b \in Bits : XGetObjectHandle(p) /\ Selects(p, b)}
      /\ XGet(p, weak, junk)
  BY <1>0 DEF XReleaseAndRead
<1>2. XGetObjectHandle(p)
  BY <1>0, <1>1 DEF XGet
<1>3. frc' = frc \ {b \in Bits : Selects(p, b)}
  BY <1>1, <1>2
<1>4. Lifted(p)
  BY <1>3, SelectedReleases
<1>5. backend = "xcelium" /\ ReleaseReadable(p) => (lang = "vhdl" => OneWord(p))
  BY DEF ReleaseReadable, Readable
<1> QED
  BY <1>0, <1>1, <1>4, <1>5, XGetReads

LEMMA ReleaseAndReadLifts ==
  ASSUME HdlInv, NEW p \in Paths, ReleaseAndRead(p), ret' = 1
  PROVE  /\ Lifted(p) /\ UNCHANGED sig
         /\ ReleaseReadable(p) => ReadDone(p)
<1>1. p \in Path /\ ~StubCall
  BY PathsAssumption DEF StubCall, Failed, Answer
<1>2. CASE backend = "vcs" /\ VReleaseAndRead(p)
  <2>1. ~ReleaseReadable(p)
    BY <1>2 DEF ReleaseReadable
  <2> QED
    BY <1>2, <2>1, VReleaseLifts DEF VReleaseAndRead, VRelease
<1> QED
  BY <1>1, <1>2, QReleaseAndReadLifts, XReleaseAndReadLifts DEF ReleaseAndRead

LEMMA ReleaseSteps == []HdlInv /\ [][HdlNext]_hdlVars => ReleaseLands
<1> DEFINE A == call'.op \in {"release", "release_and_read"} /\ ret' = 1 =>
                  /\ Lifted(call'.path)
                  /\ call'.op = "release_and_read" =>
                       /\ UNCHANGED sig
                       /\ ReleaseReadable(call'.path) => ReadDone(call'.path)
<1>1. HdlInv /\ [HdlNext]_hdlVars => [A]_hdlVars
  <2> SUFFICES ASSUME HdlInv, HdlNext, call'.op \in {"release", "release_and_read"}, ret' = 1
               PROVE  /\ Lifted(call'.path)
                      /\ call'.op = "release_and_read" =>
                           /\ UNCHANGED sig
                           /\ ReleaseReadable(call'.path) => ReadDone(call'.path)
    OBVIOUS
  <2> QED
    BY StepIs, DriveIsNoCall, ReleaseLifts, ReleaseAndReadLifts
<1>2. [A]_hdlVars =>
        [call'.op \in {"release", "release_and_read"} /\ ret' = 1 =>
           LET p == call'.path IN
           /\ Selection(p) \cap frc' = {}
           /\ call'.op = "release_and_read" /\ ReleaseReadable(p) =>
                \A i \in 0 .. Width(p) - 1 : value'[i] = sig'[BitAt(p, i)]]_hdlVars
  BY DEF Lifted, ReadDone
<1> QED
  BY <1>1, <1>2, PTL DEF ReleaseLands

(* uvm_hdl_release and uvm_hdl_release_and_read: a call that returns 1 has *)
(* lifted the force of every bit the path names.  The vector then holds    *)
(* the value they are left with only for the calls of ReleaseReadable: VCS *)
(* never fills it, and Questa not for a range of a Verilog object.         *)
THEOREM ReleasesLand == HdlSpec => ReleaseLands
BY ReleaseSteps, HdlSpecInv, PTL DEF HdlSpec

-----------------------------------------------------------------------------
(* Deposits that fail.                                                     *)
Prefix(p, v) ==
  \A b \in Selection(p) : sig'[b] # sig[b] =>
    \A j \in 0 .. IndexOf(p, b) - 1 :
      /\ BitAt(p, j) \in Bits
      /\ BitAt(p, j) \in frc \/ sig'[BitAt(p, j)] = v[j]

LEMMA SameIsPrefix == ASSUME NEW p, NEW v, UNCHANGED sig PROVE Prefix(p, v)
BY DEF Prefix

(* A loop that stops at the first bit missing writes the bits before it.   *)
LEMMA TouchedIsPrefix ==
  ASSUME W \in Widths, NEW p \in Path, NEW v, NEW T,
         \A b : b \in T <=> b \in Bits /\ Touches(p, b),
         PutBits(T, [b \in T |-> v[IndexOf(p, b)]], "deposit")
  PROVE  Prefix(p, v)
<1> DEFINE new == [b \in T |-> v[IndexOf(p, b)]]
<1>1. /\ PutBits(T, new, "deposit")
      /\ \A b \in T : new[b] = v[IndexOf(p, b)]
  OBVIOUS
<1> HIDE DEF new
<1>2. \A b \in Bits : sig'[b] = IF b \in T /\ b \notin frc THEN new[b] ELSE sig[b]
  BY <1>1 DEF PutBits
<1> SUFFICES ASSUME NEW b \in Selection(p), sig'[b] # sig[b],
                    NEW j \in 0 .. IndexOf(p, b) - 1
             PROVE  /\ BitAt(p, j) \in Bits
                    /\ BitAt(p, j) \in frc \/ sig'[BitAt(p, j)] = v[j]
  BY DEF Prefix
<1>3. b \in T
  BY <1>2 DEF Selection
<1>4. IndexOf(p, b) \in 0 .. Width(p) - 1 /\ Reached(p, IndexOf(p, b)) /\ Width(p) \in Nat
  BY <1>3, PathIs DEF Touches, Selects
<1>5. j \in Int /\ j \in 0 .. Width(p) - 1
  BY <1>4
<1>6. Reached(p, j) /\ BitAt(p, j) \in Bits
  BY <1>4, <1>5 DEF Reached
<1>7. IndexOf(p, BitAt(p, j)) = j
  BY <1>5, BitOfIndex
<1>8. BitAt(p, j) \in T
  BY <1>5, <1>6, <1>7 DEF Touches, Selects
<1> QED
  BY <1>1, <1>2, <1>6, <1>7, <1>8

LEMMA QDepositPrefix ==
  ASSUME HdlInv, NEW p \in Path, NEW v, NEW junk, QDeposit(p, v, junk), ret' = 0
  PROVE  Prefix(p, v)
<1>1. CASE QSetVhdl(p, v, "deposit", junk)
  BY <1>1 DEF QSetVhdl, Answer
<1>2. CASE QSetVlogPartsel(p, v, "deposit")
  <2> DEFINE sub(b) == [p EXCEPT !.kind = "bit", !.rhs = b]
             T == {b \in Bits : Touches(p, b) /\ VpiHandle(sub(b))}
  <2>1. PutBits(T, [b \in T |-> v[IndexOf(p, b)]], "deposit")
    BY <1>2 DEF QSetVlogPartsel
  <2>2. CASE lang # "vlog"
    <3>1. T = {}
      BY <2>2 DEF VpiHandle
    <3>2. sig' = [b \in Bits |-> sig[b]]
      <4> HIDE DEF T
      <4> QED
        BY <2>1, <3>1 DEF PutBits
    <3>3. UNCHANGED sig
      BY <3>2, SigIs
    <3> QED
      BY <3>3, SameIsPrefix
  <2>3. CASE lang = "vlog"
    <3>1. ASSUME NEW b \in Bits, Touches(p, b) PROVE VpiHandle(sub(b))
      <4>1. b \in Nat
        BY SigIs, WidthIs
      <4>2. /\ sub(b).kind = "bit" /\ sub(b).rhs = b /\ sub(b).known = p.known
            /\ sub(b) \in Path
        BY <4>1 DEF Path
      <4>3. p.known
        BY <3>1 DEF Touches, Reached
      <4>4. Width(sub(b)) = 1 /\ BitAt(sub(b), 0) = b
        BY <4>2, SigIs, PathIs, BitOfIndex
      <4> HIDE DEF sub
      <4>5. Complete(sub(b))
        BY <4>2, <4>3, <4>4 DEF Complete, Reached
      <4> QED
        BY <2>3, <4>2, <4>5 DEF VpiHandle
    <3>2. \A b : b \in T <=> b \in Bits /\ Touches(p, b)
      BY <3>1
    <3> HIDE DEF T
    <3> QED
      BY <2>1, <3>2, SigIs, TouchedIsPrefix
  <2> QED
    BY <2>2, <2>3
<1>3. CASE UNCHANGED simVars
  BY <1>3, SameIsPrefix DEF simVars
<1> QED
  BY <1>1, <1>2, <1>3 DEF QDeposit, QSet, QSetVlog, Answer

LEMMA XDepositPrefix ==
  ASSUME HdlInv, NEW p \in Path, NEW v, XDeposit(p, v), ret' = 0
  PROVE  Prefix(p, v)
<1>1. CASE XSetVlogPartsel(p, v, "deposit")
  <2> DEFINE T == {b \in Bits : lang = "vlog" /\ Touches(p, b)}
  <2>1. PutBits(T, [b \in T |-> v[IndexOf(p, b)]], "deposit")
    BY <1>1 DEF XSetVlogPartsel
  <2>2. CASE lang # "vlog"
    <3>1. T = {}
      BY <2>2
    <3>2. sig' = [b \in Bits |-> sig[b]]
      <4> HIDE DEF T
      <4> QED
        BY <2>1, <3>1 DEF PutBits
    <3>3. UNCHANGED sig
      BY <3>2, SigIs
    <3> QED
      BY <3>3, SameIsPrefix
  <2>3. CASE lang = "vlog"
    <3>1. \A b : b \in T <=> b \in Bits /\ Touches(p, b)
      BY <2>3
    <3> HIDE DEF T
    <3> QED
      BY <2>1, <3>1, SigIs, TouchedIsPrefix
  <2> QED
    BY <2>2, <2>3
<1>2. CASE UNCHANGED simVars
  BY <1>2, SameIsPrefix DEF simVars
<1> QED
  BY <1>1, <1>2 DEF XDeposit, XSet, XSetVlog, XSetVhdl, Answer

LEMMA VDepositPrefix ==
  ASSUME NEW p, NEW v, NEW fits, VDeposit(p, v, fits), ret' = 0
  PROVE  Prefix(p, v)
<1>1. UNCHANGED simVars
  BY DEF VDeposit, VSet, VSetVlog, VSetMhdl, Answer
<1> QED
  BY <1>1, SameIsPrefix DEF simVars

LEMMA DepositPrefix ==
  ASSUME HdlInv, NEW p \in Paths, NEW v, Deposit(p, v), ret' = 0
  PROVE  Prefix(p, v)
<1>1. p \in Path /\ (StubCall => Prefix(p, v))
  BY PathsAssumption, SameIsPrefix DEF StubCall
<1> QED
  BY <1>1, QDepositPrefix, XDepositPrefix, VDepositPrefix DEF Deposit

LEMMA FailedDepositSteps == []HdlInv /\ [][HdlNext]_hdlVars => FailedDepositIsPrefix
<1> DEFINE A == call'.op = "deposit" /\ ret' = 0 => Prefix(call'.path, call'.arg)
<1>1. HdlInv /\ [HdlNext]_hdlVars => [A]_hdlVars
  <2> SUFFICES ASSUME HdlInv, HdlNext, call'.op = "deposit", ret' = 0
               PROVE  Prefix(call'.path, call'.arg)
    OBVIOUS
  <2> QED
    BY StepIs, DriveIsNoCall, DepositPrefix
<1>2. [A]_hdlVars =>
        [call'.op = "deposit" /\ ret' = 0 =>
           LET p == call'.path IN
           \A b \in Selection(p) : sig'[b] # sig[b] =>
             \A j \in 0 .. IndexOf(p, b) - 1 :
               /\ BitAt(p, j) \in Bits
               /\ BitAt(p, j) \in frc \/ sig'[BitAt(p, j)] = call'.arg[j]]_hdlVars
  BY DEF Prefix
<1> QED
  BY <1>1, <1>2, PTL DEF FailedDepositIsPrefix

(* uvm_set_vlog_partsel of uvm_hdl_questa.c and uvm_hdl_xcelium.c: a       *)
(* deposit that returns 0 has not written into the middle of a range; the  *)
(* bits it changed are the first of the path, up to one that is missing.   *)
THEOREM FailedDepositsArePrefixes == HdlSpec => FailedDepositIsPrefix
BY FailedDepositSteps, HdlSpecInv, PTL DEF HdlSpec

-----------------------------------------------------------------------------
(* The step leaves the value and the force of the bits outside S alone.    *)
Spares(S) == \A b \in Bits \ S : sig'[b] = sig[b] /\ (b \in frc' <=> b \in frc)

-----------------------------------------------------------------------------
(* A put on bits of S spares the others.                                   *)
LEMMA PutBitsSpares ==
  ASSUME NEW T, NEW new, NEW flag \in {"force", "release", "deposit"}, NEW S,
         T \cap Bits \subseteq S, PutBits(T, new, flag)
  PROVE  Spares(S)
<1> SUFFICES ASSUME NEW b \in Bits \ S
             PROVE  sig'[b] = sig[b] /\ (b \in frc' <=> b \in frc)
  BY DEF Spares
<1>1. b \notin T
  OBVIOUS
<1>2. sig'[b] = sig[b]
  BY <1>1 DEF PutBits
<1>3. b \in frc' <=> b \in frc
  <2>1. CASE flag = "force"
    BY <1>1, <2>1 DEF PutBits
  <2>2. CASE flag = "release"
    BY <1>1, <2>2 DEF PutBits
  <2>3. CASE flag = "deposit"
    BY <1>1, <2>3 DEF PutBits
  <2> QED
    BY <2>1, <2>2, <2>3
<1> QED
  BY <1>2, <1>3

(* A step that changes no bit spares them all.                             *)
LEMMA NothingSpares == ASSUME NEW S, UNCHANGED simVars PROVE Spares(S)
BY DEF Spares, simVars

(* A path that resolves is known; one that names the object as a whole     *)
(* selects all of it.                                                      *)
LEMMA CompleteIsKnown == ASSUME NEW p, Complete(p) PROVE p.known
BY DEF Complete, Reached

LEMMA TouchedIsSelected ==
  ASSUME NEW p, NEW b \in Bits, Touches(p, b) PROVE b \in Selection(p)
BY DEF Touches, Reached, Selection

LEMMA WholeIsSelected ==
  ASSUME NEW p, p.known, p.kind = "whole" PROVE Bits \subseteq Selection(p)
BY DEF Selection, Selects, IndexOf, Width, Bits

-----------------------------------------------------------------------------
(* Questa: QSet is behind deposit, force and release.                      *)
LEMMA QSetSpares ==
  ASSUME NEW p \in Paths, NEW v, NEW flag \in {"force", "release", "deposit"},
         NEW junk, QSet(p, v, flag, junk)
  PROVE  Spares(Selection(p))
<1>1. CASE QIsVhdlPath(p)
  <2> DEFINE T == {b \in Bits : Selects(p, b)}
  <2>1. T \cap Bits \subseteq Selection(p)
    BY <1>1 DEF QIsVhdlPath, FindSignal, Selection
  <2>2. PICK f \in {"force", "release", "deposit"} : \E new : PutBits(T, new, f)
    BY <1>1 DEF QSet, QSetVhdl
  <2> QED
    BY <2>1, <2>2, PutBitsSpares
<1>2. CASE ~QIsVhdlPath(p)
  <2>0. QSetVlog(p, v, flag)
    BY <1>2 DEF QSet
  <2>1. CASE p.kind = "part" /\ QSetVlogPartsel(p, v, flag)
    <3> DEFINE T == {b \in Bits : Touches(p, b)
                       /\ VpiHandle([p EXCEPT !.kind = "bit", !.rhs = b])}
    <3>1. T \cap Bits \subseteq Selection(p)
      BY TouchedIsSelected
    <3>2. PICK new : PutBits(T, new, flag)
      BY <2>1 DEF QSetVlogPartsel
    <3> QED
      BY <3>1, <3>2, PutBitsSpares
  <2>2. CASE UNCHANGED simVars
    BY <2>2, NothingSpares
  <2>3. CASE VpiHandle(p) /\ \E new : PutBits({b \in Bits : Selects(p, b)}, new, flag)
    <3> DEFINE T == {b \in Bits : Selects(p, b)}
    <3>1. T \cap Bits \subseteq Selection(p)
      BY <2>3, CompleteIsKnown DEF VpiHandle, Selection
    <3> QED
      BY <2>3, <3>1, PutBitsSpares
  <2> QED
    BY <2>0, <2>1, <2>2, <2>3 DEF QSetVlog
<1> QED
  BY <1>1, <1>2

LEMMA QReleaseAndReadSpares ==
  ASSUME NEW p \in Paths, NEW junk, QReleaseAndRead(p, junk)
  PROVE  Spares(Selection(p))
<1>1. UNCHANGED sig
  BY DEF QReleaseAndRead
<1>2. CASE QIsVhdlPath(p)
  <2>1. frc' = {b \in frc : ~Selects(p, b)} /\ p.known
    BY <1>2 DEF QReleaseAndRead, QIsVhdlPath, FindSignal
  <2> QED
    BY <1>1, <2>1 DEF Spares, Selection
<1>3. CASE ~QIsVhdlPath(p)
  <2>1. frc' = frc \ {b \in Bits : Touches(p, b)} \/ frc' = frc
    BY <1>3 DEF QReleaseAndRead
  <2> QED
    BY <1>1, <2>1, TouchedIsSelected DEF Spares
<1> QED
  BY <1>2, <1>3

-----------------------------------------------------------------------------
(* Xcelium: XSet is behind deposit, force and release.                     *)
LEMMA XSetSpares ==
  ASSUME NEW p \in Paths, NEW v, NEW flag \in {"force", "release", "deposit"},
         XSet(p, v, flag)
  PROVE  Spares(Selection(p))
<1>1. CASE XIsValidPathSlice(p)
  <2> DEFINE T == {b \in Bits : lang = "vlog" /\ Touches(p, b)}
  <2>1. T \cap Bits \subseteq Selection(p)
    BY TouchedIsSelected
  <2>2. PICK new : PutBits(T, new, flag)
    BY <1>1 DEF XSet, XSetVlogPartsel
  <2> QED
    BY <2>1, <2>2, PutBitsSpares
<1>2. CASE ~XIsValidPathSlice(p) /\ ~XGetObjectHandle(p)
  BY <1>2, NothingSpares DEF XSet
<1>3. CASE ~XIsValidPathSlice(p) /\ XGetObjectHandle(p) /\ lang = "vlog"
  <2> DEFINE T == {b \in Bits : Selects(p, b)}
  <2>1. T \cap Bits \subseteq Selection(p)
    BY <1>3, CompleteIsKnown DEF XGetObjectHandle, Selection
  <2>2. PICK new : PutBits(T, new, flag)
    BY <1>3 DEF XSet, XSetVlog
  <2> QED
    BY <2>1, <2>2, PutBitsSpares
<1>4. CASE ~XIsValidPathSlice(p) /\ XGetObjectHandle(p) /\ lang # "vlog"
  <2>1. p.known /\ p.kind = "whole"
    BY <1>4, PathsAssumption, CompleteIsKnown DEF XGetObjectHandle, Path
  <2>2. PICK new : PutBits(Bits, new, flag)
    BY <1>4 DEF XSet, XSetVhdl
  <2> QED
    BY <2>1, <2>2, WholeIsSelected, PutBitsSpares
<1> QED
  BY <1>1, <1>2, <1>3, <1>4

LEMMA XReleaseAndReadSpares ==
  ASSUME NEW p \in Paths, NEW weak, NEW junk, XReleaseAndRead(p, weak, junk)
  PROVE  Spares(Selection(p))
<1>1. UNCHANGED sig
  BY DEF XReleaseAndRead
<1>2. CASE XIsValidPathSlice(p)
  <2>1. frc' = frc \ {b \in Bits : lang = "vlog" /\ Touches(p, b)}
    BY <1>2 DEF XReleaseAndRead
  <2> QED
    BY <1>1, <2>1, TouchedIsSelected DEF Spares
<1>3. CASE ~XIsValidPathSlice(p)
  <2>1. frc' = frc \ {b \in Bits : XGetObjectHandle(p) /\ Selects(p, b)}
    BY <1>3 DEF XReleaseAndRead
  <2>2. XGetObjectHandle(p) => p.known
    BY CompleteIsKnown DEF XGetObjectHandle
  <2> QED
    BY <1>1, <2>1, <2>2 DEF Spares, Selection
<1> QED
  BY <1>2, <1>3

-----------------------------------------------------------------------------
(* VCS: VSet is behind deposit and force.                                  *)
LEMMA VSetSpares ==
  ASSUME NEW p \in Paths, NEW v, NEW flag \in {"force", "release", "deposit"},
         NEW fits, VSet(p, v, flag, fits)
  PROVE  Spares(Selection(p))
<1>1. CASE VIsVpi(p) /\ VSetVlog(p, v, flag)
  <2> DEFINE T == {b \in Bits : Selects(p, b)}
  <2>1. T \cap Bits \subseteq Selection(p)
    BY <1>1, CompleteIsKnown DEF VIsVpi, VHandle, Selection
  <2>2. PICK new : PutBits(T, new, flag)
    BY <1>1 DEF VSetVlog
  <2> QED
    BY <2>1, <2>2, PutBitsSpares
<1>2. CASE VIsVhpi(p) /\ VSetMhdl(v, flag, fits)
  <2>1. p.known /\ p.kind = "whole"
    BY <1>2, PathsAssumption, CompleteIsKnown DEF VIsVhpi, VHandle, Path
  <2>2. (\E new : PutBits(Bits, new, flag)) \/ UNCHANGED simVars
    BY <1>2 DEF VSetMhdl
  <2> QED
    BY <2>1, <2>2, WholeIsSelected, PutBitsSpares, NothingSpares
<1>3. CASE UNCHANGED simVars
  BY <1>3, NothingSpares
<1> QED
  BY <1>1, <1>2, <1>3 DEF VSet

LEMMA VReleaseSpares ==
  ASSUME NEW p \in Paths, VRelease(p) PROVE Spares(Selection(p))
<1>1. sig' = sig /\ frc' = frc \ {b \in Bits : VHandle(p) /\ Selects(p, b)}
  BY DEF VRelease
<1>2. VHandle(p) => p.known
  BY CompleteIsKnown DEF VHandle
<1> QED
  BY <1>1, <1>2 DEF Spares, Selection

-----------------------------------------------------------------------------
(* Every call, whichever vendor file is compiled in.                       *)
LEMMA CallSpares ==
  ASSUME NEW p \in Paths, backend \in {"questa", "xcelium", "vcs", "verilator"},
         \/ CheckPath(p) \/ Read(p) \/ ReleaseAndRead(p) \/ Release(p)
         \/ \E v \in Deposits : Deposit(p, v) \/ ForceValue(p, v)
  PROVE  Spares(Selection(p))
<1>0. ASSUME UNCHANGED sig, UNCHANGED frc PROVE Spares(Selection(p))
  BY <1>0 DEF Spares
<1>1. CASE CheckPath(p)
  BY <1>0, <1>1 DEF CheckPath, QCheckPath, XCheckPath, VCheckPath, StubCall
<1>2. CASE Read(p)
  BY <1>0, <1>2 DEF Read, QRead, XRead, VRead, StubCall, simVars
<1>3. CASE ReleaseAndRead(p)
  BY <1>0, <1>3, QReleaseAndReadSpares, XReleaseAndReadSpares, VReleaseSpares
     DEF ReleaseAndRead, VReleaseAndRead, StubCall
<1>4. CASE Release(p)
  BY <1>0, <1>4, QSetSpares, XSetSpares, VReleaseSpares
     DEF Release, QRelease, XRelease, StubCall
<1>5. ASSUME NEW v \in Deposits, Deposit(p, v) PROVE Spares(Selection(p))
  BY <1>0, <1>5, QSetSpares, XSetSpares, VSetSpares
     DEF Deposit, QDeposit, XDeposit, VDeposit, StubCall
<1>6. ASSUME NEW v \in Deposits, ForceValue(p, v) PROVE Spares(Selection(p))
  BY <1>0, <1>6, QSetSpares, XSetSpares, VSetSpares
     DEF ForceValue, QForce, XForce, VForce, StubCall
<1> QED
  BY <1>1, <1>2, <1>3, <1>4, <1>5, <1>6

LEMMA SparingSteps == []HdlInv /\ [][HdlNext]_hdlVars => OnlySelected
<1> DEFINE A == call'.op # "none" => Spares(Selection(call'.path))
<1>1. HdlInv /\ [HdlNext]_hdlVars => [A]_hdlVars
  <2> SUFFICES ASSUME HdlInv, HdlNext, call'.op # "none"
               PROVE  Spares(Selection(call'.path))
    OBVIOUS
  <2>1. ASSUME NEW d \in Drives, Drive(d) PROVE FALSE
    BY <2>1 DEF Drive
  <2>2. PICK p \in Paths :
          \/ CheckPath(p) \/ Read(p) \/ ReleaseAndRead(p) \/ Release(p)
          \/ \E v \in Deposits : Deposit(p, v) \/ ForceValue(p, v)
    BY <2>1 DEF HdlNext
  <2>3. call'.path = p
    BY <2>2 DEF CheckPath, Read, ReleaseAndRead, Release, Deposit, ForceValue
  <2> QED
    BY <2>2, <2>3, CallSpares DEF HdlInv, TypeOK
<1>2. [A]_hdlVars => [call'.op # "none" =>
         \A b \in Bits \ Selection(call'.path) :
           sig'[b] = sig[b] /\ (b \in frc' <=> b \in frc)]_hdlVars
  BY DEF Spares
<1> QED
  BY <1>1, <1>2, PTL DEF OnlySelected

(* No call of the HDL backdoor (uvm_hdl_questa.c, uvm_hdl_xcelium.c,       *)
(* uvm_hdl_vcs.c) changes the value or the force of a bit its path does    *)
(* not name, whatever the width, the word size, the paths and the values.  *)
THEOREM OnlySelectedBitsChange == HdlSpec => OnlySelected
BY SparingSteps, HdlSpecInv, PTL DEF HdlSpec
=============================================================================
