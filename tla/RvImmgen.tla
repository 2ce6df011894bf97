------------------------------ MODULE RvImmgen -------------------------------
(***************************************************************************)
(* The immediate generator (rv_immgen): the immediate of an instruction    *)
(* word, gathered from the bits its format scatters it over.  A word is a  *)
(* function from bit positions to 0 and 1.  A format is the concatenation  *)
(* the code writes: the positions, from left to right, that make up the    *)
(* immediate before it is sign-extended.                                   *)
(***************************************************************************)
EXTENDS Integers, Sequences

Positions == 0 .. 31
InstrWord == [Positions -> {0, 1}]

ZeroBit == -1
Zeros(n) == [i \in 1 .. n |-> ZeroBit]
Slice(hi, lo) == [i \in 1 .. hi - lo + 1 |-> hi - i + 1]   \* in[hi:lo]
OneBit(k) == <<k>>

IType == Slice(31, 20)
SType == Slice(31, 25) \o Slice(11, 7)
BTypeUnscrambled == Slice(31, 25) \o Slice(11, 7) \o Zeros(1)   \* faulty variant
BType == OneBit(31) \o OneBit(7) \o Slice(30, 25) \o Slice(11, 8) \o Zeros(1)
UType == Slice(31, 12) \o Zeros(12)
JType == OneBit(31) \o Slice(19, 12) \o OneBit(20) \o Slice(30, 21) \o Zeros(1)

(* signed'(...), then cast to the width of the datapath.                   *)
Extended(in, fields) ==
  LET n == Len(fields)
      from(k) == IF k < n THEN fields[n - k] ELSE fields[1]
  IN  [k \in Positions |-> IF from(k) = ZeroBit THEN 0 ELSE in[from(k)]]

(* in[6:0], written in binary as in the source.                            *)
Opcode(in) == [i \in 1 .. 7 |-> in[7 - i]]

ImmOut(in) ==
  CASE Opcode(in) = <<1,1,0,1,1,1,1>> -> Extended(in, JType)
    [] Opcode(in) \in {<<1,1,0,0,1,1,1>>, <<0,0,1,0,0,1,1>>, <<0,0,0,0,0,1,1>>}
                                      -> Extended(in, IType)
    [] Opcode(in) = <<0,1,0,0,0,1,1>> -> Extended(in, SType)
    [] Opcode(in) = <<1,1,0,0,0,1,1>> -> Extended(in, BType)
    [] Opcode(in) \in {<<0,1,1,0,1,1,1>>, <<0,0,1,0,1,1,1>>}
                                      -> Extended(in, UType)
    [] OTHER                          -> [k \in Positions |-> 0]
=============================================================================
