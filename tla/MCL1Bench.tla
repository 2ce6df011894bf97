----------------------------- MODULE MCL1Bench -----------------------------
(***************************************************************************)
(* One set of two ways and three lines that compete for it: the smallest   *)
(* cache that hits, misses and evicts clean and dirty lines.               *)
(***************************************************************************)
EXTENDS L1Bench

(* Two lines of memory start with 0 bytes, the others with 1 bytes.        *)
MCPattern ==
  [l \in Line |-> [w \in WordSel |-> [b \in ByteSel |-> IF l.tag = 1 THEN 1 ELSE 0]]]

Address0 == [tag |-> 0, index |-> 0, word |-> 0]

(* Reads, full writes of every value, and a write whose mask leaves every  *)
(* byte out; a read's data is not looked at.                               *)
Zero  == [b \in ByteSel |-> 0]
Reads == [addr : Addr, wr : {FALSE}, wdata : {Zero}, wmask : {{}}]
Writes ==
  [addr : Addr, wr : {TRUE}, wdata : WordVal, wmask : {ByteSel}] \cup
  [addr : {Address0}, wr : {TRUE}, wdata : {Zero}, wmask : {{}}]
ReadsAndWrites == Reads \cup Writes

=============================================================================
