------------------------------- MODULE UvmHdl --------------------------------
(***************************************************************************)
(* The HDL backdoor of the UVM DPI library: the six calls uvm_hdl.svh      *)
(* imports, made one at a time by the testbench on one object, while the   *)
(* design goes on driving it.  uvm_hdl.c picks the vendor file when the    *)
(* library is compiled, so backend never changes, nor does the language    *)
(* of the object.  The regression itself builds the Verilator stub         *)
(* (scripts/run:281-292).                                                  *)
(***************************************************************************)
EXTENDS UvmHdlQuesta, UvmHdlXcelium, UvmHdlVcs

VARIABLE call  \* history: the call just made, its path and its vector

hdlVars == <<backend, lang, W, sig, frc, value, partsel, ret, call>>

Calls == [op : {"check_path", "read", "release_and_read", "release"}, path : Paths]
         \cup [op : {"deposit", "force"}, path : Paths, arg : Deposits]
         \cup [op : {"none"}]

TypeOK ==
  /\ backend \in {"questa", "xcelium", "vcs", "verilator"}
  /\ lang \in {"vlog", "vhdl"} /\ W \in Widths
  /\ sig \in [Bits -> Levels] /\ frc \in SUBSET Bits
  /\ value \in Vector
  /\ partsel \in BOOLEAN /\ ret \in {0, 1}
  /\ call \in Calls

(* The object holds any value of the design's; a Verilog one no "h".       *)
Plain(d) == lang = "vlog" => \A b \in Bits : d[b] # "h"

HdlInit ==
  /\ backend \in {"questa", "xcelium", "vcs", "verilator"}
  /\ lang \in (IF backend = "verilator" THEN {"vlog"} ELSE {"vlog", "vhdl"})
  /\ W \in Widths
  /\ \E d \in Drives : Plain(d) /\ sig = [b \in Bits |-> d[b]]
  /\ frc = {}
  /\ value \in Deposits
  /\ partsel = FALSE
  /\ ret = 0
  /\ call = [op |-> "none"]

-----------------------------------------------------------------------------
(* The Verilator stub answers 0 to every call and does nothing else.       *)
StubCall == Failed /\ UNCHANGED <<sig, frc, value, partsel>>

CheckPath(p) ==
  /\ \/ backend = "questa"    /\ QCheckPath(p)
     \/ backend = "xcelium"   /\ XCheckPath(p)
     \/ backend = "vcs"       /\ VCheckPath(p)
     \/ backend = "verilator" /\ StubCall
  /\ call' = [op |-> "check_path", path |-> p]
  /\ UNCHANGED config

Read(p) ==
  /\ \/ backend = "questa"    /\ \E junk \in Junk : QRead(p, junk)
     \/ backend = "xcelium"   /\ \E weak \in Weak, junk \in Junk :
                                    XRead(p, weak, junk)
     \/ backend = "vcs"       /\ \E junk \in {0, 1} : VRead(p, junk)
     \/ backend = "verilator" /\ StubCall
  /\ call' = [op |-> "read", path |-> p]
  /\ UNCHANGED config

Deposit(p, v) ==
  /\ \/ backend = "questa"    /\ \E junk \in JunkBit : QDeposit(p, v, junk)
     \/ backend = "xcelium"   /\ XDeposit(p, v)
     \/ backend = "vcs"       /\ \E fits \in BOOLEAN : VDeposit(p, v, fits)
     \/ backend = "verilator" /\ StubCall
  /\ call' = [op |-> "deposit", path |-> p, arg |-> v]
  /\ UNCHANGED config

ForceValue(p, v) ==
  /\ \/ backend = "questa"    /\ \E junk \in JunkBit : QForce(p, v, junk)
     \/ backend = "xcelium"   /\ XForce(p, v)
     \/ backend = "vcs"       /\ \E fits \in BOOLEAN : VForce(p, v, fits)
     \/ backend = "verilator" /\ StubCall
  /\ call' = [op |-> "force", path |-> p, arg |-> v]
  /\ UNCHANGED config

ReleaseAndRead(p) ==
  /\ \/ backend = "questa"    /\ \E junk \in Junk : QReleaseAndRead(p, junk)
     \/ backend = "xcelium"   /\ \E weak \in Weak, junk \in Junk :
                                    XReleaseAndRead(p, weak, junk)
     \/ backend = "vcs"       /\ VReleaseAndRead(p)
     \/ backend = "verilator" /\ StubCall
  /\ call' = [op |-> "release_and_read", path |-> p]
  /\ UNCHANGED config

Release(p) ==
  /\ \/ backend = "questa"    /\ QRelease(p)
     \/ backend = "xcelium"   /\ XRelease(p)
     \/ backend = "vcs"       /\ VRelease(p)
     \/ backend = "verilator" /\ StubCall
  /\ call' = [op |-> "release", path |-> p]
  /\ UNCHANGED config

(* The design drives the bits nobody forces.                               *)
Drive(d) ==
  /\ Plain(d)
  /\ sig' = [b \in Bits |-> IF b \in frc THEN sig[b] ELSE d[b]]
  /\ call' = [op |-> "none"]
  /\ UNCHANGED config /\ UNCHANGED <<frc, value, partsel, ret>>

HdlNext ==
  \/ \E p \in Paths : \/ CheckPath(p) \/ Read(p) \/ ReleaseAndRead(p) \/ Release(p)
                      \/ \E v \in Deposits : Deposit(p, v) \/ ForceValue(p, v)
  \/ \E d \in Drives : Drive(d)

HdlSpec == HdlInit /\ [][HdlNext]_hdlVars
-----------------------------------------------------------------------------
(* What uvm_hdl.svh:62-128 promises, and for which calls the C code keeps  *)
(* it.  Reads, writes and releases of Verilog objects it keeps; on the     *)
(* VHDL side reads of objects of one word whose bits are 0, 1, X or Z, and *)
(* writes of 0 and 1.  The value that release_and_read owes its caller is  *)
(* another matter: VCS never returns it, and Questa not for a range.       *)

Selection(p) == {b \in Bits : p.known /\ Selects(p, b)}
TwoState(v, n) == \A k \in Positions : k < n => v[k] \in {"0", "1"}
OneWord(p) == Width(p) <= ChunkBits /\ \A b \in Selection(p) : sig[b] # "h"

Readable(p) ==
  CASE backend = "questa"    -> lang = "vhdl" => Complete(p) /\ OneWord(p)
    [] backend = "xcelium"   -> lang = "vhdl" => OneWord(p)
    [] backend = "vcs"       -> VHandle(p) /\ (lang = "vhdl" => OneWord(p))
    [] OTHER               -> TRUE

Writable(p, v, flag) ==
  CASE backend = "questa"    -> lang = "vhdl" =>
         \/ p.kind = "whole"
         \/ p.kind = "part" /\ flag = "deposit" /\ Width(p) <= W /\ TwoState(v, Width(p))
         \/ p.kind = "bit" /\ flag = "deposit" /\ p.rhs = 0 /\ TwoState(v, 1)
    [] backend = "xcelium"   -> lang = "vhdl" => TwoState(v, MaxWidth)
    [] backend = "vcs"       -> lang = "vhdl" =>
         /\ TwoState(v, W)
         /\ \A k \in Positions : k >= W /\ Chunk(k) < Chunks(W) => v[k] = "0"
    [] OTHER               -> TRUE

(* VCS only releases.  Questa has cut the path down to the last bit of the *)
(* range by the time it reads; so has Xcelium, where the call fails then.  *)
ReleaseReadable(p) ==
  CASE backend = "questa"    -> IF lang = "vlog" THEN p.kind # "part" ELSE Readable(p)
    [] backend = "xcelium"   -> Readable(p)
    [] backend = "vcs"       -> FALSE
    [] OTHER               -> TRUE

(* A read that succeeds returns the object's selected bits in the order of *)
(* the path, whatever calls and failures came before it.                   *)
ReadIsTrue ==
  [][call'.op = "read" /\ ret' = 1 /\ Readable(call'.path) =>
       \A i \in 0 .. Width(call'.path) - 1 : value'[i] = sig[BitAt(call'.path, i)]]_hdlVars

(* A write that succeeds leaves the caller's value on every selected bit   *)
(* (a deposit spares the forced ones), and a force freezes them all.       *)
WriteLands ==
  [][call'.op \in {"deposit", "force"} /\ ret' = 1 =>
       LET p == call'.path
           v == call'.arg
       IN  Writable(p, v, call'.op) =>
             \A b \in Selection(p) :
               IF call'.op = "deposit"
               THEN b \notin frc => sig'[b] = v[IndexOf(p, b)]
               ELSE b \in frc' /\ sig'[b] = v[IndexOf(p, b)]]_hdlVars

(* A release that succeeds lifts the force of every selected bit.  With    *)
(* release_and_read the caller has the value they are left with wherever   *)
(* the code keeps that promise at all: not with VCS, not for a range of    *)
(* bits with Questa, and on the VHDL side as for a read.                   *)
ReleaseLands ==
  [][call'.op \in {"release", "release_and_read"} /\ ret' = 1 =>
       LET p == call'.path IN
       /\ Selection(p) \cap frc' = {}
       /\ call'.op = "release_and_read" /\ ReleaseReadable(p) =>
            \A i \in 0 .. Width(p) - 1 : value'[i] = sig'[BitAt(p, i)]]_hdlVars

(* What uvm_hdl.svh:104-106 says of release_and_read, here of Verilog      *)
(* objects: "Returns 1 if the call succeeded", and "~value~ is set to the  *)
(* HDL value after the release", whatever the vendor and the path.         *)
ReleaseAndReadReturns ==
  [][call'.op = "release_and_read" /\ ret' = 1 /\ lang = "vlog" =>
       LET p == call'.path IN
       \A i \in 0 .. Width(p) - 1 : value'[i] = sig'[BitAt(p, i)]]_hdlVars

(* No call changes the value or the force of a bit its path does not name, *)
(* although ranges are rewritten in place, bit after bit.                  *)
OnlySelected ==
  [][call'.op # "none" =>
       \A b \in Bits \ Selection(call'.path) :
         sig'[b] = sig[b] /\ (b \in frc' <=> b \in frc)]_hdlVars

(* A deposit that fails on a range that runs off the object has written a  *)
(* prefix of it: no bit is new unless all before it exist and were set.    *)
FailedDepositIsPrefix ==
  [][call'.op = "deposit" /\ ret' = 0 =>
       LET p == call'.path IN
       \A b \in Selection(p) : sig'[b] # sig[b] =>
         \A j \in 0 .. IndexOf(p, b) - 1 :
           /\ BitAt(p, j) \in Bits
           /\ BitAt(p, j) \in frc \/ sig'[BitAt(p, j)] = call'.arg[j]]_hdlVars
=============================================================================
