------------------------------ MODULE ClkCount -------------------------------
(***************************************************************************)
(* What the clock agent promises to the sequences that wait on it          *)
(* (clk_rst_sequence_lib.sv:161-167): a request to wait n clocks is        *)
(* answered n rising edges later, before the next edge, whoever else       *)
(* waits.  The queue of deltas behind it is the business of ClkRst.        *)
(***************************************************************************)
EXTENDS Naturals

CONSTANTS Clients, Counts

VARIABLE due   \* for each client that waits, the edges still to come

Waiting == DOMAIN due

Init == due = [c \in {} |-> 0]

Request(c, n) ==
  /\ c \notin Waiting
  /\ due' = [d \in Waiting \cup {c} |-> IF d = c THEN n ELSE due[d]]

Edge ==
  /\ \A c \in Waiting : due[c] > 0
  /\ due' = [c \in Waiting |-> due[c] - 1]

(* All whose time has come are answered together.                          *)
Answer ==
  /\ \E c \in Waiting : due[c] = 0
  /\ due' = [c \in {d \in Waiting : due[d] > 0} |-> due[c]]

Next == Edge \/ Answer \/ \E c \in Clients, n \in Counts : Request(c, n)

Spec == Init /\ [][Next]_due
=============================================================================
