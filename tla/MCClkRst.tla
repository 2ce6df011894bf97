------------------------------ MODULE MCClkRst -------------------------------
(***************************************************************************)
(* Two sequences that wait (three in the run with ties) and the one that   *)
(* starts, stops and resets; the counts are small enough to meet.          *)
(***************************************************************************)
EXTENDS ClkRst
=============================================================================
