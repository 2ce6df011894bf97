------------------------------ MODULE MCRegress ------------------------------
(***************************************************************************)
(* Lists of up to three entries, one of them with a test that is listed    *)
(* twice, in sequence and with two or three jobs.                          *)
(***************************************************************************)
EXTENDS Regress
MCLists == {<<"a">>, <<"a", "b", "c">>, <<"a", "b", "a">>, <<"a", "a", "b">>}
=============================================================================
