------------------------------- MODULE MCUvmDpi ------------------------------
(***************************************************************************)
(* A small instance of the DPI library: words of two bits, a vector of     *)
(* three of them, objects of one word and of more than one; command lines  *)
(* with files within files; globs and strings of up to three characters,   *)
(* and a few longer ones, on which the matchers go back several times.     *)
(***************************************************************************)
EXTENDS UvmDpi, SequencesExt

APath(k, n, l, r) == [known |-> k, kind |-> n, lhs |-> l, rhs |-> r]
MCPaths == {APath(TRUE, "whole", 0, 0), APath(FALSE, "whole", 0, 0), APath(TRUE, "bit", 0, 1),
            APath(TRUE, "part", 2, 1), APath(TRUE, "part", 0, 1), APath(TRUE, "part", 1, 3)}

AVector(q) == [k \in 0 .. 5 |-> q[k + 1]]
MCDeposits == {AVector(<<"0", "1", "1", "1", "0", "1">>),
               AVector(<<"1", "x", "0", "0", "1", "0">>)}
MCDrives == {AVector(<<"0", "0", "1", "0", "0", "0">>),
             AVector(<<"1", "h", "0", "0", "0", "0">>)}

(* Files with a file in them, twice the same argument, an empty one.       *)
Top == [text |-> "top"]
UvmX == [text |-> "+uvm_x"]
OneFile == [file |-> <<UvmX>>]
Texts == {[text |-> "+plus"], [text |-> "-uvm_y"], [text |-> ""]}
Files == {OneFile, [file |-> <<>>],
          [file |-> <<[text |-> "+plus"], OneFile, [text |-> "-uvm_y"]>>]}
MCArguments == Texts \cup Files \cup {Top, UvmX}
MCCommandLines == {<<Top>> \o q : q \in SeqOf(Texts \cup Files, 3)}

MCCharacters == {"a", "b", "*", "?", "+", ".", "/", "(", "^", "$"}
MCGlobs == SeqOf({"a", "*", "?", "+", ".", "/"}, 3)
           \cup {<<"/", "a", "*", "/">>, <<"/", "(", "/">>, <<"/", "a", "$", "/">>,
                 <<"^", "a">>, <<"a", "$">>, <<"*", "a", "?", "*">>,
                 <<"*", "a", "b", "*", "a">>, <<"a", "*", "a", "b">>}
MCStrings == SeqOf({"a", "b", "."}, 3) \cup {<<"a", "a", "b", "a">>}

(* The history of the last call tells no two states apart.                 *)
WithoutCall == <<service, backend, lang, W, sig, frc, value, partsel, ret, cmdVars, reVars>>
=============================================================================
