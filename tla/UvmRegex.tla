------------------------------ MODULE UvmRegex -------------------------------
(***************************************************************************)
(* Name matching in UVM (uvm_is_match, uvm_globals.svh:270-274): a glob is *)
(* turned into a POSIX regular expression by uvm_glob_to_re and matched by *)
(* uvm_re_match, both in uvm_regex.cc.  A library built without the DPI    *)
(* uses the matcher of uvm_regex.svh:31-79 on the glob itself.  A string   *)
(* is a sequence of characters.                                            *)
(***************************************************************************)
EXTENDS Integers, Sequences

CONSTANTS
  Characters,      \* what names are written in
  Globs, Strings   \* what callers match, and against what

NoChar == "NUL"   \* what getc returns beyond the end of a string

RegexMaxLength == 2048   \* UVM_REGEX_MAX_LENGTH

(* The alternatives and intervals of POSIX are not in the model of regcomp;*)
(* a glob leaves room for its expression, two characters for each of its   *)
(* own, in the buffer uvm_re.                                              *)
ASSUME GlobsAssumption ==
  /\ Globs \subseteq Seq(Characters) /\ Strings \subseteq Seq(Characters)
  /\ \A g \in Globs : 2 * Len(g) + 4 <= RegexMaxLength
  /\ {NoChar, "|", "{", "}"} \cap Characters = {}

VARIABLES
  glob, str,   \* the arguments of uvm_is_match
  uvm_re,      \* the regular expression
  err,         \* what uvm_re_match returned: 0 is a match
  step,        \* how far the call is
  sv           \* where the matcher of uvm_regex.svh is, and what it returned

reVars == <<glob, str, uvm_re, err, step, sv>>

-----------------------------------------------------------------------------
(* uvm_glob_to_re.                                                         *)

EmptyRegex == <<"/", "^", "$", "/">>

(* Faulty variant: a dot or a bracket keeps its special meaning.           *)
MetacharacterDot(c) ==
  CASE c = "*" -> <<".", "*">> [] c = "+" -> <<".", "+">> [] c = "?" -> <<".">>
    [] OTHER -> <<c>>

(* The regular expression for one character of a glob.                     *)
Metacharacter(c) ==
  CASE c = "*" -> <<".", "*">>
    [] c = "+" -> <<".", "+">>
    [] c = "?" -> <<".">>
    [] c \in {".", "[", "]", "(", ")"} -> <<"\\", c>>
    [] OTHER -> <<c>>

(* The loop over the glob, after its first n characters.                   *)
Converted(g) ==
  LET conv[n \in 0 .. Len(g)] ==
        IF n = 0 THEN <<>> ELSE conv[n - 1] \o Metacharacter(g[n])
  IN  conv

UvmGlobToRe(g) ==
  IF g = <<>> \/ g = <<"/">> THEN EmptyRegex
  ELSE IF g[1] = "/" /\ g[Len(g)] = "/" THEN g
  ELSE <<"/">> \o (IF g[1] = "^" THEN <<>> ELSE <<"^">>) \o Converted(g)[Len(g)]
              \o (IF g[Len(g)] = "$" THEN <<>> ELSE <<"$">>) \o <<"/">>

(* uvm_re_match takes the slashes off again.                               *)
Unbracketed(re) ==
  IF Len(re) > 1 /\ re[1] = "/" /\ re[Len(re)] = "/"
  THEN SubSeq(re, 2, Len(re) - 1) ELSE re

-----------------------------------------------------------------------------
(* regcomp and regexec of the C library, for the expressions above: items  *)
(* that match one character or an end of the string, with a repetition.    *)
(* An open parenthesis, or a repetition of nothing, is refused.            *)

AddChar(acc, c) ==
  LET item(kind) == [items |-> Append(acc.items, [kind |-> kind, char |-> c, rep |-> "once"]),
                     mode |-> "plain"]
  IN  IF acc.mode = "bad" THEN acc
      ELSE IF acc.mode = "escaped" THEN item("char")
      ELSE CASE c = "\\" -> [acc EXCEPT !.mode = "escaped"]
             [] c \in {"*", "+", "?"} ->
                  IF acc.items = <<>> THEN [acc EXCEPT !.mode = "bad"]
                  ELSE [acc EXCEPT !.items[Len(acc.items)].rep = c]
             [] c = "." -> item("any")
             [] c = "^" -> item("first")
             [] c = "$" -> item("last")
             [] c = "(" -> [acc EXCEPT !.mode = "bad"]
             [] OTHER -> item("char")
Compiled(re) ==
  LET comp[n \in 0 .. Len(re)] ==
        IF n = 0 THEN [items |-> <<>>, mode |-> "plain"] ELSE AddChar(comp[n - 1], re[n])
  IN  comp
RegComp(re) == Compiled(re)[Len(re)]

ItemMatches(it, s, b, e) ==
  CASE it.kind = "first" -> b = 0 /\ e = 0
    [] it.kind = "last"  -> b = Len(s) /\ e = b
    [] OTHER ->
         /\ \A i \in b + 1 .. e : it.kind = "any" \/ s[i] = it.char
         /\ it.rep = "once" => e = b + 1
         /\ it.rep = "+" => e > b
         /\ it.rep = "?" => e <= b + 1

(* The places of s that the first n items of an expression can reach, when *)
(* it starts anywhere.                                                     *)
Onward(from, it, s) == {e \in 0 .. Len(s) : \E b \in from : b <= e /\ ItemMatches(it, s, b, e)}
Places(items, s) ==
  LET reach[n \in 0 .. Len(items)] ==
        IF n = 0 THEN 0 .. Len(s) ELSE Onward(reach[n - 1], items[n], s)
  IN  reach
Reach(items, s) == Places(items, s)[Len(items)]

UvmReMatch(re, s) ==
  LET rexp == RegComp(Unbracketed(re))
  IN  IF rexp.mode = "plain" /\ Reach(rexp.items, s) # {} THEN 0 ELSE 1

-----------------------------------------------------------------------------
(* The matcher without the DPI: e and s are where it is in the glob and in *)
(* the string, es and ss where it goes back to when a "*" took too little. *)
(* One action for each turn of its loops.                                  *)
At(q, i) == IF i < Len(q) THEN q[i + 1] ELSE NoChar
(* Faulty variant: ? is no wildcard.                                       *)
FitsExactly(re, s, e, i) == At(re, e) = At(s, i)

(* A character of the glob fits itself, and ? any character.               *)
Fits(re, s, e, i) == At(re, e) = At(s, i) \/ At(re, e) = "?"

SvRe(g) == IF g # <<>> /\ g[1] = "^" THEN Tail(g) ELSE g
Pattern == SvRe(glob)
AtStar == At(Pattern, sv.e) = "*"
AtEnd == sv.s = Len(str)
FitsHere == Fits(Pattern, str, sv.e, sv.s)
OneOn == sv' = [sv EXCEPT !.e = @ + 1, !.s = @ + 1]
Return(answer) == sv' = [sv EXCEPT !.err = answer] /\ step' = "done"
SvUnchanged == UNCHANGED <<glob, str, uvm_re, err>>

SvHead ==
  /\ step = "head" /\ SvUnchanged
  /\ \/ (AtEnd \/ AtStar) /\ step' = "stars" /\ UNCHANGED sv
     \/ ~AtEnd /\ ~AtStar /\ FitsHere /\ OneOn /\ UNCHANGED step
     \/ ~AtEnd /\ ~AtStar /\ ~FitsHere /\ Return(1)

SvStars ==
  /\ step = "stars" /\ SvUnchanged
  /\ \/ AtEnd /\ step' = "tail" /\ UNCHANGED sv
     \/ ~AtEnd /\ AtStar /\ sv.e + 1 = Len(Pattern) /\ Return(0)
     \/ /\ ~AtEnd /\ AtStar /\ sv.e + 1 # Len(Pattern)
        /\ sv' = [sv EXCEPT !.e = @ + 1, !.es = sv.e + 1, !.ss = sv.s + 1] /\ UNCHANGED step
     \/ ~AtEnd /\ ~AtStar /\ FitsHere /\ OneOn /\ UNCHANGED step
     \/ /\ ~AtEnd /\ ~AtStar /\ ~FitsHere
        /\ sv' = [sv EXCEPT !.e = sv.es, !.s = sv.ss, !.ss = @ + 1] /\ UNCHANGED step

SvTail ==
  /\ step = "tail" /\ SvUnchanged
  /\ \/ AtStar /\ sv' = [sv EXCEPT !.e = @ + 1] /\ UNCHANGED step
     \/ ~AtStar /\ sv.e = Len(Pattern) /\ Return(0)
     \/ ~AtStar /\ sv.e # Len(Pattern) /\ Return(1)

-----------------------------------------------------------------------------
ReIdle == /\ uvm_re = <<>> /\ err = 0 /\ step = "convert"
          /\ sv = [e |-> 0, s |-> 0, es |-> 0, ss |-> 0, err |-> 0]
ReInit == glob \in Globs /\ str \in Strings /\ ReIdle

Convert ==
  /\ step = "convert" /\ step' = "match"
  /\ uvm_re' = UvmGlobToRe(glob)
  /\ UNCHANGED <<glob, str, err, sv>>

(* Without the DPI the empty glob returns 0 before the first loop.         *)
Match ==
  /\ step = "match" /\ step' = IF glob = <<>> THEN "done" ELSE "head"
  /\ err' = UvmReMatch(uvm_re, str)
  /\ UNCHANGED <<glob, str, uvm_re, sv>>

ReNext == Convert \/ Match \/ SvHead \/ SvStars \/ SvTail
ReSpec == ReInit /\ [][ReNext]_reVars

-----------------------------------------------------------------------------
(* What a glob means: it can be cut along the string so that each of its   *)
(* characters covers its part, "*" any part, "+" any part but the empty    *)
(* one, "?" one character, and any other only itself.                      *)
Covers(c, s, b, e) ==
  CASE c = "*" -> b <= e
    [] c = "+" -> b < e
    [] c = "?" -> e = b + 1
    [] OTHER   -> e = b + 1 /\ s[e] = c
GlobMatches(g, s) ==
  \E cut \in [0 .. Len(g) -> 0 .. Len(s)] :
    /\ cut[0] = 0 /\ cut[Len(g)] = Len(s)
    /\ \A i \in 1 .. Len(g) : Covers(g[i], s, cut[i - 1], cut[i])

(* A glob's own ^ and $ at its ends are the anchors it would get anyway.   *)
WithoutAnchors(g) ==
  LET from == IF g # <<>> /\ g[1] = "^" THEN 2 ELSE 1
      to == IF g # <<>> /\ g[Len(g)] = "$" THEN Len(g) - 1 ELSE Len(g)
  IN  SubSeq(g, from, to)

(* A slash at both ends makes a regular expression of a glob, and so does  *)
(* what is passed on as it is: a backslash, or an anchor inside.           *)
IsGlob(g) ==
  /\ ~(g # <<>> /\ g[1] = "/" /\ g[Len(g)] = "/")
  /\ \A i \in 1 .. Len(g) : /\ g[i] # "\\"
                            /\ g[i] = "^" => i = 1
                            /\ g[i] = "$" => i = Len(g)

(* The conversion, the slashes put on and taken off, the anchors and the   *)
(* unanchored search of regexec together match exactly what the glob       *)
(* means: no dot or bracket of a hierarchical name acts as a wildcard.     *)
GlobAgrees ==
  step \notin {"convert", "match"} /\ IsGlob(glob) =>
    (err = 0 <=> GlobMatches(WithoutAnchors(glob), str))

(* A library without the DPI gives the same answer for globs of * and ?.   *)
(* It has no + and no $, and the empty glob matches everything there.      *)
MatchersAgree ==
  /\ step = "done" /\ IsGlob(glob) /\ glob # <<>>
  /\ \A i \in 1 .. Len(glob) : glob[i] \notin {"+", "$"}
  => sv.err = err
=============================================================================
