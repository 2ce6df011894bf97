---------------------------- MODULE UvmDpi_proofs ----------------------------
(***************************************************************************)
(* Name matching, with and without the DPI, for every glob and string; and *)
(* the library as one unit.                                                *)
(***************************************************************************)
EXTENDS UvmDpi, UvmHdl_proofs, UvmCmdline_proofs

-----------------------------------------------------------------------------
(* Recursion over the naturals up to a bound has a solution.               *)
Solves(f, m, S, a, H) ==
  f \in [0 .. m -> S] /\ f[0] = a /\ \A n \in 1 .. m : f[n] = H[n][f[n - 1]]

LEMMA Recursion ==
  ASSUME NEW S, NEW a \in S, NEW N \in Nat, NEW H \in [1 .. N -> [S -> S]]
  PROVE  \E f : Solves(f, N, S, a, H)
<1> DEFINE T == {m \in Nat : \E f : Solves(f, m, S, a, H)}
<1>1. 0 \in T
  <2>1. Solves([k \in 0 .. 0 |-> a], 0, S, a, H)
    BY DEF Solves
  <2> QED
    BY <2>1
<1>2. ASSUME NEW k \in 0 .. N, k \in T, k < N PROVE k + 1 \in T
  <2>1. PICK f : Solves(f, k, S, a, H)
    BY <1>2
  <2> DEFINE g == [i \in 0 .. k + 1 |-> IF i <= k THEN f[i] ELSE H[k + 1][f[k]]]
  <2>2. f[k] \in S /\ k + 1 \in 1 .. N
    BY <1>2, <2>1 DEF Solves
  <2>3. H[k + 1] \in [S -> S]
    BY <2>2
  <2>4. H[k + 1][f[k]] \in S
    BY <2>2, <2>3
  <2>5. g \in [0 .. k + 1 -> S]
    BY <2>1, <2>4 DEF Solves
  <2>6. g[0] = a
    BY <2>1 DEF Solves
  <2>7. ASSUME NEW n \in 1 .. k + 1 PROVE g[n] = H[n][g[n - 1]]
    <3>1. CASE n = k + 1
      BY <3>1
    <3>2. CASE n # k + 1
      <4>1. n \in 1 .. k /\ n - 1 \in 0 .. k /\ n \in 0 .. k
        BY <3>2
      <4> QED
        BY <4>1, <2>1 DEF Solves
    <3> QED
      BY <3>1, <3>2
  <2>8. Solves(g, k + 1, S, a, H)
    BY <2>5, <2>6, <2>7 DEF Solves
  <2> QED
    BY <2>8
<1> HIDE DEF T
<1>3. \A k \in 0 .. N : k \in T
  BY <1>1, <1>2, UpTo
<1>4. N \in T
  BY <1>3
<1> QED
  BY <1>4 DEF T

LEMMA StaysIn ==
  ASSUME NEW S, NEW N \in Nat, NEW f, f[0] \in S,
         \A n \in 1 .. N : f[n - 1] \in S => f[n] \in S
  PROVE  \A n \in 0 .. N : f[n] \in S
<1> DEFINE T == {n \in Nat : f[n] \in S}
<1>1. 0 \in T
  OBVIOUS
<1>2. ASSUME NEW k \in 0 .. N, k \in T, k < N PROVE k + 1 \in T
  <2>1. k + 1 \in 1 .. N /\ (k + 1) - 1 = k
    BY <1>2
  <2> QED
    BY <1>2, <2>1
<1> HIDE DEF T
<1>3. \A k \in 0 .. N : k \in T
  BY <1>1, <1>2, UpTo
<1> QED
  BY <1>3 DEF T

-----------------------------------------------------------------------------
(* The regular expression of a glob.                                       *)
Letters == Characters \cup {".", "*", "+", "\\", "^", "$", "/"}
Words == Seq(Letters)
Nothing == <<>>

LEMMA ThreeWords ==
  ASSUME NEW a \in Words, NEW b \in Words, NEW c \in Words
  PROVE  a \o b \in Words /\ (a \o b) \o c = a \o (b \o c) /\ a \o (b \o c) \in Words
<1>1. a \o b \in Words /\ b \o c \in Words
  BY ConcatProperties DEF Words
<1>2. (a \o b) \o c = a \o (b \o c)
  BY ConcatAssociative DEF Words
<1> DEFINE bc == b \o c
<1>3. a \o bc \in Words
  <2> HIDE DEF bc
  <2>1. bc \in Words
    BY <1>1 DEF bc
  <2> QED
    BY <2>1, ConcatProperties DEF Words
<1> QED
  BY <1>1, <1>2, <1>3

LEMMA MetaIsWord ==
  ASSUME NEW c \in Letters PROVE Metacharacter(c) \in Words
<1>1. \A x, y \in Letters : <<x>> \in Words /\ <<x, y>> \in Words
  BY DEF Words
<1> QED
  BY <1>1 DEF Metacharacter, Letters

LEMMA ConvertedIs ==
  ASSUME NEW g \in Words
  PROVE  /\ Converted(g) \in [0 .. Len(g) -> Words]
         /\ Converted(g)[0] = Nothing
         /\ \A n \in 1 .. Len(g) : Converted(g)[n] = Converted(g)[n - 1] \o Metacharacter(g[n])
<1> DEFINE H == [n \in 1 .. Len(g) |-> [w \in Words |-> w \o Metacharacter(g[n])]]
           Eq(f) == f = [n \in 0 .. Len(g) |->
                          IF n = 0 THEN <<>> ELSE f[n - 1] \o Metacharacter(g[n])]
<1>1. Len(g) \in Nat /\ Nothing \in Words /\ \A n \in 1 .. Len(g) : g[n] \in Letters
  BY DEF Words, Nothing
<1>2. H \in [1 .. Len(g) -> [Words -> Words]]
  <2>1. ASSUME NEW n \in 1 .. Len(g), NEW w \in Words PROVE w \o Metacharacter(g[n]) \in Words
    <3> DEFINE m == Metacharacter(g[n])
    <3>1. m \in Words
      BY <1>1, MetaIsWord
    <3> HIDE DEF m
    <3> QED
      BY <3>1, ConcatProperties DEF Words, m
  <2> QED
    BY <2>1
<1>3. PICK f : Solves(f, Len(g), Words, Nothing, H)
  <2> HIDE DEF H
  <2> QED
    BY <1>1, <1>2, Recursion
<1> DEFINE w(n) == f[n - 1] \o Metacharacter(g[n])
<1>4. f \in [0 .. Len(g) -> Words] /\ f[0] = Nothing
  BY <1>3 DEF Solves
<1>5. ASSUME NEW n \in 1 .. Len(g) PROVE f[n] = w(n)
  <2>1. f[n - 1] \in Words /\ f[n] = H[n][f[n - 1]]
    <3> HIDE DEF H
    <3> QED
      BY <1>1, <1>3 DEF Solves
  <2> QED
    BY <2>1
<1>7. Eq(f)
  <2>1. f = [n \in 0 .. Len(g) |-> IF n = 0 THEN <<>> ELSE w(n)]
    <3> HIDE DEF w, H
    <3> QED
      BY <1>1, <1>4, <1>5 DEF Nothing
  <2> QED
    BY <2>1
<1>8. Converted(g) = CHOOSE h : Eq(h)
  BY DEF Converted
<1>9. Eq(Converted(g))
  <2> HIDE DEF Eq
  <2> QED
    BY <1>7, <1>8
<1> DEFINE c == Converted(g)
<1>10. DOMAIN c = 0 .. Len(g) /\ c[0] = Nothing /\ \A n \in 1 .. Len(g) : c[n] = c[n - 1] \o Metacharacter(g[n])
  BY <1>1, <1>9 DEF Nothing
<1>11. c = [n \in 0 .. Len(g) |-> c[n]]
  BY <1>9
<1> HIDE DEF c
<1>12. ASSUME NEW n \in 1 .. Len(g), c[n - 1] \in Words PROVE c[n] \in Words
  <2> DEFINE m == Metacharacter(g[n])
             b == c[n - 1]
  <2>1. m \in Words /\ b \in Words /\ c[n] = b \o m
    BY <1>1, <1>10, <1>12, MetaIsWord
  <2> HIDE DEF m, b
  <2> QED
    BY <2>1, ConcatProperties DEF Words
<1>13. \A n \in 0 .. Len(g) : c[n] \in Words
  BY <1>1, <1>10, <1>12, StaysIn
<1>14. c \in [0 .. Len(g) -> Words]
  BY <1>11, <1>13
<1> QED
  BY <1>10, <1>14 DEF c

-----------------------------------------------------------------------------
(* What regcomp makes of it, one character after the other.                *)
Item == [kind : {"char", "any", "first", "last"}, char : Letters, rep : {"once", "*", "+", "?"}]
Items == Seq(Item)
State == [items : Items, mode : {"plain", "escaped", "bad"}]
AnItem(kind, c, rep) == [kind |-> kind, char |-> c, rep |-> rep]
AState(items, mode) == [items |-> items, mode |-> mode]
Begun == AState(Nothing, "plain")

LEMMA StateExcept ==
  ASSUME NEW a, NEW m, NEW x, NEW n
  PROVE  /\ [AState(a, m) EXCEPT !.mode = n] = AState(a, n)
         /\ [AState(a, m) EXCEPT !.items = x] = AState(x, m)
         /\ AState(a, m).items = a
         /\ AState(a, m).mode = m
BY DEF AState

LEMMA AddedItem ==
  ASSUME NEW st \in State, NEW c \in Letters, NEW kind \in {"char", "any", "first", "last"}
  PROVE  [items |-> Append(st.items, [kind |-> kind, char |-> c, rep |-> "once"]),
          mode |-> "plain"] \in State
<1> DEFINE it == [kind |-> kind, char |-> c, rep |-> "once"]
           more == Append(st.items, it)
<1>1. it \in Item /\ st.items \in Items
  BY DEF Item, State
<1>2. more \in Items
  <2> HIDE DEF it
  <2> QED
    BY <1>1, AppendProperties DEF Items
<1> HIDE DEF more
<1>4. [items |-> more, mode |-> "plain"] \in State
  BY <1>2 DEF State
<1> QED
  BY <1>4 DEF more

LEMMA RepeatedItem ==
  ASSUME NEW st \in State, NEW c \in {"*", "+", "?"}, st.items # <<>>
  PROVE  [st EXCEPT !.items[Len(st.items)].rep = c] \in State
<1> DEFINE n == Len(st.items)
           it == [st.items[n] EXCEPT !.rep = c]
           more == [st.items EXCEPT ![n] = it]
<1>1. st.items \in Items /\ n \in Nat /\ n # 0
  BY EmptySeq DEF State, Items
<1>2. st.items[n] \in Item /\ n \in 1 .. n
  BY <1>1, ElementOfSeq DEF Items
<1>3. it \in Item
  BY <1>2 DEF Item
<1>4. more \in Items
  <2> HIDE DEF it
  <2> QED
    BY <1>1, <1>2, <1>3, ExceptSeq DEF Items
<1>5. [st EXCEPT !.items[n].rep = c] = [st EXCEPT !.items = more]
  OBVIOUS
<1> HIDE DEF more, it
<1>6. [st EXCEPT !.items = more] \in State
  BY <1>4 DEF State
<1> QED
  BY <1>5, <1>6

LEMMA AddCharTyped ==
  ASSUME NEW st \in State, NEW c \in Letters PROVE AddChar(st, c) \in State
<1> DEFINE item(kind) == [items |-> Append(st.items, [kind |-> kind, char |-> c, rep |-> "once"]),
                          mode |-> "plain"]
<1>1. item("char") \in State /\ item("any") \in State /\ item("first") \in State /\ item("last") \in State
  BY AddedItem
<1>2. [st EXCEPT !.mode = "escaped"] \in State /\ [st EXCEPT !.mode = "bad"] \in State
  BY DEF State
<1>3. ASSUME c \in {"*", "+", "?"}, st.items # <<>>
      PROVE [st EXCEPT !.items[Len(st.items)].rep = c] \in State
  BY <1>3, RepeatedItem
<1>4. AddChar(st, c) =
        IF st.mode = "bad" THEN st
        ELSE IF st.mode = "escaped" THEN item("char")
        ELSE CASE c = "\\" -> [st EXCEPT !.mode = "escaped"]
             [] c \in {"*", "+", "?"} ->
                  IF st.items = <<>> THEN [st EXCEPT !.mode = "bad"]
                  ELSE [st EXCEPT !.items[Len(st.items)].rep = c]
             [] c = "." -> item("any")
             [] c = "^" -> item("first")
             [] c = "$" -> item("last")
             [] c = "(" -> [st EXCEPT !.mode = "bad"]
             [] OTHER -> item("char")
  BY DEF AddChar
<1> HIDE DEF item
<1> QED
  BY <1>1, <1>2, <1>3, <1>4

LEMMA CompiledIs ==
  ASSUME NEW q \in Words
  PROVE  /\ Compiled(q) \in [0 .. Len(q) -> State]
         /\ Compiled(q)[0] = Begun
         /\ \A n \in 1 .. Len(q) : Compiled(q)[n] = AddChar(Compiled(q)[n - 1], q[n])
<1> DEFINE H == [n \in 1 .. Len(q) |-> [st \in State |-> AddChar(st, q[n])]]
           Eq(f) == f = [n \in 0 .. Len(q) |->
                          IF n = 0 THEN [items |-> <<>>, mode |-> "plain"]
                          ELSE AddChar(f[n - 1], q[n])]
<1>1. Len(q) \in Nat /\ \A n \in 1 .. Len(q) : q[n] \in Letters
  BY DEF Words
<1>2. H \in [1 .. Len(q) -> [State -> State]]
  BY <1>1, AddCharTyped
<1>3. Begun \in State /\ Begun = [items |-> <<>>, mode |-> "plain"]
  BY DEF Begun, State, AState, Items, Nothing
<1>4. PICK f : Solves(f, Len(q), State, Begun, H)
  <2> HIDE DEF H
  <2> QED
    BY <1>1, <1>2, <1>3, Recursion
<1> DEFINE w(n) == AddChar(f[n - 1], q[n])
<1>5. f \in [0 .. Len(q) -> State] /\ f[0] = Begun
  BY <1>4 DEF Solves
<1>6. ASSUME NEW n \in 1 .. Len(q) PROVE f[n] = w(n)
  <2>1. f[n - 1] \in State /\ f[n] = H[n][f[n - 1]]
    <3> HIDE DEF H
    <3> QED
      BY <1>1, <1>4 DEF Solves
  <2> QED
    BY <2>1
<1>7. Eq(f)
  <2>1. f = [n \in 0 .. Len(q) |-> IF n = 0 THEN [items |-> <<>>, mode |-> "plain"]
                                   ELSE w(n)]
    <3> HIDE DEF w, H
    <3> QED
      BY <1>1, <1>3, <1>5, <1>6
  <2> QED
    BY <2>1
<1>8. Compiled(q) = CHOOSE h : Eq(h)
  BY DEF Compiled
<1>9. Eq(Compiled(q))
  <2> HIDE DEF Eq
  <2> QED
    BY <1>7, <1>8
<1> DEFINE c == Compiled(q)
           v(n) == AddChar(c[n - 1], q[n])
<1>10. c[0] = Begun /\ \A n \in 1 .. Len(q) : c[n] = v(n)
  <2>1. c = [n \in 0 .. Len(q) |-> IF n = 0 THEN Begun ELSE v(n)]
    BY <1>3, <1>9, Zenon
  <2> HIDE DEF c, v
  <2> QED
    BY <1>1, <2>1
<1>11. c = [n \in 0 .. Len(q) |-> c[n]]
  BY <1>9
<1> HIDE DEF c
<1>12. ASSUME NEW n \in 1 .. Len(q), c[n - 1] \in State PROVE c[n] \in State
  BY <1>1, <1>10, <1>12, AddCharTyped
<1>13. \A n \in 0 .. Len(q) : c[n] \in State
  BY <1>1, <1>3, <1>10, <1>12, StaysIn
<1>14. c \in [0 .. Len(q) -> State]
  BY <1>11, <1>13
<1> QED
  BY <1>10, <1>14 DEF c

LEMMA RegCompTyped == ASSUME NEW q \in Words PROVE RegComp(q) \in State
<1>1. Len(q) \in Nat
  BY DEF Words
<1> QED
  BY <1>1, CompiledIs DEF RegComp

LEMMA RegCompNothing == RegComp(Nothing) = Begun
<1>1. Nothing \in Words /\ Len(Nothing) = 0
  BY EmptySeq DEF Nothing, Words
<1> QED
  BY <1>1, CompiledIs DEF RegComp

LEMMA RegCompAppend ==
  ASSUME NEW q \in Words, NEW c \in Letters
  PROVE  /\ Append(q, c) \in Words
         /\ RegComp(Append(q, c)) = AddChar(RegComp(q), c)
<1> DEFINE r == Append(q, c)
           f == Compiled(q)
           h == Compiled(r)
           T == {n \in Nat : n <= Len(q) /\ h[n] = f[n]}
<1>1. /\ r \in Words /\ Len(q) \in Nat /\ Len(r) = Len(q) + 1 /\ r[Len(r)] = c
      /\ \A n \in 1 .. Len(q) : r[n] = q[n]
  BY AppendProperties DEF Words
<1> HIDE DEF r
<1>2. f[0] = Begun /\ \A n \in 1 .. Len(q) : f[n] = AddChar(f[n - 1], q[n])
  BY CompiledIs
<1>3. h[0] = Begun /\ \A n \in 1 .. Len(r) : h[n] = AddChar(h[n - 1], r[n])
  BY <1>1, CompiledIs
<1> HIDE DEF f, h
<1>4. 0 \in T
  BY <1>1, <1>2, <1>3
<1>5. ASSUME NEW k \in 0 .. Len(q), k \in T, k < Len(q) PROVE k + 1 \in T
  <2>1. k + 1 \in 1 .. Len(q) /\ k + 1 \in 1 .. Len(r) /\ (k + 1) - 1 = k /\ k + 1 \in Nat /\ k + 1 <= Len(q)
    BY <1>1, <1>5
  <2>2. f[k + 1] = AddChar(f[k], q[k + 1]) /\ h[k + 1] = AddChar(h[k], r[k + 1]) /\ r[k + 1] = q[k + 1]
    BY <1>1, <1>2, <1>3, <2>1
  <2> QED
    BY <1>5, <2>1, <2>2
<1>6. \A k \in 0 .. Len(q) : k \in T
  <2> HIDE DEF T
  <2> QED
    BY <1>1, <1>4, <1>5, UpTo
<1>7. h[Len(q)] = f[Len(q)]
  BY <1>1, <1>6
<1>8. h[Len(r)] = AddChar(f[Len(q)], c)
  <2>1. Len(r) \in 1 .. Len(r) /\ Len(r) - 1 = Len(q)
    BY <1>1
  <2> QED
    BY <1>1, <1>3, <1>7, <2>1
<1> QED
  BY <1>1, <1>8 DEF RegComp, r, f, h

(* What one character of a glob becomes.                                   *)
GlobItem(c) ==
  CASE c \in {"*", "+"} -> AnItem("any", ".", c)
    [] c = "?" -> AnItem("any", ".", "once")
    [] c = "^" -> AnItem("first", c, "once")
    [] c = "$" -> AnItem("last", c, "once")
    [] OTHER -> AnItem("char", c, "once")
PlainAt(items) == AState(items, "plain")
Escape(items) == AState(items, "escaped")

LEMMA AddPlain ==
  ASSUME NEW items \in Items, NEW c \in Letters
  PROVE  /\ c \notin {"\\", "*", "+", "?", ".", "("}
              => AddChar(PlainAt(items), c) = PlainAt(Append(items, GlobItem(c)))
         /\ c = "." => AddChar(PlainAt(items), c) = PlainAt(Append(items, AnItem("any", ".", "once")))
         /\ c = "\\" => AddChar(PlainAt(items), c) = Escape(items)
         /\ AddChar(Escape(items), c) = PlainAt(Append(items, AnItem("char", c, "once")))
<1> DEFINE st == PlainAt(items)
           es == Escape(items)
           item(a, kind) == [items |-> Append(a, [kind |-> kind, char |-> c, rep |-> "once"]),
                             mode |-> "plain"]
<1>0. st.items = items /\ st.mode = "plain" /\ es.items = items /\ es.mode = "escaped"
  BY StateExcept DEF PlainAt, Escape
<1>1. AddChar(st, c) =
        CASE c = "\\" -> [st EXCEPT !.mode = "escaped"]
          [] c \in {"*", "+", "?"} ->
               IF st.items = <<>> THEN [st EXCEPT !.mode = "bad"]
               ELSE [st EXCEPT !.items[Len(st.items)].rep = c]
          [] c = "." -> item(st.items, "any")
          [] c = "^" -> item(st.items, "first")
          [] c = "$" -> item(st.items, "last")
          [] c = "(" -> [st EXCEPT !.mode = "bad"]
          [] OTHER -> item(st.items, "char")
  <2> HIDE DEF st
  <2> QED
    BY <1>0 DEF AddChar
<1>2. \A kind : item(items, kind) = PlainAt(Append(items, AnItem(kind, c, "once")))
  BY DEF PlainAt, AState, AnItem
<1>4. AddChar(es, c) = item(items, "char")
  <2> HIDE DEF es
  <2> QED
    BY <1>0 DEF AddChar
<1>6. [st EXCEPT !.mode = "escaped"] = es
  BY StateExcept DEF PlainAt, Escape
<1> HIDE DEF item, st
<1>7. c \notin {"\\", "*", "+", "?", ".", "("} => AddChar(st, c) = PlainAt(Append(items, GlobItem(c)))
  BY <1>0, <1>1, <1>2 DEF GlobItem
<1> QED
  BY <1>0, <1>1, <1>2, <1>4, <1>6, <1>7 DEF st

LEMMA AddRepeat ==
  ASSUME NEW items \in Items, NEW c \in {"*", "+"}
  PROVE  AddChar(PlainAt(Append(items, AnItem("any", ".", "once"))), c)
           = PlainAt(Append(items, AnItem("any", ".", c)))
<1> DEFINE one == AnItem("any", ".", "once")
           more == Append(items, one)
           st == PlainAt(more)
<1>1. one \in Item /\ AnItem("any", ".", c) \in Item
  BY DEF Item, AnItem, Letters
<1>2. more \in Items /\ Len(more) = Len(items) + 1 /\ Len(items) \in Nat /\ more # <<>> /\ more[Len(more)] = one
  <2> HIDE DEF one
  <2> QED
    BY <1>1, AppendProperties DEF Items
<1>3. st.items = more /\ st.mode = "plain"
  BY StateExcept DEF PlainAt
<1>4. AddChar(st, c) = [st EXCEPT !.items[Len(st.items)].rep = c]
  <2> HIDE DEF more
  <2> QED
    BY <1>2, <1>3 DEF AddChar
<1>5. [more EXCEPT ![Len(more)] = [more[Len(more)] EXCEPT !.rep = c]] = Append(items, AnItem("any", ".", c))
  <2> DEFINE two == AnItem("any", ".", c)
             new == [more EXCEPT ![Len(more)] = two]
             ref == Append(items, two)
  <2>1. [more[Len(more)] EXCEPT !.rep = c] = two
    <3>1. [one EXCEPT !.rep = c] = two
      BY DEF AnItem
    <3> HIDE DEF one, more, two
    <3> QED
      BY <3>1, <1>2
  <2>2. ref \in Items /\ Len(ref) = Len(items) + 1 /\ ref[Len(ref)] = two /\ \A i \in 1 .. Len(items) : ref[i] = items[i]
    <3> HIDE DEF two
    <3> QED
      BY <1>1, AppendProperties DEF Items, two
  <2>3. \A i \in 1 .. Len(items) : more[i] = items[i]
    <3> HIDE DEF one
    <3> QED
      BY <1>1, AppendProperties DEF Items
  <2>4. new \in Items /\ Len(new) = Len(more) /\ \A j \in 1 .. Len(more) : new[j] = IF j = Len(more) THEN two ELSE more[j]
    <3>1. Len(more) \in 1 .. Len(more) /\ two \in Item
      BY <1>1, <1>2
    <3> HIDE DEF more, two
    <3> QED
      BY <1>2, <3>1, ExceptSeq DEF Items
  <2>5. \A i \in 1 .. Len(new) : new[i] = ref[i]
    <3> HIDE DEF more, two, new, ref
    <3> QED
      BY <1>2, <2>2, <2>3, <2>4
  <2>6. new = ref
    <3> HIDE DEF new, ref
    <3> QED
      BY <1>2, <2>2, <2>4, <2>5, SeqEqual DEF Items
  <2> QED
    BY <2>1, <2>6
<1> DEFINE new == [more EXCEPT ![Len(more)] = [more[Len(more)] EXCEPT !.rep = c]]
<1>6. [st EXCEPT !.items[Len(st.items)].rep = c] = [st EXCEPT !.items = new]
  <2> HIDE DEF more, st
  <2> QED
    BY <1>3
<1>7. [st EXCEPT !.items = new] = PlainAt(new)
  <2> HIDE DEF new, more
  <2> QED
    BY StateExcept DEF PlainAt
<1> QED
  BY <1>4, <1>5, <1>6, <1>7

LEMMA OneMore ==
  ASSUME NEW q \in Words, NEW c \in Letters
  PROVE  q \o <<c>> \in Words /\ RegComp(q \o <<c>>) = AddChar(RegComp(q), c)
<1>1. Append(q, c) = q \o <<c>>
  BY AppendIsConcat DEF Words
<1> QED
  BY <1>1, RegCompAppend

LEMMA TwoLetters ==
  ASSUME NEW c \in Letters, NEW d \in Letters PROVE <<c>> \o <<d>> = <<c, d>>
<1> DEFINE one == <<c>>
           two == <<d>>
<1>1. one \in Words /\ two \in Words
  BY DEF Words
<1> DEFINE both == <<c, d>>
           oneTwo == one \o two
<1>3. both \in Words /\ Len(both) = 2 /\ both[1] = c /\ both[2] = d
  BY DEF Words
<1>2. Len(one) = 1 /\ Len(two) = 1 /\ one[1] = c /\ two[1] = d
  OBVIOUS
<1> HIDE DEF one, two
<1>4. oneTwo \in Words /\ Len(oneTwo) = 2 /\ oneTwo[1] = c /\ oneTwo[2] = d
  <2>1. one \in Seq(Letters) /\ two \in Seq(Letters)
    BY <1>1 DEF Words
  <2>2. /\ one \o two \in Seq(Letters) /\ Len(one \o two) = Len(one) + Len(two)
        /\ \A i \in 1 .. Len(one) + Len(two) :
             (one \o two)[i] = IF i <= Len(one) THEN one[i] ELSE two[i - Len(one)]
    BY <2>1, ConcatProperties
  <2>3. 1 \in 1 .. 2 /\ 2 \in 1 .. 2 /\ Len(one) + Len(two) = 2
    BY <1>2
  <2>4. (one \o two)[1] = one[1] /\ (one \o two)[2] = two[1]
    BY <1>2, <2>2, <2>3
  <2> QED
    BY <1>2, <2>2, <2>3, <2>4 DEF Words
<1> HIDE DEF both, oneTwo
<1>5. \A i \in 1 .. Len(oneTwo) : oneTwo[i] = both[i]
  BY <1>3, <1>4
<1>6. oneTwo = both
  BY <1>3, <1>4, <1>5, SeqEqual DEF Words
<1> QED
  BY <1>6 DEF oneTwo, both, one, two

LEMMA TwoMore ==
  ASSUME NEW q \in Words, NEW c \in Letters, NEW d \in Letters
  PROVE  /\ q \o <<c, d>> \in Words
         /\ RegComp(q \o <<c, d>>) = AddChar(AddChar(RegComp(q), c), d)
<1> DEFINE one == <<c>>
           two == <<d>>
           qc == q \o one
<1>1. one \in Words /\ two \in Words
  BY DEF Words
<1>0. one \o two = <<c, d>>
  BY TwoLetters
<1>2. qc \in Words /\ RegComp(qc) = AddChar(RegComp(q), c)
  BY OneMore
<1>3. qc \o two \in Words /\ RegComp(qc \o two) = AddChar(RegComp(qc), d)
  <2> HIDE DEF qc
  <2> QED
    BY <1>2, OneMore
<1>4. (q \o one) \o two = q \o (one \o two)
  <2> HIDE DEF one, two
  <2> QED
    BY <1>1, ThreeWords
<1> QED
  BY <1>0, <1>1, <1>2, <1>3, <1>4

LEMMA GlobItemTyped == ASSUME NEW c \in Letters PROVE GlobItem(c) \in Item
BY DEF GlobItem, Item, AnItem, Letters

(* A character of a glob, converted, becomes one item of the expression.   *)
LEMMA MetaCompiled ==
  ASSUME NEW q \in Words, NEW items \in Items, RegComp(q) = PlainAt(items),
         NEW c \in Letters, c # "\\"
  PROVE  RegComp(q \o Metacharacter(c)) = PlainAt(Append(items, GlobItem(c)))
<1>0. "." \in Letters /\ "\\" \in Letters /\ "*" \in Letters /\ "+" \in Letters
  BY DEF Letters
<1>1. CASE c \in {"*", "+"}
  <2>1. Metacharacter(c) = <<".", c>>
    BY <1>1 DEF Metacharacter
  <2>2. RegComp(q \o <<".", c>>) = AddChar(AddChar(PlainAt(items), "."), c)
    BY <1>0, TwoMore
  <2>3. AddChar(PlainAt(items), ".") = PlainAt(Append(items, AnItem("any", ".", "once")))
    BY <1>0, AddPlain
  <2>4. GlobItem(c) = AnItem("any", ".", c)
    BY <1>1 DEF GlobItem
  <2> QED
    BY <1>1, <2>1, <2>2, <2>3, <2>4, AddRepeat
<1>2. CASE c = "?"
  <2>1. Metacharacter(c) = <<".">>
    BY <1>2 DEF Metacharacter
  <2>2. RegComp(q \o <<".">>) = AddChar(PlainAt(items), ".")
    BY <1>0, OneMore
  <2>3. AddChar(PlainAt(items), ".") = PlainAt(Append(items, AnItem("any", ".", "once")))
    BY <1>0, AddPlain
  <2>4. GlobItem(c) = AnItem("any", ".", "once")
    BY <1>2 DEF GlobItem
  <2> QED
    BY <2>1, <2>2, <2>3, <2>4
<1>3. CASE c \in {".", "[", "]", "(", ")"}
  <2>1. Metacharacter(c) = <<"\\", c>>
    BY <1>3 DEF Metacharacter
  <2>2. RegComp(q \o <<"\\", c>>) = AddChar(AddChar(PlainAt(items), "\\"), c)
    BY <1>0, TwoMore
  <2>3. AddChar(PlainAt(items), "\\") = Escape(items)
    BY <1>0, AddPlain
  <2>4. AddChar(Escape(items), c) = PlainAt(Append(items, AnItem("char", c, "once")))
    BY AddPlain
  <2>5. GlobItem(c) = AnItem("char", c, "once")
    BY <1>3 DEF GlobItem
  <2> QED
    BY <2>1, <2>2, <2>3, <2>4, <2>5
<1>4. CASE c \notin {"*", "+", "?", ".", "[", "]", "(", ")"}
  <2>1. Metacharacter(c) = <<c>>
    BY <1>4 DEF Metacharacter
  <2>2. RegComp(q \o <<c>>) = AddChar(PlainAt(items), c)
    BY OneMore
  <2>3. AddChar(PlainAt(items), c) = PlainAt(Append(items, GlobItem(c)))
    BY <1>4, AddPlain
  <2> QED
    BY <2>1, <2>2, <2>3
<1> QED
  BY <1>1, <1>2, <1>3, <1>4

-----------------------------------------------------------------------------
(* The whole expression: the beginning, an item for each character of the  *)
(* glob without its anchors, and the end.                                  *)
GlobItems(g, n) == [i \in 1 .. n |-> GlobItem(g[i])]

LEMMA GlobItemsTyped ==
  ASSUME NEW g \in Words, NEW n \in 0 .. Len(g)
  PROVE  /\ GlobItems(g, n) \in Items /\ Len(GlobItems(g, n)) = n
         /\ \A i \in 1 .. n : GlobItems(g, n)[i] = GlobItem(g[i])
<1>1. n \in Nat /\ Len(g) \in Nat /\ \A i \in 1 .. n : g[i] \in Letters
  BY DEF Words
<1>2. \A i \in 1 .. n : GlobItem(g[i]) \in Item
  BY <1>1, GlobItemTyped
<1> DEFINE it(i) == GlobItem(g[i])
<1>3. GlobItems(g, n) = [i \in 1 .. n |-> it(i)]
  BY DEF GlobItems
<1> HIDE DEF it
<1>4. [i \in 1 .. n |-> it(i)] \in [1 .. n -> Item]
  BY <1>2 DEF it
<1>5. [i \in 1 .. n |-> it(i)] \in Items /\ Len([i \in 1 .. n |-> it(i)]) = n
  BY <1>1, <1>4, SeqDef DEF Items
<1> QED
  BY <1>3, <1>5 DEF it

(* After the first n characters of a glob, in front of which the           *)
(* conversion may have put the beginning.                                  *)
Fronts == {<<>>, <<"^">>}
FrontItems(front) == IF front = <<>> THEN <<>> ELSE <<AnItem("first", "^", "once")>>

LEMMA FrontCompiled ==
  ASSUME NEW front \in Fronts
  PROVE  /\ front \in Words /\ FrontItems(front) \in Items
         /\ RegComp(front) = PlainAt(FrontItems(front))
<1> DEFINE it == AnItem("first", "^", "once")
<1>1. it \in Item /\ "^" \in Letters
  BY DEF Item, AnItem, Letters
<1>2. Nothing \in Words /\ Nothing \in Items
  BY DEF Nothing, Words, Items
<1>3. CASE front = <<>>
  <2>1. front = Nothing /\ FrontItems(front) = Nothing
    BY <1>3 DEF Nothing, FrontItems
  <2> QED
    BY <1>2, <2>1, RegCompNothing DEF Begun, PlainAt
<1>4. CASE front # <<>>
  <2>1. front = <<"^">>
    BY <1>4 DEF Fronts
  <2>2. front = Append(Nothing, "^") /\ FrontItems(front) = <<it>>
    BY <2>1, <1>4 DEF Nothing, FrontItems
  <2>3. RegComp(front) = AddChar(PlainAt(Nothing), "^") /\ front \in Words
    BY <1>1, <1>2, <2>2, RegCompAppend, RegCompNothing DEF Begun, PlainAt
  <2>4. AddChar(PlainAt(Nothing), "^") = PlainAt(Append(Nothing, GlobItem("^")))
    BY <1>1, <1>2, AddPlain
  <2>5. GlobItem("^") = it
    BY DEF GlobItem
  <2>6. Append(Nothing, it) = <<it>>
    BY DEF Nothing
  <2>7. <<it>> \in Items
    <3> HIDE DEF it
    <3> QED
      BY <1>1 DEF Items
  <2> QED
    BY <2>2, <2>3, <2>4, <2>5, <2>6, <2>7
<1> QED
  BY <1>3, <1>4

LEMMA PrefixCompiled ==
  ASSUME NEW g \in Words, NEW front \in Fronts, \A i \in 1 .. Len(g) : g[i] # "\\"
  PROVE  \A n \in 0 .. Len(g) :
           /\ front \o Converted(g)[n] \in Words
           /\ RegComp(front \o Converted(g)[n]) = PlainAt(FrontItems(front) \o GlobItems(g, n))
<1> DEFINE conv == Converted(g)
           w(n) == front \o conv[n]
           its(n) == FrontItems(front) \o GlobItems(g, n)
           T == {n \in Nat : n <= Len(g) /\ w(n) \in Words /\ RegComp(w(n)) = PlainAt(its(n))}
<1>1. Len(g) \in Nat /\ front \in Words /\ FrontItems(front) \in Items /\ RegComp(front) = PlainAt(FrontItems(front))
  BY FrontCompiled DEF Words
<1>2. conv \in [0 .. Len(g) -> Words] /\ conv[0] = Nothing
      /\ \A n \in 1 .. Len(g) : conv[n] = conv[n - 1] \o Metacharacter(g[n])
  BY ConvertedIs
<1> HIDE DEF conv
<1>3. 0 \in T
  <2>1. w(0) = front
    BY <1>1, <1>2, ConcatEmptySeq DEF Words, Nothing
  <2>2. GlobItems(g, 0) = <<>>
    BY DEF GlobItems
  <2>3. its(0) = FrontItems(front)
    BY <1>1, <2>2, ConcatEmptySeq DEF Items
  <2> HIDE DEF w, its
  <2> QED
    BY <1>1, <2>1, <2>3
<1>4. ASSUME NEW k \in 0 .. Len(g), k \in T, k < Len(g) PROVE k + 1 \in T
  <2> DEFINE c == g[k + 1]
             m == Metacharacter(c)
  <2>1. k + 1 \in 1 .. Len(g) /\ (k + 1) - 1 = k /\ k + 1 \in Nat /\ k + 1 <= Len(g)
    BY <1>1, <1>4
  <2>2. c \in Letters /\ c # "\\"
    BY <2>1 DEF Words
  <2>3. conv[k + 1] = conv[k] \o m /\ conv[k] \in Words /\ m \in Words
    BY <1>2, <2>1, <2>2, MetaIsWord
  <2>4. its(k) \in Items /\ its(k + 1) = Append(its(k), GlobItem(c))
    <3> DEFINE it == GlobItem(c)
               a == GlobItems(g, k)
               b == GlobItems(g, k + 1)
               f == FrontItems(front)
               one == <<it>>
    <3>1. a \in Items /\ Len(a) = k /\ \A i \in 1 .. k : a[i] = GlobItem(g[i])
      BY GlobItemsTyped
    <3>2. b \in Items /\ Len(b) = k + 1 /\ \A i \in 1 .. k + 1 : b[i] = GlobItem(g[i])
      BY <2>1, GlobItemsTyped
    <3>3. it \in Item
      BY <2>2, GlobItemTyped
    <3>4. b[k + 1] = it
      BY <3>2, <2>1
    <3> HIDE DEF it, a, b, f, c
    <3>5. Append(a, it) \in Items /\ Len(Append(a, it)) = k + 1 /\ Append(a, it)[k + 1] = it
          /\ \A i \in 1 .. k : Append(a, it)[i] = a[i]
      BY <3>1, <3>3, AppendProperties DEF Items
    <3>6. \A i \in 1 .. k + 1 : Append(a, it)[i] = b[i]
      BY <3>1, <3>2, <3>4, <3>5
    <3>7. Append(a, it) = b
      BY <3>2, <3>5, <3>6, SeqEqual DEF Items
    <3>8. one \in Items /\ Append(a, it) = a \o one
      BY <3>1, <3>3, AppendIsConcat DEF Items
    <3>9. f \in Items
      BY <1>1 DEF f
    <3>10. f \o a \in Items /\ (f \o a) \o one = f \o (a \o one)
      <4> HIDE DEF one
      <4> QED
        BY <3>1, <3>8, <3>9, ConcatAssociative, ConcatProperties DEF Items
    <3>11. Append(f \o a, it) = (f \o a) \o one
      BY <3>3, <3>10, AppendIsConcat DEF Items
    <3> QED
      BY <3>7, <3>8, <3>10, <3>11 DEF a, b, f, it, c
  <2>5. w(k + 1) = w(k) \o m /\ w(k + 1) \in Words
    <3> DEFINE u == conv[k]
    <3>0. u \in Words /\ m \in Words /\ front \in Words
      BY <1>1, <2>3
    <3>1. (front \o u) \o m = front \o (u \o m) /\ front \o (u \o m) \in Words
      <4> HIDE DEF m, u
      <4> QED
        BY <3>0, ThreeWords
    <3> QED
      BY <2>3, <3>1
  <2> HIDE DEF its, w
  <2>6. w(k) \in Words /\ RegComp(w(k)) = PlainAt(its(k))
    BY <1>4
  <2>7. RegComp(w(k) \o m) = PlainAt(Append(its(k), GlobItem(c)))
    <3> DEFINE q == w(k)
               i == its(k)
    <3> HIDE DEF q, i, c
    <3>1. q \in Words /\ RegComp(q) = PlainAt(i) /\ i \in Items
      BY <2>4, <2>6 DEF q, i
    <3>2. RegComp(q \o Metacharacter(c)) = PlainAt(Append(i, GlobItem(c)))
      BY <2>2, <3>1, MetaCompiled
    <3> QED
      BY <3>2 DEF q, i
  <2> HIDE DEF c, m
  <2> QED
    BY <2>1, <2>4, <2>5, <2>7
<1> HIDE DEF T
<1>5. \A k \in 0 .. Len(g) : k \in T
  BY <1>1, <1>3, <1>4, UpTo
<1> QED
  BY <1>5 DEF T, conv

Slash == <<"/">>

LEMMA SlashesOff ==
  ASSUME NEW q \in Words PROVE Unbracketed((Slash \o q) \o Slash) = q
<1> DEFINE a == Slash \o q
           r == a \o Slash
           m == SubSeq(r, 2, Len(r) - 1)
<1>1. Slash \in Words /\ Len(Slash) = 1 /\ Slash[1] = "/"
  BY DEF Slash, Words, Letters
<1>2. Len(q) \in Nat
  BY DEF Words
<1>3. a \in Words /\ Len(a) = Len(q) + 1 /\ a[1] = "/" /\ \A i \in 1 .. Len(q) : a[i + 1] = q[i]
  <2>1. /\ a \in Words /\ Len(a) = Len(Slash) + Len(q)
        /\ \A i \in 1 .. Len(Slash) + Len(q) : a[i] = IF i <= Len(Slash) THEN Slash[i] ELSE q[i - Len(Slash)]
    BY <1>1, ConcatProperties DEF Words
  <2> HIDE DEF a
  <2>2. ASSUME NEW i \in 1 .. Len(q) PROVE a[i + 1] = q[i]
    <3>1. i + 1 \in 1 .. Len(Slash) + Len(q) /\ ~(i + 1 <= Len(Slash)) /\ (i + 1) - Len(Slash) = i
      BY <1>1, <1>2
    <3> QED
      BY <2>1, <3>1
  <2> QED
    BY <1>1, <1>2, <2>1, <2>2
<1> HIDE DEF a
<1>4. r \in Words /\ Len(r) = Len(q) + 2 /\ r[1] = "/" /\ r[Len(r)] = "/" /\ \A i \in 1 .. Len(q) : r[i + 1] = q[i]
  <2>1. /\ r \in Words /\ Len(r) = Len(a) + Len(Slash)
        /\ \A i \in 1 .. Len(a) + Len(Slash) : r[i] = IF i <= Len(a) THEN a[i] ELSE Slash[i - Len(a)]
    BY <1>1, <1>3, ConcatProperties DEF Words
  <2> HIDE DEF r
  <2> QED
    BY <1>1, <1>2, <1>3, <2>1
<1> HIDE DEF r
<1>5. Len(r) > 1 /\ Unbracketed(r) = m
  BY <1>2, <1>4 DEF Unbracketed
<1>6. m \in Words /\ Len(m) = Len(q) /\ \A i \in 1 .. Len(q) : m[i] = q[i]
  <2>1. 2 \in Int /\ Len(r) - 1 \in Int /\ (Len(r) - 1) - 2 + 1 = Len(q)
    BY <1>2, <1>4
  <2>2. \A i \in 2 .. Len(r) - 1 : r[i] \in Letters
    <3>1. ASSUME NEW i \in 2 .. Len(r) - 1 PROVE r[i] \in Letters
      <4>1. i \in 1 .. Len(r)
        BY <1>4
      <4> QED
        BY <1>4, <4>1, ElementOfSeq DEF Words
    <3> QED
      BY <3>1
  <2> DEFINE n == Len(r) - 1
  <2>3. n \in Int /\ n - 2 + 1 = Len(q) /\ \A i \in 2 .. n : r[i] \in Letters
    BY <2>1, <2>2
  <2> HIDE DEF n
  <2>4. /\ SubSeq(r, 2, n) \in Seq(Letters)
        /\ Len(SubSeq(r, 2, n)) = IF 2 <= n THEN n - 2 + 1 ELSE 0
        /\ \A i \in 1 .. n - 2 + 1 : SubSeq(r, 2, n)[i] = r[2 + i - 1]
    BY <2>1, <2>3, SubSeqProperties
  <2>5. \A i \in 1 .. Len(q) : 2 + i - 1 = i + 1
    BY <1>2
  <2>6. Len(SubSeq(r, 2, n)) = Len(q)
    BY <1>2, <2>3, <2>4
  <2> QED
    BY <1>4, <2>3, <2>4, <2>5, <2>6 DEF n, Words
<1>7. m = q
  <2> HIDE DEF m
  <2> QED
    BY <1>6, SeqEqual DEF Words
<1> QED
  BY <1>5, <1>7 DEF r, a

(* The anchors the conversion adds.                                        *)
FrontOf(g) == IF g # <<>> /\ g[1] = "^" THEN <<>> ELSE <<"^">>
BackOf(g) == IF g # <<>> /\ g[Len(g)] = "$" THEN <<>> ELSE <<"$">>
BackItems(back) == IF back = <<>> THEN <<>> ELSE <<AnItem("last", "$", "once")>>
Anchored(g) == (FrontOf(g) \o Converted(g)[Len(g)]) \o BackOf(g)

LEMMA EndsAre ==
  ASSUME NEW g
  PROVE  /\ FrontOf(g) \in Fronts /\ FrontOf(g) \in Words /\ BackOf(g) \in {<<>>, <<"$">>} /\ BackOf(g) \in Words
         /\ BackItems(BackOf(g)) \in Items
<1> DEFINE it == AnItem("last", "$", "once")
<1>1. it \in Item
  BY DEF Item, AnItem, Letters
<1>2. <<it>> \in Items /\ Nothing \in Items
  <2> HIDE DEF it
  <2> QED
    BY <1>1 DEF Items, Nothing
<1>3. FrontOf(g) \in Fronts /\ BackOf(g) \in {<<>>, <<"$">>}
  BY DEF FrontOf, BackOf, Fronts
<1>4. "$" \in Letters
  BY DEF Letters
<1>5. <<"$">> \in Words /\ <<>> \in Words
  BY <1>4 DEF Words
<1> QED
  BY <1>2, <1>3, <1>5, FrontCompiled DEF BackItems, Nothing

LEMMA ConversionIs ==
  ASSUME NEW g \in Words, IsGlob(g)
  PROVE  Anchored(g) \in Words /\ Unbracketed(UvmGlobToRe(g)) = Anchored(g)
<1> DEFINE front == FrontOf(g)
           conv == Converted(g)[Len(g)]
           back == BackOf(g)
           fc == front \o conv
<1>1. front \in Words /\ back \in Words /\ conv \in Words /\ Slash \in Words
  <2>1. Len(g) \in 0 .. Len(g)
    BY DEF Words
  <2>2. conv \in Words
    BY <2>1, ConvertedIs
  <2>3. "/" \in Letters
    BY DEF Letters
  <2>4. Slash \in Words
    BY <2>3 DEF Slash, Words
  <2> QED
    BY <2>2, <2>4, EndsAre
<1>2. fc \in Words /\ (Slash \o front) \o conv = Slash \o fc
  <2> HIDE DEF front, conv
  <2> QED
    BY <1>1, ThreeWords
<1>3. fc \o back \in Words /\ (Slash \o fc) \o back = Slash \o (fc \o back)
  <2>1. fc \in Words /\ back \in Words /\ Slash \in Words
    BY <1>1, <1>2
  <2> HIDE DEF fc, back
  <2> QED
    BY <2>1, ThreeWords
<1>4. CASE g = <<>>
  <2>1. UvmGlobToRe(g) = <<"/", "^", "$", "/">>
    BY <1>4 DEF UvmGlobToRe, EmptyRegex
  <2>2. front = <<"^">> /\ back = <<"$">>
    BY <1>4 DEF FrontOf, BackOf
  <2>3. conv = <<>>
    <3>1. Len(g) = 0
      BY <1>4
    <3> QED
      BY <3>1, ConvertedIs DEF Nothing
  <2>4. fc = <<"^">>
    BY <1>1, <2>2, <2>3, ConcatEmptySeq DEF Words
  <2>5. fc \o back = <<"^", "$">>
    <3>1. "^" \in Letters /\ "$" \in Letters
      BY DEF Letters
    <3> QED
      BY <2>2, <2>4, <3>1, TwoLetters
  <2>6. Unbracketed(<<"/", "^", "$", "/">>) = <<"^", "$">>
    <3> DEFINE r == <<"/", "^", "$", "/">>
               m == SubSeq(r, 2, 3)
               ends == <<"^", "$">>
    <3>1. Len(r) = 4 /\ r[1] = "/" /\ r[2] = "^" /\ r[3] = "$" /\ r[4] = "/"
      OBVIOUS
    <3>2. Len(ends) = 2 /\ ends[1] = "^" /\ ends[2] = "$" /\ ends \in Words
      BY DEF Words, Letters
    <3> HIDE DEF r, ends
    <3>3. Unbracketed(r) = m
      BY <3>1 DEF Unbracketed
    <3>4. \A i \in 2 .. 3 : r[i] \in Letters
      BY <3>1 DEF Letters
    <3>5. m \in Seq(Letters) /\ Len(m) = 2 /\ m[1] = r[2] /\ m[2] = r[3]
      <4>1. /\ m \in Seq(Letters) /\ Len(m) = IF 2 <= 3 THEN 3 - 2 + 1 ELSE 0
            /\ \A i \in 1 .. 3 - 2 + 1 : m[i] = r[2 + i - 1]
        BY <3>4, SubSeqProperties
      <4>2. 1 \in 1 .. 3 - 2 + 1 /\ 2 \in 1 .. 3 - 2 + 1 /\ 2 + 1 - 1 = 2 /\ 2 + 2 - 1 = 3
        OBVIOUS
      <4> HIDE DEF m
      <4> QED
        BY <4>1, <4>2
    <3>6. \A i \in 1 .. Len(m) : m[i] = ends[i]
      BY <3>1, <3>2, <3>5
    <3>7. m = ends
      <4> HIDE DEF m
      <4> QED
        BY <3>2, <3>5, <3>6, SeqEqual DEF Words
    <3> QED
      BY <3>3, <3>7 DEF r, ends
  <2> QED
    BY <1>3, <2>1, <2>5, <2>6 DEF Anchored
<1>5. CASE g # <<>>
  <2>1. UvmGlobToRe(g) = Slash \o front \o conv \o back \o Slash
    <3>1. g # <<"/">>
      BY DEF IsGlob
    <3>2. ~(g[1] = "/" /\ g[Len(g)] = "/")
      BY <1>5 DEF IsGlob
    <3> QED
      BY <1>5, <3>1, <3>2 DEF UvmGlobToRe, FrontOf, BackOf, Slash
  <2>2. UvmGlobToRe(g) = (Slash \o (fc \o back)) \o Slash
    BY <1>2, <1>3, <2>1
  <2>3. Unbracketed((Slash \o (fc \o back)) \o Slash) = fc \o back
    <3> DEFINE q == fc \o back
    <3>1. q \in Words
      BY <1>3
    <3> HIDE DEF q
    <3>2. Unbracketed((Slash \o q) \o Slash) = q
      BY <3>1, SlashesOff
    <3> QED
      BY <3>2 DEF q
  <2> QED
    BY <1>3, <2>2, <2>3 DEF Anchored
<1> QED
  BY <1>4, <1>5

FirstItem == AnItem("first", "^", "once")
LastItem == AnItem("last", "$", "once")

(* A glob without its anchors.                                             *)
LEMMA WithoutAnchorsIs ==
  ASSUME NEW g \in Words, IsGlob(g)
  PROVE  LET c == WithoutAnchors(g)
             from == IF FrontOf(g) = <<>> THEN 1 ELSE 0
             to == IF BackOf(g) = <<>> THEN Len(g) - 1 ELSE Len(g)
         IN  /\ c \in Words /\ Len(c) = to - from /\ Len(g) \in Nat /\ Len(c) \in Nat
             /\ \A i \in 1 .. Len(c) : i + from \in 1 .. Len(g) /\ c[i] = g[i + from]
             /\ \A i \in 1 .. Len(c) : c[i] \in Letters /\ c[i] \notin {"^", "$", "\\"}
<1> DEFINE c == WithoutAnchors(g)
           from == IF FrontOf(g) = <<>> THEN 1 ELSE 0
           to == IF BackOf(g) = <<>> THEN Len(g) - 1 ELSE Len(g)
           m == from + 1
<1>1. Len(g) \in Nat /\ from \in {0, 1} /\ to \in Int /\ to <= Len(g) /\ m \in Int
  BY DEF Words
<1>2. c = SubSeq(g, m, to)
  <2>1. FrontOf(g) = <<>> <=> (g # <<>> /\ g[1] = "^")
    BY DEF FrontOf
  <2>2. BackOf(g) = <<>> <=> (g # <<>> /\ g[Len(g)] = "$")
    BY DEF BackOf
  <2>3. m = IF g # <<>> /\ g[1] = "^" THEN 2 ELSE 1
    BY <2>1
  <2>4. to = IF g # <<>> /\ g[Len(g)] = "$" THEN Len(g) - 1 ELSE Len(g)
    BY <2>2
  <2> QED
    BY <2>3, <2>4 DEF WithoutAnchors
<1>3. m <= to + 1
  <2>1. CASE g = <<>>
    <3>1. from = 0 /\ to = 0 /\ m = 1
      BY <2>1 DEF FrontOf, BackOf
    <3> QED
      BY <3>1
  <2>2. CASE g # <<>>
    <3>1. Len(g) >= 1
      BY <2>2, EmptySeq DEF Words
    <3>2. from = 1 /\ to = Len(g) - 1 => g[1] = "^" /\ g[Len(g)] = "$"
      BY <1>1, <2>2 DEF FrontOf, BackOf
    <3>3. from = 1 /\ to = Len(g) - 1 => Len(g) # 1
      BY <3>2
    <3>4. to = Len(g) - 1 \/ to = Len(g)
      BY <1>1
    <3> DEFINE n == Len(g)
    <3>5. n \in Int /\ from \in Int /\ to \in Int /\ (from = 0 \/ from = 1) /\ n >= 1
          /\ (to = n - 1 \/ to = n) /\ (from = 1 /\ to = n - 1 => n # 1)
      BY <1>1, <3>1, <3>3, <3>4
    <3> HIDE DEF from, to, n
    <3> QED
      BY <3>5
  <2> QED
    BY <2>1, <2>2
<1>4. from = 0 => g = <<>> \/ g[1] # "^"
  BY DEF FrontOf
<1>5. to = Len(g) => g = <<>> \/ g[Len(g)] # "$"
  BY <1>1 DEF BackOf
<1> HIDE DEF from, to, c
<1>6. ASSUME NEW i \in m .. to PROVE i \in 1 .. Len(g) /\ g[i] \in Letters /\ g[i] \notin {"^", "$", "\\"}
  <2>1. i \in 1 .. Len(g)
    BY <1>1
  <2>2. g[i] \in Letters /\ g # <<>>
    <3>1. Len(<<>>) = 0
      OBVIOUS
    <3> QED
      BY <1>1, <2>1, <3>1, ElementOfSeq DEF Words
  <2>3. g[i] # "\\" /\ (g[i] = "^" => i = 1) /\ (g[i] = "$" => i = Len(g))
    BY <2>1 DEF IsGlob
  <2>4. i = 1 => from = 0
    BY <1>1
  <2>5. i = Len(g) => to = Len(g)
    BY <1>1
  <2> QED
    BY <2>1, <2>2, <2>3, <2>4, <2>5, <1>4, <1>5
<1>7. /\ c \in Seq(Letters) /\ Len(c) = (IF m <= to THEN to - m + 1 ELSE 0)
      /\ \A i \in 1 .. to - m + 1 : c[i] = g[m + i - 1]
  <2> HIDE DEF m
  <2> QED
    BY <1>1, <1>2, <1>6, SubSeqProperties
<1>8. Len(c) = to - from /\ Len(c) \in Nat
  BY <1>1, <1>3, <1>7
<1>9. ASSUME NEW i \in 1 .. Len(c)
      PROVE /\ i + from \in 1 .. Len(g) /\ c[i] = g[i + from]
            /\ c[i] \in Letters /\ c[i] \notin {"^", "$", "\\"}
  <2>1. i \in 1 .. to - m + 1 /\ m + i - 1 = i + from /\ i + from \in m .. to
    BY <1>1, <1>8
  <2> QED
    BY <1>6, <1>7, <2>1
<1> QED
  BY <1>1, <1>7, <1>8, <1>9 DEF Words, c, from, to

AllItems(c) == [j \in 1 .. Len(c) + 2 |->
                  IF j = 1 THEN FirstItem ELSE IF j = Len(c) + 2 THEN LastItem ELSE GlobItem(c[j - 1])]

LEMMA WholeCompiled ==
  ASSUME NEW g \in Words, IsGlob(g)
  PROVE  RegComp(Unbracketed(UvmGlobToRe(g))) = PlainAt(AllItems(WithoutAnchors(g)))
<1> DEFINE front == FrontOf(g)
           back == BackOf(g)
           fi == FrontItems(front)
           bi == BackItems(back)
           n == Len(g)
           gi == GlobItems(g, n)
           fc == front \o Converted(g)[n]
           c == WithoutAnchors(g)
           some == fi \o gi
           all == some \o bi
           from == IF front = <<>> THEN 1 ELSE 0
           to == IF back = <<>> THEN n - 1 ELSE n
<1>1. n \in Nat /\ n \in 0 .. n
  BY DEF Words
<1>2. fi \in Items /\ bi \in Items /\ front \in Fronts /\ back \in {<<>>, <<"$">>}
  BY EndsAre, FrontCompiled
<1>3. gi \in Items /\ Len(gi) = n /\ \A i \in 1 .. n : gi[i] = GlobItem(g[i])
  BY <1>1, GlobItemsTyped
<1>4. fc \in Words /\ RegComp(fc) = PlainAt(some)
  <2>1. \A i \in 1 .. Len(g) : g[i] # "\\"
    BY DEF IsGlob
  <2> QED
    BY <1>1, <1>2, <2>1, PrefixCompiled
<1>5. some \in Items /\ Len(some) = Len(fi) + n
      /\ \A i \in 1 .. Len(fi) + n : some[i] = IF i <= Len(fi) THEN fi[i] ELSE gi[i - Len(fi)]
  <2> HIDE DEF fi, gi, n
  <2> QED
    BY <1>2, <1>3, ConcatProperties DEF Items
<1>6. all \in Items /\ Len(all) = Len(some) + Len(bi)
      /\ \A i \in 1 .. Len(some) + Len(bi) : all[i] = IF i <= Len(some) THEN some[i] ELSE bi[i - Len(some)]
  <2>1. some \in Seq(Item) /\ bi \in Seq(Item)
    BY <1>2, <1>5 DEF Items
  <2> HIDE DEF some, bi
  <2> QED
    BY <2>1, ConcatProperties DEF Items
<1>7. RegComp(fc \o back) = PlainAt(all)
  <2>1. CASE back = <<>>
    <3>1. fc \o back = fc
      <4> HIDE DEF fc, back
      <4> QED
        BY <1>4, <2>1, ConcatEmptySeq DEF Words
    <3>2. bi = <<>>
      BY <2>1 DEF BackItems
    <3>3. all = some
      <4> HIDE DEF some, bi
      <4> QED
        BY <1>5, <3>2, ConcatEmptySeq DEF Items
    <3> QED
      BY <1>4, <3>1, <3>3
  <2>2. CASE back = <<"$">>
    <3>1. "$" \in Letters
      BY DEF Letters
    <3>2. RegComp(fc \o <<"$">>) = AddChar(PlainAt(some), "$")
      <4> HIDE DEF fc, some
      <4> QED
        BY <1>4, <3>1, OneMore
    <3>3. AddChar(PlainAt(some), "$") = PlainAt(Append(some, GlobItem("$")))
      <4> HIDE DEF some
      <4> QED
        BY <1>5, <3>1, AddPlain
    <3>4. GlobItem("$") = LastItem /\ bi = <<LastItem>>
      BY <2>2 DEF GlobItem, LastItem, BackItems
    <3>5. LastItem \in Item
      BY DEF LastItem, Item, AnItem, Letters
    <3>6. Append(some, LastItem) = some \o <<LastItem>>
      <4> HIDE DEF some
      <4> QED
        BY <1>5, <3>5, AppendIsConcat DEF Items
    <3> QED
      BY <2>2, <3>2, <3>3, <3>4, <3>6
  <2> QED
    BY <1>2, <2>1, <2>2
<1>8. Unbracketed(UvmGlobToRe(g)) = fc \o back
  BY ConversionIs DEF Anchored
<1>9. /\ c \in Words /\ Len(c) = to - from /\ Len(c) \in Nat
      /\ \A i \in 1 .. Len(c) : i + from \in 1 .. n /\ c[i] = g[i + from]
  BY WithoutAnchorsIs
<1>10. (front = <<>> /\ Len(fi) = 0 /\ from = 1) \/ (front # <<>> /\ Len(fi) = 1 /\ fi[1] = FirstItem /\ from = 0)
  BY DEF FrontItems, FirstItem
<1>11. (back = <<>> /\ Len(bi) = 0 /\ to = n - 1) \/ (back # <<>> /\ Len(bi) = 1 /\ bi[1] = LastItem /\ to = n)
  BY DEF BackItems, LastItem
<1>12. front = <<>> => n >= 1 /\ GlobItem(g[1]) = FirstItem
  <2>1. front = <<>> => g # <<>> /\ g[1] = "^"
    BY DEF FrontOf
  <2>2. g # <<>> => n # 0
    BY EmptySeq DEF Words
  <2>3. GlobItem("^") = FirstItem
    BY DEF GlobItem, FirstItem
  <2> QED
    BY <1>1, <2>1, <2>2, <2>3
<1>13. back = <<>> => n >= 1 /\ GlobItem(g[n]) = LastItem
  <2>1. back = <<>> => g # <<>> /\ g[n] = "$"
    BY DEF BackOf
  <2>2. g # <<>> => n # 0
    BY EmptySeq DEF Words
  <2>3. GlobItem("$") = LastItem
    BY DEF GlobItem, LastItem
  <2> QED
    BY <1>1, <2>1, <2>2, <2>3
<1> DEFINE f == Len(fi)
           b == Len(bi)
<1>14. f \in {0, 1} /\ from = 1 - f /\ b \in {0, 1} /\ to = n - 1 + b
       /\ Len(c) + 2 = f + n + b /\ Len(all) = Len(c) + 2
  <2>1. f \in {0, 1} /\ from = 1 - f
    BY <1>10
  <2>2. b \in {0, 1} /\ to = n - 1 + b
    <3>1. (b = 0 /\ to = n - 1) \/ (b = 1 /\ to = n)
      BY <1>11, Zenon
    <3> HIDE DEF b, to, n
    <3>2. n \in Int
      BY <1>1
    <3> QED
      BY <3>1, <3>2
  <2>3. Len(c) = to - from /\ Len(all) = (f + n) + b /\ Len(c) \in Int
    BY <1>5, <1>6, <1>9
  <2> HIDE DEF f, b, from, to, c, all, n
  <2> QED
    BY <1>1, <2>1, <2>2, <2>3
<1>15. ASSUME NEW j \in 1 .. Len(c) + 2
       PROVE  all[j] = AllItems(c)[j]
  <2> HIDE DEF fi, bi, from, to, c, all, some, n, gi, front, back
  <2>1. AllItems(c)[j] = IF j = 1 THEN FirstItem ELSE IF j = Len(c) + 2 THEN LastItem ELSE GlobItem(c[j - 1])
    BY DEF AllItems
  <2>2. j \in 1 .. f + n + b /\ Len(some) = f + n
    BY <1>5, <1>14
  <2>3. all[j] = IF j <= f + n THEN (IF j <= f THEN fi[j] ELSE gi[j - f]) ELSE bi[j - (f + n)]
    <3>1. j \in 1 .. Len(some) + Len(bi)
      BY <2>2
    <3>2. j <= f + n => j \in 1 .. Len(fi) + n
      BY <1>14, <1>1, <2>2
    <3> QED
      BY <1>5, <1>6, <2>2, <3>1, <3>2
  <2>4. CASE j = 1
    <3>1. CASE f = 1
      BY <1>1, <1>10, <1>14, <2>1, <2>3, <2>4, <3>1
    <3>2. CASE f = 0
      <4>1. front = <<>> /\ n >= 1 /\ 1 \in 1 .. n /\ 1 - f = 1
        BY <1>1, <1>10, <1>12, <3>2
      <4> QED
        BY <1>1, <1>3, <1>12, <1>14, <2>1, <2>3, <2>4, <3>2, <4>1
    <3> QED
      BY <1>14, <3>1, <3>2
  <2>5. CASE j # 1 /\ j = Len(c) + 2
    <3>1. CASE b = 1
      <4>1. j - (f + n) = 1 /\ ~(j <= f + n)
        BY <1>1, <1>14, <2>5, <3>1
      <4> QED
        BY <1>11, <2>1, <2>3, <2>5, <3>1, <4>1
    <3>2. CASE b = 0
      <4>1. back = <<>> /\ n >= 1 /\ n \in 1 .. n
        BY <1>1, <1>11, <1>13, <3>2
      <4>2. j = f + n /\ j - f = n /\ ~(j <= f) /\ j <= f + n
        BY <1>1, <1>14, <2>5, <3>2, <4>1
      <4> QED
        BY <1>3, <1>13, <2>1, <2>3, <2>5, <4>1, <4>2
    <3> QED
      BY <1>14, <3>1, <3>2
  <2>6. CASE j # 1 /\ j # Len(c) + 2
    <3>1. j - 1 \in 1 .. Len(c) /\ (j - 1) + from = j - f
      BY <1>9, <1>14, <2>6
    <3>2. c[j - 1] = g[j - f] /\ j - f \in 1 .. n
      BY <1>9, <3>1
    <3>3. j <= f + n /\ ~(j <= f)
      BY <1>1, <1>14, <3>2
    <3> QED
      BY <1>3, <2>1, <2>3, <2>6, <3>2, <3>3
  <2> QED
    BY <2>4, <2>5, <2>6
<1>16. all = AllItems(c)
  <2>1. Len(all) = Len(c) + 2 /\ Len(c) + 2 \in Nat
    BY <1>9, <1>14
  <2> HIDE DEF c, all
  <2>2. all = [j \in 1 .. Len(c) + 2 |-> all[j]]
    <3>1. all \in [1 .. Len(all) -> Item]
      BY <1>6, LenProperties DEF Items
    <3> QED
      BY <2>1, <3>1
  <2>3. AllItems(c) = [j \in 1 .. Len(c) + 2 |-> AllItems(c)[j]]
    BY DEF AllItems
  <2> QED
    BY <1>15, <2>2, <2>3
<1> QED
  BY <1>7, <1>8, <1>16

-----------------------------------------------------------------------------
(* The rest of a glob after its character j covers the rest of a string    *)
(* after its character k.                                                  *)
IsCut(cut, c, s, j, k) ==
  /\ cut \in [j .. Len(c) -> 0 .. Len(s)]
  /\ cut[j] = k /\ cut[Len(c)] = Len(s)
  /\ \A i \in j + 1 .. Len(c) : Covers(c[i], s, cut[i - 1], cut[i])
RestCovers(c, s, j, k) == \E cut : IsCut(cut, c, s, j, k)

LEMMA WholeIsRest ==
  ASSUME NEW c, NEW s PROVE GlobMatches(c, s) <=> RestCovers(c, s, 0, 0)
BY DEF GlobMatches, RestCovers, IsCut

LEMMA NoRest ==
  ASSUME NEW c, Len(c) \in Nat, NEW s, Len(s) \in Nat, NEW k \in 0 .. Len(s)
  PROVE  RestCovers(c, s, Len(c), k) <=> k = Len(s)
<1>1. RestCovers(c, s, Len(c), k) => k = Len(s)
  BY DEF RestCovers, IsCut
<1>2. ASSUME k = Len(s) PROVE RestCovers(c, s, Len(c), k)
  <2>1. IsCut([i \in Len(c) .. Len(c) |-> k], c, s, Len(c), k)
    BY <1>2 DEF IsCut
  <2> QED
    BY <2>1 DEF RestCovers
<1> QED
  BY <1>1, <1>2

LEMMA RestGoesOn ==
  ASSUME NEW c, Len(c) \in Nat, NEW s, Len(s) \in Nat, NEW k \in 0 .. Len(s),
         NEW j \in 0 .. Len(c), j < Len(c)
  PROVE  RestCovers(c, s, j, k)
           <=> \E e \in 0 .. Len(s) : Covers(c[j + 1], s, k, e) /\ RestCovers(c, s, j + 1, e)
<1>0. j + 1 \in j .. Len(c) /\ j + 1 \in j + 1 .. Len(c) /\ (j + 1) - 1 = j
  OBVIOUS
<1>1. ASSUME NEW cut, IsCut(cut, c, s, j, k)
      PROVE \E e \in 0 .. Len(s) : Covers(c[j + 1], s, k, e) /\ RestCovers(c, s, j + 1, e)
  <2> DEFINE e == cut[j + 1]
             rest == [i \in j + 1 .. Len(c) |-> cut[i]]
  <2>1. e \in 0 .. Len(s) /\ Covers(c[j + 1], s, k, e)
    BY <1>0, <1>1 DEF IsCut
  <2>2. ASSUME NEW i \in (j + 1) + 1 .. Len(c) PROVE Covers(c[i], s, rest[i - 1], rest[i])
    <3>1. i \in j + 1 .. Len(c) /\ i - 1 \in j + 1 .. Len(c)
      OBVIOUS
    <3> QED
      BY <1>1, <3>1 DEF IsCut
  <2>3. IsCut(rest, c, s, j + 1, e)
    <3>1. rest \in [j + 1 .. Len(c) -> 0 .. Len(s)]
      BY <1>1 DEF IsCut
    <3>2. rest[j + 1] = e /\ rest[Len(c)] = Len(s)
      BY <1>0, <1>1 DEF IsCut
    <3> HIDE DEF rest, e
    <3> QED
      BY <2>2, <3>1, <3>2 DEF IsCut
  <2> QED
    BY <2>1, <2>3 DEF RestCovers
<1>2. ASSUME NEW e \in 0 .. Len(s), Covers(c[j + 1], s, k, e), RestCovers(c, s, j + 1, e)
      PROVE RestCovers(c, s, j, k)
  <2>1. PICK cut : IsCut(cut, c, s, j + 1, e)
    BY <1>2 DEF RestCovers
  <2> DEFINE more == [i \in j .. Len(c) |-> IF i = j THEN k ELSE cut[i]]
  <2>2. more \in [j .. Len(c) -> 0 .. Len(s)]
    BY <2>1 DEF IsCut
  <2>3. more[j] = k /\ more[Len(c)] = Len(s)
    BY <1>0, <2>1 DEF IsCut
  <2>4. ASSUME NEW i \in j + 1 .. Len(c) PROVE Covers(c[i], s, more[i - 1], more[i])
    <3>1. CASE i = j + 1
      <4>1. more[i - 1] = k /\ more[i] = e
        BY <1>0, <2>1, <3>1 DEF IsCut
      <4> QED
        BY <1>2, <3>1, <4>1
    <3>2. CASE i # j + 1
      <4>1. i \in (j + 1) + 1 .. Len(c) /\ i - 1 # j /\ i # j /\ i - 1 \in j .. Len(c) /\ i \in j .. Len(c)
        BY <3>2
      <4> QED
        BY <2>1, <4>1 DEF IsCut
    <3> QED
      BY <3>1, <3>2
  <2>5. IsCut(more, c, s, j, k)
    <3> HIDE DEF more
    <3> QED
      BY <2>2, <2>3, <2>4 DEF IsCut
  <2> QED
    BY <2>5 DEF RestCovers
<1> QED
  BY <1>1, <1>2 DEF RestCovers

-----------------------------------------------------------------------------
(* What regexec reaches.                                                   *)
LEMMA PlacesAre ==
  ASSUME NEW items \in Items, NEW s, Len(s) \in Nat
  PROVE  /\ Places(items, s)[0] = 0 .. Len(s)
         /\ \A n \in 1 .. Len(items) : Places(items, s)[n] = Onward(Places(items, s)[n - 1], items[n], s)
<1> DEFINE N == Len(items)
           S == SUBSET (0 .. Len(s))
           a == 0 .. Len(s)
           H == [n \in 1 .. N |-> [from \in S |-> Onward(from, items[n], s)]]
           Eq(f) == f = [n \in 0 .. N |-> IF n = 0 THEN 0 .. Len(s) ELSE Onward(f[n - 1], items[n], s)]
<1>1. N \in Nat /\ a \in S
  BY DEF Items
<1>2. H \in [1 .. N -> [S -> S]]
  BY DEF Onward
<1>4. PICK f : Solves(f, N, S, a, H)
  <2> HIDE DEF H, N, S, a
  <2> QED
    BY <1>1, <1>2, Recursion
<1> DEFINE w(n) == Onward(f[n - 1], items[n], s)
<1>5. f \in [0 .. N -> S] /\ f[0] = a
  BY <1>4 DEF Solves
<1>6. ASSUME NEW n \in 1 .. N PROVE f[n] = w(n)
  <2>1. f[n - 1] \in S /\ f[n] = H[n][f[n - 1]]
    <3> HIDE DEF H, S
    <3> QED
      BY <1>1, <1>4 DEF Solves
  <2> QED
    BY <2>1
<1>7. Eq(f)
  <2>1. f = [n \in 0 .. N |-> IF n = 0 THEN a ELSE w(n)]
    <3> HIDE DEF w, H, N, S, a
    <3> QED
      BY <1>1, <1>5, <1>6
  <2> QED
    BY <2>1
<1>8. Places(items, s) = CHOOSE h : Eq(h)
  BY DEF Places
<1>9. Eq(Places(items, s))
  <2> HIDE DEF Eq
  <2> QED
    BY <1>7, <1>8
<1> DEFINE c == Places(items, s)
           v(n) == Onward(c[n - 1], items[n], s)
<1>10. c[0] = a /\ \A n \in 1 .. N : c[n] = v(n)
  <2>1. c = [n \in 0 .. N |-> IF n = 0 THEN a ELSE v(n)]
    BY <1>9, Zenon
  <2> HIDE DEF c, v, a, N
  <2> QED
    BY <1>1, <2>1
<1> QED
  BY <1>10

(* The item of a character matches what the character covers.              *)
LEMMA ItemCovers ==
  ASSUME NEW c \in Letters, c \notin {"^", "$"}, NEW s, Len(s) \in Nat,
         NEW b \in 0 .. Len(s), NEW e \in 0 .. Len(s)
  PROVE  (b <= e /\ ItemMatches(GlobItem(c), s, b, e)) <=> Covers(c, s, b, e)
<1>1. CASE c = "*"
  <2>1. GlobItem(c) = AnItem("any", ".", "*")
    BY <1>1 DEF GlobItem
  <2>2. ItemMatches(AnItem("any", ".", "*"), s, b, e)
    BY DEF ItemMatches, AnItem
  <2>3. Covers(c, s, b, e) <=> b <= e
    BY <1>1 DEF Covers
  <2> QED
    BY <2>1, <2>2, <2>3
<1>2. CASE c = "+"
  <2>1. GlobItem(c) = AnItem("any", ".", "+")
    BY <1>2 DEF GlobItem
  <2>2. ItemMatches(AnItem("any", ".", "+"), s, b, e) <=> e > b
    BY DEF ItemMatches, AnItem
  <2>3. Covers(c, s, b, e) <=> b < e
    BY <1>2 DEF Covers
  <2> QED
    BY <2>1, <2>2, <2>3
<1>3. CASE c = "?"
  <2>1. GlobItem(c) = AnItem("any", ".", "once")
    BY <1>3 DEF GlobItem
  <2>2. ItemMatches(AnItem("any", ".", "once"), s, b, e) <=> e = b + 1
    BY DEF ItemMatches, AnItem
  <2>3. Covers(c, s, b, e) <=> e = b + 1
    BY <1>3 DEF Covers
  <2> QED
    BY <2>1, <2>2, <2>3
<1>4. CASE c \notin {"*", "+", "?"}
  <2>1. GlobItem(c) = AnItem("char", c, "once")
    BY <1>4 DEF GlobItem
  <2>2. ItemMatches(AnItem("char", c, "once"), s, b, e) <=> (e = b + 1 /\ \A i \in b + 1 .. e : s[i] = c)
    BY DEF ItemMatches, AnItem
  <2>3. Covers(c, s, b, e) <=> e = b + 1 /\ s[e] = c
    BY <1>4 DEF Covers
  <2> QED
    BY <2>1, <2>2, <2>3
<1> QED
  BY <1>1, <1>2, <1>3, <1>4

LEMMA AllItemsTyped ==
  ASSUME NEW c \in Words
  PROVE  /\ AllItems(c) \in Items /\ Len(c) \in Nat /\ Len(AllItems(c)) = Len(c) + 2
         /\ AllItems(c)[1] = FirstItem /\ AllItems(c)[Len(c) + 2] = LastItem
         /\ \A i \in 1 .. Len(c) : AllItems(c)[i + 1] = GlobItem(c[i])
<1> DEFINE n == Len(c) + 2
           it(j) == IF j = 1 THEN FirstItem ELSE IF j = Len(c) + 2 THEN LastItem ELSE GlobItem(c[j - 1])
<1>1. Len(c) \in Nat /\ n \in Nat
  BY DEF Words
<1>2. FirstItem \in Item /\ LastItem \in Item
  BY DEF FirstItem, LastItem, Item, AnItem, Letters
<1>3. ASSUME NEW j \in 1 .. n PROVE it(j) \in Item
  <2>1. j # 1 /\ j # Len(c) + 2 => j - 1 \in 1 .. Len(c)
    BY <1>1
  <2>2. j # 1 /\ j # Len(c) + 2 => GlobItem(c[j - 1]) \in Item
    BY <2>1, GlobItemTyped, ElementOfSeq DEF Words
  <2> QED
    BY <1>2, <2>2
<1>4. AllItems(c) = [j \in 1 .. n |-> it(j)]
  BY DEF AllItems
<1>5. [j \in 1 .. n |-> it(j)] \in Items /\ Len([j \in 1 .. n |-> it(j)]) = n
  <2> HIDE DEF it, n
  <2>1. [j \in 1 .. n |-> it(j)] \in [1 .. n -> Item]
    BY <1>3
  <2> QED
    BY <1>1, <2>1, SeqDef DEF Items
<1>6. \A j \in 1 .. n : AllItems(c)[j] = it(j)
  BY <1>4
<1>7. 1 \in 1 .. n /\ n \in 1 .. n /\ n # 1 /\ \A i \in 1 .. Len(c) : i + 1 \in 1 .. n /\ i + 1 # 1 /\ i + 1 # n /\ (i + 1) - 1 = i
  BY <1>1
<1> QED
  BY <1>1, <1>4, <1>5, <1>6, <1>7

LEMMA FirstReaches ==
  ASSUME NEW s, Len(s) \in Nat PROVE Onward(0 .. Len(s), FirstItem, s) = {0}
<1>1. \A b, e : ItemMatches(FirstItem, s, b, e) <=> b = 0 /\ e = 0
  BY DEF ItemMatches, FirstItem, AnItem
<1> QED
  BY <1>1 DEF Onward

LEMMA LastReaches ==
  ASSUME NEW s, Len(s) \in Nat, NEW from, from \subseteq 0 .. Len(s)
  PROVE  Onward(from, LastItem, s) # {} <=> Len(s) \in from
<1>1. \A b, e : ItemMatches(LastItem, s, b, e) <=> b = Len(s) /\ e = b
  BY DEF ItemMatches, LastItem, AnItem
<1> QED
  BY <1>1 DEF Onward

LEMMA ReachIs ==
  ASSUME NEW c \in Words, \A i \in 1 .. Len(c) : c[i] \notin {"^", "$", "\\"}, NEW s, Len(s) \in Nat
  PROVE  Reach(AllItems(c), s) # {} <=> GlobMatches(c, s)
<1> DEFINE items == AllItems(c)
           p == Places(items, s)
           n == Len(c)
           Onwards(i) == /\ p[i + 1] \subseteq 0 .. Len(s)
                         /\ RestCovers(c, s, 0, 0) <=> \E e \in p[i + 1] : RestCovers(c, s, i, e)
           T == {i \in Nat : Onwards(i)}
<1>1. /\ items \in Items /\ n \in Nat /\ Len(items) = n + 2
      /\ items[1] = FirstItem /\ items[n + 2] = LastItem
      /\ \A i \in 1 .. n : items[i + 1] = GlobItem(c[i])
  BY AllItemsTyped
<1> HIDE DEF items
<1>2. p[0] = 0 .. Len(s) /\ \A i \in 1 .. n + 2 : p[i] = Onward(p[i - 1], items[i], s)
  BY <1>1, PlacesAre
<1> HIDE DEF p
<1>3. 0 \in T
  <2>1. p[1] = {0}
    BY <1>1, <1>2, FirstReaches
  <2> QED
    BY <2>1
<1>4. ASSUME NEW k \in 0 .. n, k \in T, k < n PROVE k + 1 \in T
  <2> DEFINE ch == c[k + 1]
             from == p[k + 1]
             to == p[(k + 1) + 1]
  <2>1. /\ k + 1 \in 1 .. n /\ (k + 1) + 1 \in 1 .. n + 2 /\ ((k + 1) + 1) - 1 = k + 1 /\ k \in 0 .. n
        /\ k + 1 \in Nat
    BY <1>1, <1>4
  <2>2. to = Onward(from, GlobItem(ch), s)
    BY <1>1, <1>2, <2>1
  <2>3. ch \in Letters /\ ch \notin {"^", "$"}
    BY <2>1, ElementOfSeq DEF Words
  <2>4. from \subseteq 0 .. Len(s) /\ (RestCovers(c, s, 0, 0) <=> \E b \in from : RestCovers(c, s, k, b))
    BY <1>4
  <2> HIDE DEF ch, from, to
  <2>5. to = {e \in 0 .. Len(s) : \E b \in from : Covers(ch, s, b, e)}
    <3>1. \A b \in from : \A e \in 0 .. Len(s) : (b <= e /\ ItemMatches(GlobItem(ch), s, b, e)) <=> Covers(ch, s, b, e)
      BY <2>3, <2>4, ItemCovers
    <3> QED
      BY <2>2, <3>1 DEF Onward
  <2>6. \A b \in from : RestCovers(c, s, k, b)
                          <=> \E e \in 0 .. Len(s) : Covers(ch, s, b, e) /\ RestCovers(c, s, k + 1, e)
    BY <1>1, <1>4, <2>4, RestGoesOn DEF ch
  <2>7. (\E b \in from : RestCovers(c, s, k, b)) <=> \E e \in to : RestCovers(c, s, k + 1, e)
    BY <2>5, <2>6
  <2>8. Onwards(k + 1)
    BY <2>4, <2>5, <2>7 DEF to
  <2> QED
    BY <2>1, <2>8
<1>5. n \in T
  <2> HIDE DEF T, n
  <2>1. \A k \in 0 .. n : k \in T
    BY <1>1, <1>3, <1>4, UpTo
  <2> QED
    BY <1>1, <2>1
<1>6. Reach(items, s) = p[n + 2]
  BY <1>1 DEF Reach, p
<1>7. p[n + 2] = Onward(p[n + 1], LastItem, s)
  <2>1. n + 2 \in 1 .. n + 2 /\ (n + 2) - 1 = n + 1
    BY <1>1
  <2> QED
    BY <1>1, <1>2, <2>1
<1>8. p[n + 2] # {} <=> Len(s) \in p[n + 1]
  BY <1>5, <1>7, LastReaches
<1>9. RestCovers(c, s, 0, 0) <=> \E e \in p[n + 1] : e = Len(s)
  BY <1>1, <1>5, NoRest
<1> QED
  BY <1>6, <1>8, <1>9, WholeIsRest DEF items

(* What the DPI answers for a glob.                                        *)
LEMMA DpiAnswers ==
  ASSUME NEW g \in Seq(Characters), IsGlob(g), NEW s \in Seq(Characters)
  PROVE  UvmReMatch(UvmGlobToRe(g), s) = 0 <=> GlobMatches(WithoutAnchors(g), s)
<1> DEFINE c == WithoutAnchors(g)
           rexp == RegComp(Unbracketed(UvmGlobToRe(g)))
<1>1. g \in Words /\ Len(s) \in Nat
  <2>1. Characters \subseteq Letters
    BY DEF Letters
  <2> QED
    BY <2>1, SeqMonotonic DEF Words
<1>2. rexp = PlainAt(AllItems(c))
  BY <1>1, WholeCompiled
<1>3. rexp.items = AllItems(c) /\ rexp.mode = "plain"
  BY <1>2, StateExcept DEF PlainAt
<1>4. c \in Words /\ \A i \in 1 .. Len(c) : c[i] \notin {"^", "$", "\\"}
  BY <1>1, WithoutAnchorsIs
<1>5. UvmReMatch(UvmGlobToRe(g), s) = IF rexp.mode = "plain" /\ Reach(rexp.items, s) # {} THEN 0 ELSE 1
  BY DEF UvmReMatch
<1> HIDE DEF rexp, c
<1>6. Reach(AllItems(c), s) # {} <=> GlobMatches(c, s)
  BY <1>1, <1>4, ReachIs
<1> QED
  BY <1>3, <1>5, <1>6 DEF c

-----------------------------------------------------------------------------
(* The rest of a glob of stars and single characters.                      *)
Starred(c) == /\ c \in Words /\ Len(c) \in Nat
              /\ \A i \in 1 .. Len(c) : c[i] \in Letters /\ c[i] # "+"
Text(s) == s \in Seq(Characters) /\ Len(s) \in Nat

LEMMA StarRest ==
  ASSUME NEW c, Starred(c), NEW s, Text(s), NEW k \in 0 .. Len(s),
         NEW j \in 0 .. Len(c), At(c, j) = "*"
  PROVE  /\ j < Len(c) /\ j + 1 \in 0 .. Len(c)
         /\ RestCovers(c, s, j, k) <=> \E e \in k .. Len(s) : RestCovers(c, s, j + 1, e)
<1>1. j < Len(c) /\ c[j + 1] = "*"
  BY DEF At, NoChar
<1>2. j < Len(c) /\ j + 1 \in 0 .. Len(c) /\ Len(c) \in Nat /\ Len(s) \in Nat
  BY <1>1 DEF Starred, Text
<1>3. \A e \in 0 .. Len(s) : Covers("*", s, k, e) <=> k <= e
  BY DEF Covers
<1>4. RestCovers(c, s, j, k) <=> \E e \in 0 .. Len(s) : Covers(c[j + 1], s, k, e) /\ RestCovers(c, s, j + 1, e)
  BY <1>2, RestGoesOn
<1> QED
  BY <1>1, <1>2, <1>3, <1>4

LEMMA OneRest ==
  ASSUME NEW c, Starred(c), NEW s, Text(s), NEW k \in 0 .. Len(s),
         NEW j \in 0 .. Len(c), j < Len(c), At(c, j) # "*"
  PROVE  /\ j + 1 \in 0 .. Len(c)
         /\ RestCovers(c, s, j, k)
              <=> k < Len(s) /\ Fits(c, s, j, k) /\ RestCovers(c, s, j + 1, k + 1)
<1>1. Len(c) \in Nat /\ Len(s) \in Nat /\ j + 1 \in 1 .. Len(c) /\ At(c, j) = c[j + 1]
  BY DEF At, Starred, Text
<1>2. c[j + 1] # "*" /\ c[j + 1] # "+"
  BY <1>1 DEF Starred
<1>3. ASSUME NEW e \in 0 .. Len(s)
      PROVE Covers(c[j + 1], s, k, e) <=> (e = k + 1 /\ k < Len(s) /\ Fits(c, s, j, k))
  <2>1. e = k + 1 => k < Len(s) /\ At(s, k) = s[e]
    BY <1>1 DEF At
  <2>2. CASE c[j + 1] = "?"
    <3>1. Covers(c[j + 1], s, k, e) <=> e = k + 1
      BY <2>2 DEF Covers
    <3> QED
      BY <1>1, <2>1, <2>2, <3>1 DEF Fits
  <2>3. CASE c[j + 1] # "?"
    <3>1. Covers(c[j + 1], s, k, e) <=> (e = k + 1 /\ s[e] = c[j + 1])
      BY <1>2, <2>3 DEF Covers
    <3> QED
      BY <1>1, <2>1, <2>3, <3>1 DEF Fits
  <2> QED
    BY <2>2, <2>3
<1>4. RestCovers(c, s, j, k) <=> \E e \in 0 .. Len(s) : Covers(c[j + 1], s, k, e) /\ RestCovers(c, s, j + 1, e)
  BY <1>1, RestGoesOn
<1>5. k < Len(s) => k + 1 \in 0 .. Len(s)
  BY <1>1
<1> QED
  BY <1>1, <1>3, <1>4, <1>5

(* A character of the string fits only inside the glob.                    *)
LEMMA FitsInside ==
  ASSUME NEW c, Len(c) \in Nat, NEW s, Text(s), NEW k \in 0 .. Len(s), k < Len(s),
         NEW j \in 0 .. Len(c), Fits(c, s, j, k)
  PROVE  j < Len(c)
<1>1. k + 1 \in 1 .. Len(s) /\ At(s, k) = s[k + 1]
  BY DEF Text, At
<1>2. s[k + 1] \in Characters
  BY <1>1, ElementOfSeq DEF Text
<1>3. s[k + 1] # NoChar
  BY <1>2, GlobsAssumption
<1>4. At(c, j) # NoChar
  BY <1>1, <1>3 DEF Fits, NoChar
<1> QED
  BY <1>4 DEF At

(* A stretch of the glob without a star lies on the string d places on.    *)
Literal(c, a, b) == \A i \in a .. b - 1 : At(c, i) # "*"
LiesOn(c, s, a, b, d) == \A i \in a .. b - 1 : Fits(c, s, i, i + d)
Stretches(c, s, a, b, d) ==
  /\ RestCovers(c, s, a, a + d) => b + d <= Len(s) /\ RestCovers(c, s, b, b + d)
  /\ (b + d <= Len(s) /\ LiesOn(c, s, a, b, d) /\ RestCovers(c, s, b, b + d)) => RestCovers(c, s, a, a + d)

LEMMA StretchRest ==
  ASSUME NEW c, Starred(c), NEW s, Text(s), NEW a \in 0 .. Len(c), NEW b \in a .. Len(c),
         NEW d \in Int, a + d \in 0 .. Len(s), Literal(c, a, b)
  PROVE  Stretches(c, s, a, b, d)
<1> DEFINE T == {m \in Nat : Literal(c, a, m) => Stretches(c, s, a, m, d)}
<1>1. Len(c) \in Nat /\ Len(s) \in Nat /\ a \in Nat /\ b \in Nat
  BY DEF Starred, Text
<1>2. a \in T
  BY <1>1 DEF Stretches
<1>3. ASSUME NEW m \in a .. b, m \in T, m < b PROVE m + 1 \in T
  <2>1. SUFFICES ASSUME Literal(c, a, m + 1) PROVE Stretches(c, s, a, m + 1, d)
    BY <1>1
  <2>2. m \in 0 .. Len(c) /\ m < Len(c) /\ m \in a .. (m + 1) - 1 /\ a .. m - 1 \subseteq a .. (m + 1) - 1
        /\ (m + 1) + d = (m + d) + 1 /\ m + d \in Int /\ m + d >= 0 /\ m \in Int
    BY <1>1, <1>3
  <2>3. At(c, m) # "*" /\ Literal(c, a, m)
    BY <2>1, <2>2 DEF Literal
  <2>4. Stretches(c, s, a, m, d)
    BY <1>3, <2>3
  <2>5. m + d <= Len(s) =>
          (RestCovers(c, s, m, m + d)
             <=> m + d < Len(s) /\ Fits(c, s, m, m + d) /\ RestCovers(c, s, m + 1, (m + d) + 1))
    <3> DEFINE k == m + d
    <3>1. k <= Len(s) => k \in 0 .. Len(s)
      BY <1>1, <2>2
    <3> HIDE DEF k
    <3>2. k <= Len(s) =>
            (RestCovers(c, s, m, k) <=> k < Len(s) /\ Fits(c, s, m, k) /\ RestCovers(c, s, m + 1, k + 1))
      BY <2>2, <2>3, <3>1, OneRest
    <3> QED
      BY <3>2 DEF k
  <2>6. m + d < Len(s) <=> (m + 1) + d <= Len(s)
    BY <1>1, <2>2
  <2>7. LiesOn(c, s, a, m + 1, d) => LiesOn(c, s, a, m, d) /\ Fits(c, s, m, m + d)
    BY <2>2 DEF LiesOn
  <2>8. m + d < Len(s) => m + d <= Len(s)
    BY <1>1, <2>2
  <2> QED
    BY <2>2, <2>4, <2>5, <2>6, <2>7, <2>8 DEF Stretches
<1>4. b \in T
  <2> HIDE DEF T
  <2>1. \A m \in a .. b : m \in T
    BY <1>1, <1>2, <1>3, UpTo
  <2> QED
    BY <1>1, <2>1
<1> QED
  BY <1>4

-----------------------------------------------------------------------------
(* The matcher without the DPI.  Before the first star, what is left of    *)
(* the glob covers what is left of the string exactly when the whole does. *)
(* After a star, what follows it is tried at ss - 1, lies there as far as  *)
(* it was compared, and covers the string from there or from further on    *)
(* exactly when the whole glob covers the whole string.                    *)
Simple(g) == IsGlob(g) /\ g # <<>> /\ \A i \in 1 .. Len(g) : g[i] \notin {"+", "$"}

Within(c, s, v) ==
  v \in [e : 0 .. Len(c), s : 0 .. Len(s), es : 0 .. Len(c), ss : Nat, err : {0, 1}]
Matches(c, s) == RestCovers(c, s, 0, 0)
SameHere(c, s, v) == Matches(c, s) <=> RestCovers(c, s, v.e, v.s)
Fresh(c, s, v) == (v.s = Len(s) \/ At(c, v.e) = "*") /\ SameHere(c, s, v)
SameFrom(c, s, es, k) == Matches(c, s) <=> \E m \in k .. Len(s) : RestCovers(c, s, es, m)
Backed(c, s, v) ==
  /\ v.es <= v.e /\ 1 <= v.ss /\ v.e + v.ss = v.s + v.es + 1
  /\ Literal(c, v.es, v.e) /\ LiesOn(c, s, v.es, v.e, v.s - v.e)
  /\ SameFrom(c, s, v.es, v.ss - 1)
Running(c, s, st, v) ==
  /\ Within(c, s, v)
  /\ st # "done" => v.err = 0
  /\ st \in {"convert", "match"} => v.e = 0 /\ v.s = 0
  /\ st = "head" => v.e = v.s /\ SameHere(c, s, v)
  /\ st = "stars" => Fresh(c, s, v) \/ Backed(c, s, v)
  /\ st = "tail" => v.s = Len(s) /\ SameHere(c, s, v)
  /\ st = "done" => (v.err = 0 <=> Matches(c, s))

LEMMA SimplePattern ==
  ASSUME NEW g \in Seq(Characters), Simple(g)
  PROVE  SvRe(g) = WithoutAnchors(g) /\ Starred(SvRe(g))
<1>1. g \in Words
  <2>1. Characters \subseteq Letters
    BY DEF Letters
  <2> QED
    BY <2>1, SeqMonotonic DEF Words
<1>2. Len(g) \in Nat /\ Len(g) \in 1 .. Len(g) /\ g # <<>>
  BY <1>1, EmptySeq DEF Words, Simple
<1>3. g[Len(g)] # "$"
  BY <1>2 DEF Simple
<1>4. g \in Seq(Letters)
  BY <1>1 DEF Words
<1>6. SvRe(g) = WithoutAnchors(g)
  <2>1. CASE g[1] = "^"
    <3>1. WithoutAnchors(g) = SubSeq(g, 2, Len(g))
      BY <1>2, <1>3, <2>1 DEF WithoutAnchors
    <3>2. SvRe(g) = Tail(g)
      BY <1>2, <2>1 DEF SvRe
    <3> QED
      BY <1>2, <1>4, <3>1, <3>2, TailIsSubSeq
  <2>2. CASE g[1] # "^"
    <3>1. WithoutAnchors(g) = SubSeq(g, 1, Len(g))
      BY <1>2, <1>3, <2>2 DEF WithoutAnchors
    <3>2. SvRe(g) = g
      BY <1>2, <2>2 DEF SvRe
    <3> QED
      BY <1>4, <3>1, <3>2, SubSeqFull
  <2> QED
    BY <2>1, <2>2
<1> DEFINE c == WithoutAnchors(g)
           from == IF FrontOf(g) = <<>> THEN 1 ELSE 0
<1>7. /\ c \in Words /\ Len(c) \in Nat
      /\ \A i \in 1 .. Len(c) : i + from \in 1 .. Len(g) /\ c[i] = g[i + from]
      /\ \A i \in 1 .. Len(c) : c[i] \in Letters
  BY <1>1, WithoutAnchorsIs DEF Simple
<1>8. \A i \in 1 .. Len(c) : c[i] # "+"
  <2> HIDE DEF c, from
  <2> QED
    BY <1>7 DEF Simple
<1>9. Starred(c)
  <2> HIDE DEF c
  <2> QED
    BY <1>7, <1>8 DEF Starred
<1> QED
  BY <1>6, <1>9

(* Facts about where the matcher is, unfolded once.                        *)
LEMMA WithinIs ==
  ASSUME NEW c, Starred(c), NEW s, Text(s), NEW v, Within(c, s, v)
  PROVE  /\ v.e \in 0 .. Len(c) /\ v.s \in 0 .. Len(s) /\ v.es \in 0 .. Len(c) /\ v.ss \in Nat
         /\ v.err \in {0, 1} /\ Len(c) \in Nat /\ Len(s) \in Nat
         /\ v.e \in Int /\ v.s \in Int /\ v.es \in Int /\ v.ss \in Int
         /\ 0 \in 0 .. Len(c) /\ 0 \in 0 .. Len(s)
BY DEF Within, Starred, Text

Onto(v) == [v EXCEPT !.e = @ + 1, !.s = @ + 1]

LEMMA OneOnIs ==
  ASSUME NEW c, Starred(c), NEW s, Text(s), NEW v, Within(c, s, v), v.s < Len(s), Fits(c, s, v.e, v.s),
         NEW w, w = Onto(v)
  PROVE  /\ Within(c, s, w) /\ v.e < Len(c)
         /\ w.e = v.e + 1 /\ w.s = v.s + 1 /\ w.es = v.es /\ w.ss = v.ss /\ w.err = v.err
<1>1. v.e < Len(c)
  BY WithinIs, FitsInside
<1>2. w.e = v.e + 1 /\ w.s = v.s + 1 /\ w.es = v.es /\ w.ss = v.ss /\ w.err = v.err
  BY DEF Within, Onto
<1>3. v.e + 1 \in 0 .. Len(c) /\ v.s + 1 \in 0 .. Len(s)
  BY <1>1, WithinIs
<1>4. Within(c, s, w)
  BY <1>3 DEF Within, Onto
<1> QED
  BY <1>1, <1>2, <1>4

LEMMA HeadGoesOn ==
  ASSUME NEW c, Starred(c), NEW s, Text(s), NEW v, Running(c, s, "head", v),
         v.s # Len(s), At(c, v.e) # "*", Fits(c, s, v.e, v.s),
         NEW w, w = Onto(v)
  PROVE  Running(c, s, "head", w)
<1>1. Within(c, s, v) /\ v.err = 0 /\ v.e = v.s /\ SameHere(c, s, v)
  BY DEF Running
<1>2. v.s < Len(s)
  BY <1>1, WithinIs
<1>3. /\ Within(c, s, w) /\ v.e < Len(c)
      /\ w.e = v.e + 1 /\ w.s = v.s + 1 /\ w.es = v.es /\ w.ss = v.ss /\ w.err = v.err
  BY <1>1, <1>2, OneOnIs
<1>4. RestCovers(c, s, v.e, v.s) <=> RestCovers(c, s, v.e + 1, v.s + 1)
  BY <1>1, <1>2, <1>3, WithinIs, OneRest
<1>5. SameHere(c, s, w)
  BY <1>1, <1>3, <1>4 DEF SameHere
<1> QED
  BY <1>1, <1>3, <1>5 DEF Running

LEMMA HeadFails ==
  ASSUME NEW c, Starred(c), NEW s, Text(s), NEW v, Running(c, s, "head", v),
         v.s # Len(s), At(c, v.e) # "*", ~Fits(c, s, v.e, v.s),
         NEW w, w = [v EXCEPT !.err = 1]
  PROVE  Running(c, s, "done", w)
<1>1. Within(c, s, v) /\ v.e = v.s /\ SameHere(c, s, v)
  BY DEF Running
<1>2. v.s < Len(s)
  BY <1>1, WithinIs
<1>3. Within(c, s, w) /\ w.err = 1
  BY <1>1 DEF Within
<1>4. ~RestCovers(c, s, v.e, v.s)
  <2>1. CASE v.e < Len(c)
    BY <1>1, <2>1, WithinIs, OneRest
  <2>2. CASE v.e = Len(c)
    BY <1>1, <1>2, <2>2, WithinIs, NoRest
  <2> QED
    BY <1>1, <2>1, <2>2, WithinIs
<1> QED
  BY <1>1, <1>3, <1>4 DEF Running, SameHere

LEMMA HeadEnds ==
  ASSUME NEW c, NEW s, NEW v, Running(c, s, "head", v), v.s = Len(s) \/ At(c, v.e) = "*"
  PROVE  Running(c, s, "stars", v)
BY DEF Running, Fresh

(* From a stretch that lies on the string to where the matcher is, back    *)
(* and forth.                                                              *)
LEMMA BackedIs ==
  ASSUME NEW c, Starred(c), NEW s, Text(s), NEW v, Within(c, s, v), Backed(c, s, v)
  PROVE  /\ v.ss - 1 \in 0 .. Len(s) /\ v.ss - 1 <= v.s
         /\ RestCovers(c, s, v.e, v.s) => RestCovers(c, s, v.es, v.ss - 1)
         /\ \A k \in v.ss - 1 .. Len(s) : RestCovers(c, s, v.es, k) =>
              k + (v.e - v.es) \in v.s .. Len(s) /\ RestCovers(c, s, v.e, k + (v.e - v.es))
<1> DEFINE e == v.e
           es == v.es
           ss == v.ss
           p == v.s
           d == p - e
<1>1. /\ e \in 0 .. Len(c) /\ p \in 0 .. Len(s) /\ es \in 0 .. Len(c) /\ ss \in Nat
      /\ Len(c) \in Nat /\ Len(s) \in Nat
  BY WithinIs
<1>2. es <= e /\ 1 <= ss /\ e + ss = p + es + 1 /\ Literal(c, es, e) /\ LiesOn(c, s, es, e, d)
  BY DEF Backed
<1> HIDE DEF e, es, ss, p
<1>3. ss - 1 \in 0 .. Len(s) /\ es + d = ss - 1 /\ e + d = p /\ e \in es .. Len(c) /\ d \in Int /\ ss - 1 <= p
  BY <1>1, <1>2
<1>4. RestCovers(c, s, e, p) => RestCovers(c, s, es, ss - 1)
  <2>1. Stretches(c, s, es, e, d)
    <3> HIDE DEF d
    <3> QED
      BY <1>1, <1>2, <1>3, StretchRest
  <2> HIDE DEF d
  <2>2. e + d <= Len(s)
    BY <1>1, <1>3
  <2> QED
    BY <1>2, <1>3, <2>1, <2>2 DEF Stretches
<1>5. ASSUME NEW k \in ss - 1 .. Len(s), RestCovers(c, s, es, k)
      PROVE k + (e - es) \in p .. Len(s) /\ RestCovers(c, s, e, k + (e - es))
  <2> DEFINE f == k - es
  <2>1. f \in Int /\ es + f = k /\ k \in 0 .. Len(s) /\ e + f = k + (e - es) /\ k + (e - es) >= p /\ k \in Int
    BY <1>1, <1>2, <1>3
  <2> HIDE DEF f
  <2>2. Stretches(c, s, es, e, f)
    BY <1>1, <1>2, <1>3, <2>1, StretchRest
  <2>3. e + f <= Len(s) /\ RestCovers(c, s, e, e + f)
    BY <1>5, <2>1, <2>2 DEF Stretches
  <2> QED
    BY <1>1, <2>1, <2>3
<1> QED
  BY <1>3, <1>4, <1>5 DEF e, es, ss, p

LEMMA StarsEnd ==
  ASSUME NEW c, Starred(c), NEW s, Text(s), NEW v, Running(c, s, "stars", v), v.s = Len(s)
  PROVE  Running(c, s, "tail", v)
<1>1. Within(c, s, v) /\ v.err = 0 /\ (Fresh(c, s, v) \/ Backed(c, s, v))
  BY DEF Running
<1>2. CASE Fresh(c, s, v)
  BY <1>1, <1>2 DEF Running, Fresh
<1>3. CASE Backed(c, s, v)
  <2>1. SameFrom(c, s, v.es, v.ss - 1)
    BY <1>3 DEF Backed
  <2>2. /\ v.ss - 1 \in 0 .. Len(s) /\ v.ss - 1 <= v.s
        /\ RestCovers(c, s, v.e, v.s) => RestCovers(c, s, v.es, v.ss - 1)
        /\ \A k \in v.ss - 1 .. Len(s) : RestCovers(c, s, v.es, k) =>
              k + (v.e - v.es) \in v.s .. Len(s) /\ RestCovers(c, s, v.e, k + (v.e - v.es))
    BY <1>1, <1>3, BackedIs
  <2>3. \A x \in v.s .. Len(s) : x = v.s
    BY <1>1, WithinIs
  <2>4. v.ss - 1 \in v.ss - 1 .. Len(s)
    BY <2>2
  <2>5. (\E m \in v.ss - 1 .. Len(s) : RestCovers(c, s, v.es, m)) <=> RestCovers(c, s, v.e, v.s)
    BY <2>2, <2>3, <2>4
  <2>6. SameHere(c, s, v)
    BY <2>1, <2>5 DEF SameHere, SameFrom
  <2> QED
    BY <1>1, <2>6 DEF Running
<1> QED
  BY <1>1, <1>2, <1>3

(* At a star, what is left decides.                                        *)
LEMMA StarSame ==
  ASSUME NEW c, Starred(c), NEW s, Text(s), NEW v, Running(c, s, "stars", v), At(c, v.e) = "*"
  PROVE  SameHere(c, s, v)
<1>1. Within(c, s, v) /\ (Fresh(c, s, v) \/ Backed(c, s, v))
  BY DEF Running
<1>2. CASE Fresh(c, s, v)
  BY <1>2 DEF Fresh
<1>3. CASE Backed(c, s, v)
  <2>1. SameFrom(c, s, v.es, v.ss - 1)
    BY <1>3 DEF Backed
  <2>2. /\ v.ss - 1 \in 0 .. Len(s) /\ v.ss - 1 <= v.s
        /\ RestCovers(c, s, v.e, v.s) => RestCovers(c, s, v.es, v.ss - 1)
        /\ \A k \in v.ss - 1 .. Len(s) : RestCovers(c, s, v.es, k) =>
              k + (v.e - v.es) \in v.s .. Len(s) /\ RestCovers(c, s, v.e, k + (v.e - v.es))
    BY <1>1, <1>3, BackedIs
  <2>3. v.e \in 0 .. Len(c) /\ v.s \in 0 .. Len(s) /\ Len(s) \in Nat
    BY <1>1, WithinIs
  <2>4. ASSUME NEW x \in v.s .. Len(s), RestCovers(c, s, v.e, x) PROVE RestCovers(c, s, v.e, v.s)
    <3>1. x \in 0 .. Len(s) /\ x \in Int /\ v.s <= x
      BY <2>3
    <3>2. PICK y \in x .. Len(s) : RestCovers(c, s, v.e + 1, y)
      BY <2>3, <2>4, <3>1, StarRest
    <3>3. y \in v.s .. Len(s)
      BY <2>3, <3>1
    <3> QED
      BY <2>3, <3>2, <3>3, StarRest
  <2>5. v.ss - 1 \in v.ss - 1 .. Len(s)
    BY <2>2
  <2>6. (\E m \in v.ss - 1 .. Len(s) : RestCovers(c, s, v.es, m)) <=> RestCovers(c, s, v.e, v.s)
    BY <2>2, <2>4, <2>5
  <2> QED
    BY <2>1, <2>6 DEF SameHere, SameFrom
<1> QED
  BY <1>1, <1>2, <1>3

LEMMA StarIsLast ==
  ASSUME NEW c, Starred(c), NEW s, Text(s), NEW v, Running(c, s, "stars", v), At(c, v.e) = "*",
         v.e + 1 = Len(c), NEW w, w = [v EXCEPT !.err = 0]
  PROVE  Running(c, s, "done", w)
<1>1. Within(c, s, v) /\ SameHere(c, s, v)
  BY StarSame DEF Running
<1>2. Within(c, s, w) /\ w.err = 0
  BY <1>1 DEF Within
<1>3. v.e \in 0 .. Len(c) /\ v.s \in 0 .. Len(s) /\ Len(s) \in Nat /\ Len(c) \in Nat /\ Len(s) \in v.s .. Len(s)
  BY <1>1, WithinIs
<1>4. RestCovers(c, s, v.e + 1, Len(s))
  BY <1>3, NoRest
<1>5. RestCovers(c, s, v.e, v.s)
  BY <1>3, <1>4, StarRest
<1> QED
  BY <1>1, <1>2, <1>5 DEF Running, SameHere

Past(v) == [v EXCEPT !.e = @ + 1, !.es = v.e + 1, !.ss = v.s + 1]
LEMMA StarIsPassed ==
  ASSUME NEW c, Starred(c), NEW s, Text(s), NEW v, Running(c, s, "stars", v), At(c, v.e) = "*",
         NEW w, w = Past(v)
  PROVE  Running(c, s, "stars", w)
<1>1. Within(c, s, v) /\ v.err = 0 /\ SameHere(c, s, v)
  BY StarSame DEF Running
<1>2. v.e \in 0 .. Len(c) /\ v.s \in 0 .. Len(s) /\ Len(s) \in Nat /\ Len(c) \in Nat
  BY <1>1, WithinIs
<1>3. /\ v.e + 1 \in 0 .. Len(c)
      /\ RestCovers(c, s, v.e, v.s) <=> \E m \in v.s .. Len(s) : RestCovers(c, s, v.e + 1, m)
  BY <1>2, StarRest
<1>4. w.e = v.e + 1 /\ w.s = v.s /\ w.es = v.e + 1 /\ w.ss = v.s + 1 /\ w.err = v.err
  BY <1>1 DEF Within, Past
<1>5. Within(c, s, w)
  <2>1. v.s + 1 \in Nat
    BY <1>2
  <2> QED
    BY <1>1, <1>3, <2>1 DEF Within, Past
<1>6. Literal(c, w.es, w.e) /\ LiesOn(c, s, w.es, w.e, w.s - w.e)
  BY <1>2, <1>4 DEF Literal, LiesOn
<1>7. w.es <= w.e /\ 1 <= w.ss /\ w.e + w.ss = w.s + w.es + 1 /\ w.ss - 1 = v.s
  BY <1>2, <1>4
<1>8. SameFrom(c, s, w.es, w.ss - 1)
  BY <1>1, <1>3, <1>4, <1>7 DEF SameHere, SameFrom
<1>9. Backed(c, s, w)
  BY <1>6, <1>7, <1>8 DEF Backed
<1> QED
  BY <1>1, <1>4, <1>5, <1>9 DEF Running

LEMMA StarGoesOn ==
  ASSUME NEW c, Starred(c), NEW s, Text(s), NEW v, Running(c, s, "stars", v),
         v.s # Len(s), At(c, v.e) # "*", Fits(c, s, v.e, v.s), NEW w, w = Onto(v)
  PROVE  Running(c, s, "stars", w)
<1>1. Within(c, s, v) /\ v.err = 0 /\ Backed(c, s, v)
  BY DEF Running, Fresh
<1>2. v.s < Len(s)
  BY <1>1, WithinIs
<1>3. /\ Within(c, s, w) /\ v.e < Len(c)
      /\ w.e = v.e + 1 /\ w.s = v.s + 1 /\ w.es = v.es /\ w.ss = v.ss /\ w.err = v.err
  BY <1>1, <1>2, OneOnIs
<1>4. /\ v.e \in 0 .. Len(c) /\ v.s \in 0 .. Len(s) /\ v.es \in 0 .. Len(c) /\ v.ss \in Nat
      /\ Len(c) \in Nat /\ Len(s) \in Nat
  BY <1>1, WithinIs
<1>5. /\ v.es <= v.e /\ 1 <= v.ss /\ v.e + v.ss = v.s + v.es + 1
      /\ Literal(c, v.es, v.e) /\ LiesOn(c, s, v.es, v.e, v.s - v.e) /\ SameFrom(c, s, v.es, v.ss - 1)
  BY <1>1 DEF Backed
<1>6. w.es <= w.e /\ 1 <= w.ss /\ w.e + w.ss = w.s + w.es + 1 /\ w.s - w.e = v.s - v.e /\ w.e - 1 = v.e
  <2>1. v.e \in Int /\ v.s \in Int /\ v.es \in Int /\ v.ss \in Int
    BY <1>4
  <2>2. v.es <= v.e /\ 1 <= v.ss /\ v.e + v.ss = v.s + v.es + 1
    BY <1>5
  <2> DEFINE e == v.e
             p == v.s
             es == v.es
             ss == v.ss
  <2>3. /\ e \in Int /\ p \in Int /\ es \in Int /\ ss \in Int
        /\ es <= e /\ 1 <= ss /\ e + ss = p + es + 1
        /\ w.e = e + 1 /\ w.s = p + 1 /\ w.es = es /\ w.ss = ss
    BY <1>3, <2>1, <2>2
  <2> HIDE DEF e, p, es, ss
  <2>4. (e + 1) + ss = (p + 1) + es + 1 /\ es <= e + 1 /\ (p + 1) - (e + 1) = p - e /\ (e + 1) - 1 = e
    BY <2>3
  <2> QED
    BY <2>3, <2>4 DEF e, p
<1>7. \A i \in w.es .. w.e - 1 : i \in v.es .. v.e - 1 \/ i = v.e
  BY <1>3, <1>4, <1>6
<1>8. Literal(c, w.es, w.e)
  BY <1>5, <1>7 DEF Literal
<1>9. v.e + (v.s - v.e) = v.s
  BY <1>4
<1>10. LiesOn(c, s, w.es, w.e, w.s - w.e)
  BY <1>5, <1>6, <1>7, <1>9 DEF LiesOn
<1>11. Backed(c, s, w)
  BY <1>3, <1>5, <1>6, <1>8, <1>10 DEF Backed
<1> QED
  BY <1>1, <1>3, <1>11 DEF Running

Back(v) == [v EXCEPT !.e = v.es, !.s = v.ss, !.ss = @ + 1]
LEMMA StarGoesBack ==
  ASSUME NEW c, Starred(c), NEW s, Text(s), NEW v, Running(c, s, "stars", v),
         v.s # Len(s), At(c, v.e) # "*", ~Fits(c, s, v.e, v.s), NEW w, w = Back(v)
  PROVE  Running(c, s, "stars", w)
<1>1. Within(c, s, v) /\ v.err = 0 /\ Backed(c, s, v)
  BY DEF Running, Fresh
<1>2. /\ v.e \in 0 .. Len(c) /\ v.s \in 0 .. Len(s) /\ v.es \in 0 .. Len(c) /\ v.ss \in Nat
      /\ Len(c) \in Nat /\ Len(s) \in Nat
  BY <1>1, WithinIs
<1>3. /\ v.ss - 1 \in 0 .. Len(s) /\ v.ss - 1 <= v.s
      /\ \A k \in v.ss - 1 .. Len(s) : RestCovers(c, s, v.es, k) =>
           k + (v.e - v.es) \in v.s .. Len(s) /\ RestCovers(c, s, v.e, k + (v.e - v.es))
  BY <1>1, BackedIs
<1>4. v.ss \in 0 .. Len(s)
  BY <1>2, <1>3
<1>5. w.e = v.es /\ w.s = v.ss /\ w.es = v.es /\ w.ss = v.ss + 1 /\ w.err = v.err
  BY <1>1 DEF Within, Back
<1>6. Within(c, s, w)
  <2>1. v.ss + 1 \in Nat
    BY <1>2
  <2> QED
    BY <1>1, <1>2, <1>4, <2>1 DEF Within, Back
<1>7. ~RestCovers(c, s, v.e, v.s)
  <2>1. CASE v.e < Len(c)
    BY <1>2, <2>1, OneRest
  <2>2. CASE v.e = Len(c)
    BY <1>2, <2>2, NoRest
  <2> QED
    BY <1>2, <2>1, <2>2
<1>8. v.e + v.ss = v.s + v.es + 1 /\ SameFrom(c, s, v.es, v.ss - 1)
  BY <1>1 DEF Backed
<1>9. ~RestCovers(c, s, v.es, v.ss - 1)
  <2>1. (v.ss - 1) + (v.e - v.es) = v.s /\ v.ss - 1 \in v.ss - 1 .. Len(s)
    <3>1. v.e \in Int /\ v.s \in Int /\ v.es \in Int /\ v.ss \in Int /\ Len(s) \in Int /\ v.ss - 1 <= Len(s)
      BY <1>2, <1>3
    <3>2. v.e + v.ss = v.s + v.es + 1
      BY <1>8
    <3> QED
      BY <3>1, <3>2
  <2> QED
    BY <1>3, <1>7, <2>1
<1>10. SameFrom(c, s, v.es, v.ss)
  <2>1. \A m \in v.ss - 1 .. Len(s) : m = v.ss - 1 \/ m \in v.ss .. Len(s)
    BY <1>2
  <2>2. \A m \in v.ss .. Len(s) : m \in v.ss - 1 .. Len(s)
    BY <1>2
  <2> QED
    BY <1>8, <1>9, <2>1, <2>2 DEF SameFrom
<1>11. /\ w.es <= w.e /\ 1 <= w.ss /\ w.e + w.ss = w.s + w.es + 1 /\ w.ss - 1 = v.ss
       /\ Literal(c, w.es, w.e) /\ LiesOn(c, s, w.es, w.e, w.s - w.e)
  BY <1>2, <1>5 DEF Literal, LiesOn
<1>12. Backed(c, s, w)
  BY <1>5, <1>10, <1>11 DEF Backed
<1> QED
  BY <1>1, <1>5, <1>6, <1>12 DEF Running

LEMMA TailGoesOn ==
  ASSUME NEW c, Starred(c), NEW s, Text(s), NEW v, Running(c, s, "tail", v), At(c, v.e) = "*",
         NEW w, w = [v EXCEPT !.e = @ + 1]
  PROVE  Running(c, s, "tail", w)
<1>1. Within(c, s, v) /\ v.err = 0 /\ v.s = Len(s) /\ SameHere(c, s, v)
  BY DEF Running
<1>2. v.e \in 0 .. Len(c) /\ v.s \in 0 .. Len(s) /\ Len(s) \in Nat
  BY <1>1, WithinIs
<1>3. /\ v.e + 1 \in 0 .. Len(c)
      /\ RestCovers(c, s, v.e, v.s) <=> \E m \in v.s .. Len(s) : RestCovers(c, s, v.e + 1, m)
  BY <1>2, StarRest
<1>4. \A m : m \in v.s .. Len(s) <=> m = v.s
  BY <1>1, <1>2
<1>5. Within(c, s, w) /\ w.e = v.e + 1 /\ w.s = v.s /\ w.err = v.err
  BY <1>1, <1>3 DEF Within
<1>6. SameHere(c, s, w)
  BY <1>1, <1>3, <1>4, <1>5 DEF SameHere
<1> QED
  BY <1>1, <1>5, <1>6 DEF Running

LEMMA TailEnds ==
  ASSUME NEW c, Starred(c), NEW s, Text(s), NEW v, Running(c, s, "tail", v), At(c, v.e) # "*",
         NEW w, w = [v EXCEPT !.err = IF v.e = Len(c) THEN 0 ELSE 1]
  PROVE  Running(c, s, "done", w)
<1>1. Within(c, s, v) /\ v.s = Len(s) /\ SameHere(c, s, v)
  BY DEF Running
<1>2. v.e \in 0 .. Len(c) /\ v.s \in 0 .. Len(s) /\ Len(s) \in Nat /\ Len(c) \in Nat
  BY <1>1, WithinIs
<1>3. Within(c, s, w) /\ w.err = IF v.e = Len(c) THEN 0 ELSE 1
  BY <1>1 DEF Within
<1>4. v.e = Len(c) => RestCovers(c, s, v.e, v.s)
  BY <1>1, <1>2, NoRest
<1>5. v.e # Len(c) => ~RestCovers(c, s, v.e, v.s)
  BY <1>1, <1>2, OneRest
<1> QED
  BY <1>1, <1>3, <1>4, <1>5 DEF Running, SameHere

-----------------------------------------------------------------------------
(* The invariant of name matching.                                         *)
Steps == {"convert", "match", "head", "stars", "tail", "done"}
SvInv == Simple(glob) => Running(Pattern, str, step, sv)
ReInv ==
  /\ glob \in Seq(Characters) /\ str \in Seq(Characters)
  /\ step \in Steps /\ err \in {0, 1}
  /\ step = "match" => uvm_re = UvmGlobToRe(glob)
  /\ GlobAgrees
  /\ SvInv

LEMMA PatternIs ==
  ASSUME ReInv, Simple(glob) PROVE Starred(Pattern) /\ Text(str) /\ Running(Pattern, str, step, sv)
<1>1. Starred(Pattern)
  BY SimplePattern DEF ReInv, Pattern
<1> QED
  BY <1>1 DEF ReInv, SvInv, Text

LEMMA ReStarts ==
  ASSUME glob \in Seq(Characters), str \in Seq(Characters), ReIdle PROVE ReInv
<1>1. step \in Steps /\ err \in {0, 1} /\ step # "match" /\ GlobAgrees
  BY DEF ReIdle, Steps, GlobAgrees
<1>2. ASSUME Simple(glob) PROVE Running(Pattern, str, step, sv)
  <2>1. Starred(Pattern) /\ Text(str)
    BY <1>2, SimplePattern DEF Pattern, Text
  <2>2. Len(Pattern) \in Nat /\ Len(str) \in Nat
    BY <2>1 DEF Starred, Text
  <2> QED
    BY <2>2 DEF ReIdle, Running, Within
<1> QED
  BY <1>1, <1>2 DEF ReInv, SvInv

LEMMA ConvertKeeps == ASSUME ReInv, Convert PROVE ReInv'
<1>1. UNCHANGED <<glob, str, err, sv>> /\ step = "convert" /\ step' = "match" /\ uvm_re' = UvmGlobToRe(glob)
  BY DEF Convert
<1>2. Pattern' = Pattern
  BY <1>1 DEF Pattern
<1>3. Running(Pattern, str, "convert", sv) => Running(Pattern, str, "match", sv)
  BY DEF Running
<1>4. SvInv'
  BY <1>1, <1>2, <1>3 DEF ReInv, SvInv
<1>5. GlobAgrees'
  BY <1>1 DEF GlobAgrees
<1> QED
  BY <1>1, <1>4, <1>5 DEF ReInv, Steps

LEMMA MatchKeeps == ASSUME ReInv, Match PROVE ReInv'
<1>1. /\ UNCHANGED <<glob, str, uvm_re, sv>> /\ step = "match" /\ err' = UvmReMatch(uvm_re, str)
      /\ step' = IF glob = <<>> THEN "done" ELSE "head"
  BY DEF Match
<1>2. Pattern' = Pattern /\ uvm_re = UvmGlobToRe(glob) /\ glob \in Seq(Characters) /\ str \in Seq(Characters)
  BY <1>1 DEF Pattern, ReInv
<1>3. Running(Pattern, str, "match", sv) => Running(Pattern, str, "head", sv)
  BY DEF Running, SameHere, Matches
<1>4. SvInv'
  BY <1>1, <1>2, <1>3 DEF ReInv, SvInv, Simple
<1>5. IsGlob(glob) => (err' = 0 <=> GlobMatches(WithoutAnchors(glob), str))
  BY <1>1, <1>2, DpiAnswers
<1>6. GlobAgrees'
  BY <1>1, <1>5 DEF GlobAgrees
<1>7. err' \in {0, 1}
  BY <1>1 DEF UvmReMatch
<1> QED
  BY <1>1, <1>2, <1>4, <1>6, <1>7 DEF ReInv, Steps

(* A turn of a loop leaves what the DPI answered alone.                    *)
LEMMA TurnKeeps ==
  ASSUME ReInv, step \in {"head", "stars", "tail"}, step' \in {"head", "stars", "tail", "done"},
         SvUnchanged, Simple(glob) => Running(Pattern, str, step', sv')
  PROVE  ReInv'
<1>1. UNCHANGED <<glob, str, uvm_re, err>>
  BY DEF SvUnchanged
<1>2. Pattern' = Pattern
  BY <1>1 DEF Pattern
<1>3. GlobAgrees'
  BY <1>1 DEF ReInv, GlobAgrees
<1>4. SvInv'
  BY <1>1, <1>2 DEF SvInv
<1> QED
  BY <1>1, <1>3, <1>4 DEF ReInv, Steps

LEMMA HeadKeeps == ASSUME ReInv, SvHead PROVE ReInv'
<1>1. step = "head" /\ SvUnchanged /\ step' \in {"head", "stars", "done"}
  BY DEF SvHead, Return
<1>2. ASSUME Simple(glob) PROVE Running(Pattern, str, step', sv')
  <2> DEFINE c == Pattern
  <2>1. Starred(c) /\ Text(str) /\ Running(c, str, "head", sv)
    BY <1>1, <1>2, PatternIs
  <2>2. CASE (AtEnd \/ AtStar) /\ step' = "stars" /\ UNCHANGED sv
    <3>1. sv.s = Len(str) \/ At(c, sv.e) = "*"
      BY <2>2 DEF AtEnd, AtStar
    <3> QED
      BY <2>1, <2>2, <3>1, HeadEnds
  <2>3. CASE ~AtEnd /\ ~AtStar /\ FitsHere /\ OneOn /\ UNCHANGED step
    <3>1. sv.s # Len(str) /\ At(c, sv.e) # "*" /\ Fits(c, str, sv.e, sv.s) /\ sv' = Onto(sv)
      BY <2>3 DEF AtEnd, AtStar, FitsHere, OneOn, Onto
    <3>2. step' = "head"
      BY <1>1, <2>3
    <3> HIDE DEF c
    <3>3. Running(c, str, "head", sv')
      BY <2>1, <3>1, HeadGoesOn
    <3> QED
      BY <3>2, <3>3 DEF c
  <2>4. CASE ~AtEnd /\ ~AtStar /\ ~FitsHere /\ Return(1)
    <3>1. /\ sv.s # Len(str) /\ At(c, sv.e) # "*" /\ ~Fits(c, str, sv.e, sv.s)
          /\ sv' = [sv EXCEPT !.err = 1] /\ step' = "done"
      BY <2>4 DEF AtEnd, AtStar, FitsHere, Return
    <3> HIDE DEF c
    <3>3. Running(c, str, "done", sv')
      BY <2>1, <3>1, HeadFails
    <3> QED
      BY <3>1, <3>3 DEF c
  <2> QED
    BY <2>2, <2>3, <2>4 DEF SvHead
<1> QED
  BY <1>1, <1>2, TurnKeeps

LEMMA StarsKeeps == ASSUME ReInv, SvStars PROVE ReInv'
<1>1. step = "stars" /\ SvUnchanged /\ step' \in {"stars", "tail", "done"}
  BY DEF SvStars, Return
<1>2. ASSUME Simple(glob) PROVE Running(Pattern, str, step', sv')
  <2> DEFINE c == Pattern
  <2>1. Starred(c) /\ Text(str) /\ Running(c, str, "stars", sv)
    BY <1>1, <1>2, PatternIs
  <2>2. CASE AtEnd /\ step' = "tail" /\ UNCHANGED sv
    <3>1. sv.s = Len(str)
      BY <2>2 DEF AtEnd
    <3> QED
      BY <2>1, <2>2, <3>1, StarsEnd
  <2>3. CASE ~AtEnd /\ AtStar /\ sv.e + 1 = Len(Pattern) /\ Return(0)
    <3>1. At(c, sv.e) = "*" /\ sv.e + 1 = Len(c) /\ sv' = [sv EXCEPT !.err = 0] /\ step' = "done"
      BY <2>3 DEF AtStar, Return
    <3> HIDE DEF c
    <3>2. Running(c, str, "done", sv')
      BY <2>1, <3>1, StarIsLast
    <3> QED
      BY <3>1, <3>2 DEF c
  <2>4. CASE /\ ~AtEnd /\ AtStar /\ sv.e + 1 # Len(Pattern)
             /\ sv' = [sv EXCEPT !.e = @ + 1, !.es = sv.e + 1, !.ss = sv.s + 1] /\ UNCHANGED step
    <3>1. At(c, sv.e) = "*" /\ sv' = Past(sv) /\ step' = "stars"
      BY <1>1, <2>4 DEF AtStar, Past
    <3> HIDE DEF c
    <3>2. Running(c, str, "stars", sv')
      BY <2>1, <3>1, StarIsPassed
    <3> QED
      BY <3>1, <3>2 DEF c
  <2>5. CASE ~AtEnd /\ ~AtStar /\ FitsHere /\ OneOn /\ UNCHANGED step
    <3>1. sv.s # Len(str) /\ At(c, sv.e) # "*" /\ Fits(c, str, sv.e, sv.s) /\ sv' = Onto(sv)
      BY <2>5 DEF AtEnd, AtStar, FitsHere, OneOn, Onto
    <3>2. step' = "stars"
      BY <1>1, <2>5
    <3> HIDE DEF c
    <3>3. Running(c, str, "stars", sv')
      BY <2>1, <3>1, StarGoesOn
    <3> QED
      BY <3>2, <3>3 DEF c
  <2>6. CASE /\ ~AtEnd /\ ~AtStar /\ ~FitsHere
             /\ sv' = [sv EXCEPT !.e = sv.es, !.s = sv.ss, !.ss = @ + 1] /\ UNCHANGED step
    <3>1. sv.s # Len(str) /\ At(c, sv.e) # "*" /\ ~Fits(c, str, sv.e, sv.s) /\ sv' = Back(sv)
      BY <2>6 DEF AtEnd, AtStar, FitsHere, Back
    <3>2. step' = "stars"
      BY <1>1, <2>6
    <3> HIDE DEF c
    <3>3. Running(c, str, "stars", sv')
      BY <2>1, <3>1, StarGoesBack
    <3> QED
      BY <3>2, <3>3 DEF c
  <2> QED
    BY <2>2, <2>3, <2>4, <2>5, <2>6 DEF SvStars
<1> QED
  BY <1>1, <1>2, TurnKeeps

LEMMA TailKeeps == ASSUME ReInv, SvTail PROVE ReInv'
<1>1. step = "tail" /\ SvUnchanged /\ step' \in {"tail", "done"}
  BY DEF SvTail, Return
<1>2. ASSUME Simple(glob) PROVE Running(Pattern, str, step', sv')
  <2> DEFINE c == Pattern
  <2>1. Starred(c) /\ Text(str) /\ Running(c, str, "tail", sv)
    BY <1>1, <1>2, PatternIs
  <2>2. CASE AtStar /\ sv' = [sv EXCEPT !.e = @ + 1] /\ UNCHANGED step
    <3>1. At(c, sv.e) = "*" /\ step' = "tail"
      BY <1>1, <2>2 DEF AtStar
    <3> HIDE DEF c
    <3>2. Running(c, str, "tail", sv')
      BY <2>1, <2>2, <3>1, TailGoesOn
    <3> QED
      BY <3>1, <3>2 DEF c
  <2>3. CASE ~AtStar /\ sv.e = Len(Pattern) /\ Return(0)
    <3>1. /\ At(c, sv.e) # "*" /\ step' = "done"
          /\ sv' = [sv EXCEPT !.err = IF sv.e = Len(c) THEN 0 ELSE 1]
      BY <2>3 DEF AtStar, Return
    <3> HIDE DEF c
    <3>2. Running(c, str, "done", sv')
      BY <2>1, <3>1, TailEnds
    <3> QED
      BY <3>1, <3>2 DEF c
  <2>4. CASE ~AtStar /\ sv.e # Len(Pattern) /\ Return(1)
    <3>1. /\ At(c, sv.e) # "*" /\ step' = "done"
          /\ sv' = [sv EXCEPT !.err = IF sv.e = Len(c) THEN 0 ELSE 1]
      BY <2>4 DEF AtStar, Return
    <3> HIDE DEF c
    <3>2. Running(c, str, "done", sv')
      BY <2>1, <3>1, TailEnds
    <3> QED
      BY <3>1, <3>2 DEF c
  <2> QED
    BY <2>2, <2>3, <2>4 DEF SvTail
<1> QED
  BY <1>1, <1>2, TurnKeeps

LEMMA ReStutters == ASSUME ReInv, UNCHANGED reVars PROVE ReInv'
<1>1. UNCHANGED <<glob, str, uvm_re, err, step, sv>>
  BY DEF reVars
<1>2. Pattern' = Pattern
  BY <1>1 DEF Pattern
<1>3. GlobAgrees' /\ SvInv'
  BY <1>1, <1>2 DEF ReInv, GlobAgrees, SvInv
<1> QED
  BY <1>1, <1>3 DEF ReInv

LEMMA ReStep == ReInv /\ [ReNext]_reVars => ReInv'
BY ConvertKeeps, MatchKeeps, HeadKeeps, StarsKeeps, TailKeeps, ReStutters DEF ReNext

LEMMA ReInitInv == ReInit => ReInv
<1> SUFFICES ASSUME ReInit PROVE ReInv
  OBVIOUS
<1>1. glob \in Seq(Characters) /\ str \in Seq(Characters) /\ ReIdle
  BY GlobsAssumption DEF ReInit
<1> QED
  BY <1>1, ReStarts

LEMMA InvMatchersAgree == ReInv => MatchersAgree
<1> SUFFICES ASSUME ReInv, step = "done", Simple(glob) PROVE sv.err = err
  BY DEF MatchersAgree, Simple
<1>1. Running(Pattern, str, "done", sv)
  BY PatternIs
<1>2. sv.err = 0 <=> Matches(Pattern, str)
  BY <1>1 DEF Running
<1>3. sv.err \in {0, 1}
  BY <1>1 DEF Running, Within
<1>4. err \in {0, 1} /\ (err = 0 <=> GlobMatches(WithoutAnchors(glob), str))
  BY DEF ReInv, GlobAgrees, Simple
<1>5. Pattern = WithoutAnchors(glob)
  BY SimplePattern DEF ReInv, Pattern
<1>6. GlobMatches(WithoutAnchors(glob), str) <=> Matches(Pattern, str)
  BY <1>5, WholeIsRest DEF Matches
<1> QED
  BY <1>2, <1>3, <1>4, <1>6

LEMMA ReSpecInv == ReSpec => []ReInv
BY ReInitInv, ReStep, PTL DEF ReSpec

(* A glob given to a library with the DPI, converted to a regular          *)
(* expression, stripped of its slashes, compiled and searched for, matches *)
(* exactly the strings its characters cover (uvm_regex.cc:33-239).         *)
THEOREM MatchingAgrees == ReSpec => []GlobAgrees
<1>1. ReInv => GlobAgrees
  BY DEF ReInv
<1> QED
  BY <1>1, ReSpecInv, PTL

(* The matcher of a library without the DPI, with its one place to go back *)
(* to, gives the same answer as the DPI for every glob of stars, question  *)
(* marks and plain characters (uvm_regex.svh:31-79).                       *)
THEOREM BothMatchersAgree == ReSpec => []MatchersAgree
BY InvMatchersAgree, ReSpecInv, PTL

-----------------------------------------------------------------------------
(* The loops of the matcher without the DPI end, for every glob: a turn    *)
(* goes further in the string or the glob, or the last star's part is      *)
(* tried further on, or there is a new last star; and all of these are     *)
(* bounded by the lengths of the two.                                      *)
PlaceOK(c, s, v) ==
  v \in [e : 0 .. Len(c), s : 0 .. Len(s), es : 0 .. Len(c), ss : 0 .. Len(s) + 1, err : {0, 1}]
InStep(c, s, st, v) ==
  /\ st \in {"convert", "match", "head"} => v.es = 0 /\ v.ss = 0
  /\ st \in {"convert", "match"} => v.e = 0 /\ v.s = 0
  /\ st = "stars" =>
       v.s = Len(s) \/ At(c, v.e) = "*" \/ v.e + v.ss = v.s + v.es + 1
  /\ v.es <= v.e
TurnInv ==
  /\ glob \in Seq(Characters) /\ str \in Seq(Characters)
  /\ PlaceOK(Pattern, str, sv) /\ InStep(Pattern, str, step, sv)

Further(v, w) ==
  \/ w.es > v.es
  \/ (w.es = v.es /\ w.ss > v.ss)
  \/ (w.es = v.es /\ w.ss = v.ss /\ w.s > v.s)
InPlace == PlaceOK(Pattern, str, sv)
TurnsAdvance ==
  [][/\ step = "head" /\ step' = "head" => sv'.s > sv.s
     /\ step = "stars" /\ step' = "stars" => Further(sv, sv')
     /\ step = "tail" /\ step' = "tail" => sv'.e > sv.e]_reVars

LEMMA PlaceIs ==
  ASSUME NEW c, Len(c) \in Nat, NEW s, Text(s), NEW v, PlaceOK(c, s, v)
  PROVE  /\ v.e \in 0 .. Len(c) /\ v.s \in 0 .. Len(s) /\ v.es \in 0 .. Len(c)
         /\ v.ss \in 0 .. Len(s) + 1 /\ v.err \in {0, 1} /\ Len(s) \in Nat
         /\ v.e \in Int /\ v.s \in Int /\ v.es \in Int /\ v.ss \in Int
BY DEF PlaceOK, Text

LEMMA PlaceOf ==
  ASSUME NEW c, NEW s, NEW v, NEW w, PlaceOK(c, s, v), NEW e \in 0 .. Len(c), NEW i \in 0 .. Len(s),
         NEW es \in 0 .. Len(c), NEW ss \in 0 .. Len(s) + 1,
         w = [v EXCEPT !.e = e, !.s = i, !.es = es, !.ss = ss]
  PROVE  /\ PlaceOK(c, s, w) /\ w.e = e /\ w.s = i /\ w.es = es /\ w.ss = ss
BY DEF PlaceOK

LEMMA SvReTyped == ASSUME NEW g \in Seq(Characters) PROVE SvRe(g) \in Seq(Characters)
BY DEF SvRe

LEMMA PatternTyped ==
  ASSUME TurnInv PROVE Pattern \in Seq(Characters) /\ Len(Pattern) \in Nat /\ Text(str)
<1>1. Pattern \in Seq(Characters)
  BY SvReTyped DEF TurnInv, Pattern
<1> QED
  BY <1>1 DEF TurnInv, Text

(* A turn from v to w in the loops, by the loop it was in and is in next.  *)
TurnOK(c, s, st, v, w, next) ==
  /\ PlaceOK(c, s, w) /\ InStep(c, s, next, w)
  /\ st = "head" /\ next = "head" => w.s > v.s
  /\ st = "stars" /\ next = "stars" => Further(v, w)
  /\ st = "tail" /\ next = "tail" => w.e > v.e

LEMMA BothOneOn ==
  ASSUME NEW c, Len(c) \in Nat, NEW s, Text(s), NEW v, PlaceOK(c, s, v), NEW st \in {"head", "stars"},
         InStep(c, s, st, v), v.s # Len(s), At(c, v.e) # "*", Fits(c, s, v.e, v.s),
         NEW w, w = Onto(v)
  PROVE  TurnOK(c, s, st, v, w, st)
<1> DEFINE ve == v.e  vs == v.s  ves == v.es  vss == v.ss
           we == w.e  ws == w.s  wes == w.es  wss == w.ss
<1>1. /\ ve \in 0 .. Len(c) /\ vs \in 0 .. Len(s) /\ ves \in 0 .. Len(c) /\ vss \in 0 .. Len(s) + 1
      /\ Len(s) \in Nat /\ Len(c) \in Nat
  BY PlaceIs
<1>2. ve < Len(c) /\ vs < Len(s)
  BY <1>1, FitsInside
<1>3. PlaceOK(c, s, w) /\ we = ve + 1 /\ ws = vs + 1 /\ wes = ves /\ wss = vss
  <2>1. v.e + 1 \in 0 .. Len(c) /\ v.s + 1 \in 0 .. Len(s)
    BY <1>1, <1>2
  <2>2. w.e = v.e + 1 /\ w.s = v.s + 1 /\ w.es = v.es /\ w.ss = v.ss
    BY DEF PlaceOK, Onto
  <2>3. PlaceOK(c, s, w)
    BY <2>1 DEF PlaceOK, Onto
  <2> QED
    BY <2>2, <2>3
<1>4. /\ st = "head" => ves = 0 /\ vss = 0
      /\ st = "stars" => ve + vss = vs + ves + 1
      /\ ves <= ve
  BY DEF InStep
<1>5. /\ st = "head" => wes = 0 /\ wss = 0
      /\ st = "stars" => we + wss = ws + wes + 1
      /\ wes <= we /\ ws > vs
  <2> HIDE DEF ve, vs, ves, vss, we, ws, wes, wss
  <2> QED
    BY <1>1, <1>3, <1>4
<1>6. InStep(c, s, st, w)
  BY <1>5 DEF InStep
<1> QED
  BY <1>3, <1>5, <1>6 DEF TurnOK, Further

LEMMA HeadTurn ==
  ASSUME TurnInv, SvHead PROVE TurnOK(Pattern, str, step, sv, sv', step')
<1> DEFINE c == Pattern
<1>1. Len(c) \in Nat /\ Text(str) /\ PlaceOK(c, str, sv) /\ InStep(c, str, "head", sv) /\ step = "head"
  BY PatternTyped DEF TurnInv, SvHead
<1>2. CASE (AtEnd \/ AtStar) /\ step' = "stars" /\ UNCHANGED sv
  <2>1. sv.s = Len(str) \/ At(c, sv.e) = "*"
    BY <1>2 DEF AtEnd, AtStar
  <2> HIDE DEF c
  <2>2. InStep(c, str, "stars", sv)
    BY <1>1, <2>1 DEF InStep
  <2> QED
    BY <1>1, <1>2, <2>2 DEF TurnOK, c
<1>3. CASE ~AtEnd /\ ~AtStar /\ FitsHere /\ OneOn /\ UNCHANGED step
  <2>1. /\ sv.s # Len(str) /\ At(c, sv.e) # "*" /\ Fits(c, str, sv.e, sv.s)
        /\ sv' = Onto(sv) /\ step' = "head"
    BY <1>1, <1>3 DEF AtEnd, AtStar, FitsHere, OneOn, Onto
  <2> HIDE DEF c
  <2>2. TurnOK(c, str, "head", sv, sv', "head")
    BY <1>1, <2>1, BothOneOn
  <2> QED
    BY <1>1, <2>1, <2>2 DEF c
<1>4. CASE ~AtEnd /\ ~AtStar /\ ~FitsHere /\ Return(1)
  <2>1. sv' = [sv EXCEPT !.err = 1] /\ step' = "done"
    BY <1>4 DEF Return
  <2> HIDE DEF c
  <2>2. PlaceOK(c, str, sv') /\ InStep(c, str, "done", sv')
    BY <1>1, <2>1 DEF PlaceOK, InStep
  <2> QED
    BY <1>1, <2>1, <2>2 DEF TurnOK, c
<1> QED
  BY <1>2, <1>3, <1>4 DEF SvHead

LEMMA StarTurn ==
  ASSUME NEW c, Len(c) \in Nat, NEW s, Text(s), NEW v, PlaceOK(c, s, v), InStep(c, s, "stars", v),
         v.s # Len(s), At(c, v.e) = "*", v.e + 1 # Len(c), NEW w, w = Past(v)
  PROVE  TurnOK(c, s, "stars", v, w, "stars")
<1> DEFINE ve == v.e  vs == v.s  ves == v.es  vss == v.ss
           we == w.e  ws == w.s  wes == w.es  wss == w.ss
<1>1. /\ ve \in 0 .. Len(c) /\ vs \in 0 .. Len(s) /\ ves \in 0 .. Len(c) /\ vss \in 0 .. Len(s) + 1
      /\ Len(s) \in Nat /\ Len(c) \in Nat
  BY PlaceIs
<1>2. ve < Len(c)
  BY <1>1 DEF At, NoChar
<1>3. PlaceOK(c, s, w) /\ we = ve + 1 /\ ws = vs /\ wes = ve + 1 /\ wss = vs + 1
  <2>1. v.e + 1 \in 0 .. Len(c) /\ v.s + 1 \in 0 .. Len(s) + 1
    BY <1>1, <1>2
  <2>2. w.e = v.e + 1 /\ w.s = v.s /\ w.es = v.e + 1 /\ w.ss = v.s + 1
    BY DEF PlaceOK, Past
  <2>3. PlaceOK(c, s, w)
    BY <2>1 DEF PlaceOK, Past
  <2> QED
    BY <2>2, <2>3
<1>4. ves <= ve
  BY DEF InStep
<1>5. we + wss = ws + wes + 1 /\ wes <= we /\ wes > ves
  <2> HIDE DEF ve, vs, ves, vss, we, ws, wes, wss
  <2> QED
    BY <1>1, <1>3, <1>4
<1>6. InStep(c, s, "stars", w)
  BY <1>5 DEF InStep
<1> QED
  BY <1>3, <1>5, <1>6 DEF TurnOK, Further

LEMMA BackTurn ==
  ASSUME NEW c, Len(c) \in Nat, NEW s, Text(s), NEW v, PlaceOK(c, s, v), InStep(c, s, "stars", v),
         v.s # Len(s), At(c, v.e) # "*", NEW w, w = Back(v)
  PROVE  TurnOK(c, s, "stars", v, w, "stars")
<1> DEFINE ve == v.e  vs == v.s  ves == v.es  vss == v.ss
           we == w.e  ws == w.s  wes == w.es  wss == w.ss
<1>1. /\ ve \in 0 .. Len(c) /\ vs \in 0 .. Len(s) /\ ves \in 0 .. Len(c) /\ vss \in 0 .. Len(s) + 1
      /\ Len(s) \in Nat /\ Len(c) \in Nat
  BY PlaceIs
<1>2. ve + vss = vs + ves + 1 /\ ves <= ve /\ vs # Len(s)
  BY DEF InStep
<1>3. vss \in 0 .. Len(s) /\ vss + 1 \in 0 .. Len(s) + 1
  <2> HIDE DEF ve, vs, ves, vss
  <2> QED
    BY <1>1, <1>2
<1>4. PlaceOK(c, s, w) /\ we = ves /\ ws = vss /\ wes = ves /\ wss = vss + 1
  <2>2. w.e = v.es /\ w.s = v.ss /\ w.es = v.es /\ w.ss = v.ss + 1
    BY DEF PlaceOK, Back
  <2>3. PlaceOK(c, s, w)
    BY <1>3 DEF PlaceOK, Back
  <2> QED
    BY <2>2, <2>3
<1>5. we + wss = ws + wes + 1 /\ wes <= we /\ wes = ves /\ wss > vss
  <2> HIDE DEF ve, vs, ves, vss, we, ws, wes, wss
  <2> QED
    BY <1>1, <1>2, <1>4
<1>6. InStep(c, s, "stars", w)
  BY <1>5 DEF InStep
<1> QED
  BY <1>4, <1>5, <1>6 DEF TurnOK, Further

LEMMA StarsTurn ==
  ASSUME TurnInv, SvStars PROVE TurnOK(Pattern, str, step, sv, sv', step')
<1> DEFINE c == Pattern
<1>1. Len(c) \in Nat /\ Text(str) /\ PlaceOK(c, str, sv) /\ InStep(c, str, "stars", sv) /\ step = "stars"
  BY PatternTyped DEF TurnInv, SvStars
<1>2. CASE AtEnd /\ step' = "tail" /\ UNCHANGED sv
  <2> HIDE DEF c
  <2>1. InStep(c, str, "tail", sv)
    BY <1>1 DEF InStep
  <2> QED
    BY <1>1, <1>2, <2>1 DEF TurnOK, c
<1>3. CASE ~AtEnd /\ AtStar /\ sv.e + 1 = Len(Pattern) /\ Return(0)
  <2>1. sv' = [sv EXCEPT !.err = 0] /\ step' = "done"
    BY <1>3 DEF Return
  <2> HIDE DEF c
  <2>2. PlaceOK(c, str, sv') /\ InStep(c, str, "done", sv')
    BY <1>1, <2>1 DEF PlaceOK, InStep
  <2> QED
    BY <1>1, <2>1, <2>2 DEF TurnOK, c
<1>4. CASE /\ ~AtEnd /\ AtStar /\ sv.e + 1 # Len(Pattern)
           /\ sv' = [sv EXCEPT !.e = @ + 1, !.es = sv.e + 1, !.ss = sv.s + 1] /\ UNCHANGED step
  <2>1. /\ sv.s # Len(str) /\ At(c, sv.e) = "*" /\ sv.e + 1 # Len(c)
        /\ sv' = Past(sv) /\ step' = "stars"
    BY <1>1, <1>4 DEF AtEnd, AtStar, Past
  <2> HIDE DEF c
  <2>2. TurnOK(c, str, "stars", sv, sv', "stars")
    BY <1>1, <2>1, StarTurn
  <2> QED
    BY <1>1, <2>1, <2>2 DEF c
<1>5. CASE ~AtEnd /\ ~AtStar /\ FitsHere /\ OneOn /\ UNCHANGED step
  <2>1. /\ sv.s # Len(str) /\ At(c, sv.e) # "*" /\ Fits(c, str, sv.e, sv.s)
        /\ sv' = Onto(sv) /\ step' = "stars"
    BY <1>1, <1>5 DEF AtEnd, AtStar, FitsHere, OneOn, Onto
  <2> HIDE DEF c
  <2>2. TurnOK(c, str, "stars", sv, sv', "stars")
    BY <1>1, <2>1, BothOneOn
  <2> QED
    BY <1>1, <2>1, <2>2 DEF c
<1>6. CASE /\ ~AtEnd /\ ~AtStar /\ ~FitsHere
           /\ sv' = [sv EXCEPT !.e = sv.es, !.s = sv.ss, !.ss = @ + 1] /\ UNCHANGED step
  <2>1. sv.s # Len(str) /\ At(c, sv.e) # "*" /\ sv' = Back(sv) /\ step' = "stars"
    BY <1>1, <1>6 DEF AtEnd, AtStar, Back
  <2> HIDE DEF c
  <2>2. TurnOK(c, str, "stars", sv, sv', "stars")
    BY <1>1, <2>1, BackTurn
  <2> QED
    BY <1>1, <2>1, <2>2 DEF c
<1> QED
  BY <1>2, <1>3, <1>4, <1>5, <1>6 DEF SvStars

LEMMA TailTurn ==
  ASSUME TurnInv, SvTail PROVE TurnOK(Pattern, str, step, sv, sv', step')
<1> DEFINE c == Pattern
<1>1. Len(c) \in Nat /\ Text(str) /\ PlaceOK(c, str, sv) /\ InStep(c, str, "tail", sv) /\ step = "tail"
  BY PatternTyped DEF TurnInv, SvTail
<1>2. CASE AtStar /\ sv' = [sv EXCEPT !.e = @ + 1] /\ UNCHANGED step
  <2>1. At(c, sv.e) = "*" /\ step' = "tail"
    BY <1>1, <1>2 DEF AtStar
  <2> HIDE DEF c
  <2>2. sv.e \in 0 .. Len(c) /\ sv.es \in Int
    BY <1>1, PlaceIs
  <2>3. sv.e < Len(c)
    BY <1>1, <2>1, <2>2 DEF At, NoChar
  <2>4. sv.e + 1 \in 0 .. Len(c) /\ sv.e + 1 > sv.e
    BY <1>1, <2>2, <2>3
  <2>5. PlaceOK(c, str, sv') /\ sv'.e = sv.e + 1 /\ sv'.es = sv.es
    BY <1>1, <1>2, <2>4 DEF PlaceOK
  <2>6. sv'.es <= sv'.e
    BY <1>1, <2>2, <2>5 DEF InStep
  <2>7. InStep(c, str, "tail", sv')
    BY <2>6 DEF InStep
  <2> QED
    BY <1>1, <2>1, <2>4, <2>5, <2>7 DEF TurnOK, c
<1>3. CASE (~AtStar /\ sv.e = Len(Pattern) /\ Return(0)) \/ (~AtStar /\ sv.e # Len(Pattern) /\ Return(1))
  <2>1. PICK answer \in {0, 1} : sv' = [sv EXCEPT !.err = answer] /\ step' = "done"
    BY <1>3 DEF Return
  <2> HIDE DEF c
  <2>2. PlaceOK(c, str, sv') /\ InStep(c, str, "done", sv')
    BY <1>1, <2>1 DEF PlaceOK, InStep
  <2> QED
    BY <1>1, <2>1, <2>2 DEF TurnOK, c
<1> QED
  BY <1>2, <1>3 DEF SvTail

LEMMA SvTurn ==
  ASSUME TurnInv, SvHead \/ SvStars \/ SvTail
  PROVE  TurnInv' /\ TurnOK(Pattern, str, step, sv, sv', step')
<1>1. TurnOK(Pattern, str, step, sv, sv', step')
  BY HeadTurn, StarsTurn, TailTurn
<1>2. UNCHANGED <<glob, str>> /\ Pattern' = Pattern
  BY DEF SvHead, SvStars, SvTail, SvUnchanged, Pattern
<1> QED
  BY <1>1, <1>2 DEF TurnInv, TurnOK

LEMMA TurnInit == ReInit => TurnInv
<1> SUFFICES ASSUME ReInit PROVE TurnInv
  OBVIOUS
<1>1. glob \in Seq(Characters) /\ str \in Seq(Characters) /\ step = "convert"
  BY GlobsAssumption DEF ReInit, ReIdle
<1>2. Pattern \in Seq(Characters)
  BY <1>1, SvReTyped DEF Pattern
<1>3. 0 \in 0 .. Len(Pattern) /\ 0 \in 0 .. Len(str) /\ 0 \in 0 .. Len(str) + 1
  BY <1>1, <1>2
<1>4. PlaceOK(Pattern, str, sv) /\ InStep(Pattern, str, "convert", sv)
  BY <1>3 DEF ReInit, ReIdle, PlaceOK, InStep
<1> QED
  BY <1>1, <1>4 DEF TurnInv

LEMMA TurnStep == TurnInv /\ [ReNext]_reVars => TurnInv'
<1> SUFFICES ASSUME TurnInv, [ReNext]_reVars PROVE TurnInv'
  OBVIOUS
<1>1. CASE Convert \/ Match
  <2>1. UNCHANGED <<glob, str, sv>> /\ Pattern' = Pattern
    BY <1>1 DEF Convert, Match, Pattern
  <2>2. step \in {"convert", "match"} /\ step' \in {"match", "head", "done"}
    BY <1>1 DEF Convert, Match
  <2>3. InStep(Pattern, str, step', sv)
    BY <2>2 DEF TurnInv, InStep
  <2> QED
    BY <2>1, <2>3 DEF TurnInv
<1>2. CASE UNCHANGED reVars
  BY <1>2 DEF reVars, TurnInv, Pattern
<1> QED
  BY <1>1, <1>2, SvTurn DEF ReNext

(* The loops of the matcher without the DPI cannot go on forever, whatever *)
(* the glob and the string (uvm_regex.svh:47-72): with every turn its      *)
(* place advances, and the lengths of the two bound how far.               *)
THEOREM TurnsRunOut == ReSpec => []InPlace /\ TurnsAdvance
<1> DEFINE A == /\ step = "head" /\ step' = "head" => sv'.s > sv.s
                /\ step = "stars" /\ step' = "stars" => Further(sv, sv')
                /\ step = "tail" /\ step' = "tail" => sv'.e > sv.e
<1>1. TurnInv => InPlace
  BY DEF TurnInv, InPlace
<1>2. TurnInv /\ [ReNext]_reVars => [A]_reVars
  <2> SUFFICES ASSUME TurnInv, ReNext PROVE A
    OBVIOUS
  <2>1. CASE Convert \/ Match
    BY <2>1 DEF Convert, Match
  <2>2. CASE SvHead \/ SvStars \/ SvTail
    BY <2>2, SvTurn DEF TurnOK
  <2> QED
    BY <2>1, <2>2 DEF ReNext
<1> QED
  BY <1>1, <1>2, TurnInit, TurnStep, PTL DEF ReSpec, TurnsAdvance

-----------------------------------------------------------------------------
(* The library as one unit: the service that runs keeps its invariant, the *)
(* others rest.                                                            *)
CmdFits == IF service = "cmdline" THEN CmdInv ELSE CmdRests
DpiInv == HdlInv /\ CmdFits /\ ReInv

LEMMA HdlAtRest == HdlRests => HdlInv
<1> SUFFICES ASSUME HdlRests PROVE HdlInv
  OBVIOUS
<1>1. sig \in [Bits -> Logic] /\ sig \in [Bits -> Levels]
  BY ZeroIsLogic, LogicIsLevel DEF HdlRests, Bits
<1>2. value \in Vector
  BY DepositsAssumption DEF HdlRests
<1> QED
  BY <1>1, <1>2 DEF HdlRests, HdlInv, TypeOK, SigInv, Calls

LEMMA ReAtRest == ReRests => ReInv
BY ReStarts DEF ReRests

LEMMA CmdAtRest == CmdRests => ArrayFits /\ ArgumentsCollected
BY DEF CmdRests, CmdIdle, ArrayFits, ArgumentsCollected

LEMMA DpiInitInv == DpiInit => DpiInv
BY HdlAtRest, ReAtRest, InitInv, ReInitInv, CmdInit_Inv DEF DpiInit, DpiInv, CmdFits

(* A step of the library is a step of each service or none of it.          *)
LEMMA StepOfEach ==
  [DpiNext]_dpiVars => [HdlNext]_hdlVars /\ [service = "cmdline" /\ CmdNext]_cmdVars
                         /\ [ReNext]_reVars /\ UNCHANGED service
BY DEF DpiNext, dpiVars

LEMMA CmdFitsStep ==
  CmdFits /\ UNCHANGED service /\ [service = "cmdline" /\ CmdNext]_cmdVars => CmdFits'
<1> SUFFICES ASSUME CmdFits, UNCHANGED service, [service = "cmdline" /\ CmdNext]_cmdVars
             PROVE  CmdFits'
  OBVIOUS
<1>1. CASE service = "cmdline"
  BY <1>1, CmdStep DEF CmdFits
<1>2. CASE service # "cmdline"
  BY <1>2 DEF CmdFits, CmdRests, CmdIdle, cmdVars
<1> QED
  BY <1>1, <1>2

LEMMA DpiStep == DpiInv /\ [DpiNext]_dpiVars => DpiInv'
BY StepOfEach, NextInv, ReStep, CmdFitsStep DEF DpiInv

LEMMA DpiSpecInv == DpiSpec => []DpiInv
BY DpiInitInv, DpiStep, PTL DEF DpiSpec

LEMMA BackdoorInDpi == DpiSpec => []HdlInv /\ [][HdlNext]_hdlVars
<1>1. DpiInv => HdlInv
  BY DEF DpiInv
<1>2. [DpiNext]_dpiVars => [HdlNext]_hdlVars
  BY StepOfEach
<1> QED
  BY <1>1, <1>2, DpiSpecInv, PTL DEF DpiSpec

(* The invariants of the three services in the library the simulation      *)
(* loads: the backdoor's vector and answers (uvm_hdl.c), the array of      *)
(* arguments and what the processor collects from it (uvm_svcmd_dpi.c),    *)
(* and the answers of both matchers (uvm_regex.cc, uvm_regex.svh),         *)
(* whatever service a simulation uses.                                     *)
THEOREM LibraryKeepsItsInvariants ==
  DpiSpec => [](TypeOK /\ ArrayFits /\ ArgumentsCollected /\ GlobAgrees /\ MatchersAgree)
<1>1. DpiInv => TypeOK
  BY DEF DpiInv, HdlInv
<1>2. DpiInv => ArrayFits /\ ArgumentsCollected
  BY CmdAtRest, InvFits DEF DpiInv, CmdFits, CmdInv
<1>3. DpiInv => GlobAgrees /\ MatchersAgree
  BY InvMatchersAgree DEF DpiInv, ReInv
<1> QED
  BY <1>1, <1>2, <1>3, DpiSpecInv, PTL

(* The backdoor of the library the simulation loads, compiled for any      *)
(* vendor: reads that succeed are true, writes and releases that succeed   *)
(* land, a deposit that fails has written a prefix of its range, and no    *)
(* call touches a bit its path does not name (uvm_hdl_questa.c,            *)
(* uvm_hdl_xcelium.c, uvm_hdl_vcs.c).                                      *)
THEOREM LibraryBackdoorLands ==
  DpiSpec => /\ ReadIsTrue /\ WriteLands /\ ReleaseLands
             /\ FailedDepositIsPrefix /\ OnlySelected
BY BackdoorInDpi, ReadSteps, WriteSteps, ReleaseSteps, FailedDepositSteps, SparingSteps, PTL

=============================================================================
