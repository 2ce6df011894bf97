---------------------------- MODULE ClkRst_proofs ----------------------------
(***************************************************************************)
(* Theorems about the clock and reset agent, for any number of waiting     *)
(* sequences, any counts and delays and any width of the countdown.        *)
(* TypeCorrect holds for every behaviour; the others for those in which no *)
(* request ties with a queued one in a way the queue gets wrong.           *)
(***************************************************************************)
EXTENDS ClkRst, SequenceTheorems, WellFoundedInduction, TLAPS

Entry == [id : Clients, count : 0 .. Modulus - 1]

-----------------------------------------------------------------------------
(* Induction over the naturals, as a least counterexample.                 *)
LEMMA LeastNat ==
  ASSUME NEW T, T \subseteq Nat, T # {} PROVE \E x \in T : \A y \in T : x <= y
  <1> DEFINE R == OpToRel(<, Nat)
  <1>1. IsWellFoundedOn(R, Nat)
    BY NatLessThanWellFounded
  <1>2. \A x, y \in Nat : x < y => <<x, y>> \in R
    BY DEF OpToRel
  <1> HIDE DEF R
  <1>3. PICK x \in T : \A y \in T : ~(<<y, x>> \in R)
    BY <1>1, WFMin
  <1>4. ASSUME NEW y \in T PROVE x <= y
    <2>1. ~(y < x)
      BY <1>2, <1>3
    <2> QED
      BY <2>1
  <1> QED
    BY <1>4

-----------------------------------------------------------------------------
(* The sums of deltas.                                                     *)
Counted(q) == Len(q) \in Nat /\ \A i \in 1 .. Len(q) : q[i].count \in Nat

(* Running sums of any queue exist.                                        *)
LEMMA SumsExist ==
  ASSUME NEW q, Counted(q)
  PROVE  \E f \in [0 .. Len(q) -> Nat] :
           f = [j \in 0 .. Len(q) |-> IF j = 0 THEN 0 ELSE f[j - 1] + q[j].count]
  <1> DEFINE N == Len(q)
             Sums(n, f) == /\ f \in [0 .. n -> Nat] /\ f[0] = 0
                           /\ \A j \in 1 .. n : f[j] = f[j - 1] + q[j].count
             T == {n \in 0 .. N : ~ \E f : Sums(n, f)}
  <1>0. N \in Nat /\ \A j \in 1 .. N : q[j].count \in Nat
    BY DEF Counted
  <1>1. ASSUME NEW n \in 1 .. N, NEW f, Sums(n - 1, f) PROVE \E g : Sums(n, g)
    <2> DEFINE g == [j \in 0 .. n |-> IF j = n THEN f[n - 1] + q[n].count ELSE f[j]]
    <2>1. f \in [0 .. n - 1 -> Nat] /\ q[n].count \in Nat /\ n - 1 \in 0 .. n - 1
      BY <1>0, <1>1
    <2>2. g \in [0 .. n -> Nat]
      BY <2>1
    <2>3. g[0] = 0
      BY <1>1
    <2>4. \A j \in 1 .. n : g[j] = g[j - 1] + q[j].count
      BY <1>1, <2>1
    <2> QED
      BY <2>2, <2>3, <2>4
  <1>2. Sums(0, [j \in 0 .. 0 |-> 0])
    OBVIOUS
  <1>3. T = {}
    <2> HIDE DEF Sums
    <2> SUFFICES ASSUME T # {} PROVE FALSE
      OBVIOUS
    <2>0. T \subseteq Nat
      OBVIOUS
    <2>1. PICK n \in T : \A m \in T : n <= m
      <3> HIDE DEF T
      <3> QED
        BY <2>0, LeastNat
    <2>2. n # 0
      BY <1>2
    <2>3. n \in 1 .. N /\ n - 1 \notin T
      BY <1>0, <2>1, <2>2
    <2>4. PICK f : Sums(n - 1, f)
      BY <2>3
    <2>5. \E g : Sums(n, g)
      BY <1>1, <2>3, <2>4
    <2> QED
      BY <2>5
  <1>4. PICK f : Sums(N, f)
    <2> HIDE DEF Sums
    <2>1. N \in 0 .. N
      BY <1>0
    <2> QED
      BY <1>3, <2>1
  <1>5. f = [j \in 0 .. N |-> IF j = 0 THEN 0 ELSE f[j - 1] + q[j].count]
    BY <1>0, <1>4
  <1> QED
    BY <1>4, <1>5

(* Total(q, i) is the sum of the deltas before the i-th entry.             *)
LEMMA TotalSteps ==
  ASSUME NEW q, Counted(q)
  PROVE  /\ Total(q, 1) = 0
         /\ \A i \in 1 .. Len(q) : Total(q, i + 1) = Total(q, i) + q[i].count
         /\ \A i \in 1 .. Len(q) + 1 : Total(q, i) \in Nat
  <1> DEFINE sum == CHOOSE f :
               f = [j \in 0 .. Len(q) |-> IF j = 0 THEN 0 ELSE f[j - 1] + q[j].count]
  <1>0. Len(q) \in Nat /\ \A i \in 1 .. Len(q) : q[i].count \in Nat
    BY DEF Counted
  <1>1. \A i : Total(q, i) = sum[i - 1]
    BY DEF Total
  <1>2. sum = [j \in 0 .. Len(q) |-> IF j = 0 THEN 0 ELSE sum[j - 1] + q[j].count]
    BY SumsExist
  <1> HIDE DEF sum
  <1>3. sum[0] = 0 /\ \A j \in 1 .. Len(q) : sum[j] = sum[j - 1] + q[j].count
    BY <1>0, <1>2
  <1>4. \A j \in 0 .. Len(q) : sum[j] \in Nat
    <2> DEFINE T == {j \in 0 .. Len(q) : sum[j] \notin Nat}
    <2> SUFFICES ASSUME T # {} PROVE FALSE
      OBVIOUS
    <2>1. PICK j \in T : \A m \in T : j <= m
      <3>1. T \subseteq Nat
        OBVIOUS
      <3> HIDE DEF T
      <3> QED
        BY <3>1, LeastNat
    <2>2. j # 0
      BY <1>3
    <2>3. j - 1 \in 0 .. Len(q) /\ j - 1 \notin T
      BY <1>0, <2>1, <2>2
    <2> QED
      BY <1>0, <1>3, <2>2, <2>3
  <1> QED
    <2>1. \A i \in 1 .. Len(q) : i - 1 \in 0 .. Len(q) /\ i \in 1 .. Len(q) /\ (i + 1) - 1 = i
      BY <1>0
    <2>2. \A i \in 1 .. Len(q) + 1 : i - 1 \in 0 .. Len(q)
      BY <1>0
    <2> QED
      BY <1>1, <1>3, <1>4, <2>1, <2>2

(* Where two queues have the same deltas, their sums grow alike.           *)
Alike(q, r, a, b, k) ==
  /\ a \in 1 .. Len(q) + 1 /\ b \in a .. Len(q) + 1
  /\ k \in Int /\ a + k >= 1 /\ b + k <= Len(r) + 1
  /\ \A i \in a .. b - 1 : q[i].count = r[i + k].count
GrowAlike(q, r, a, b, k) ==
  \A i \in a .. b : Total(q, i) - Total(q, a) = Total(r, i + k) - Total(r, a + k)

LEMMA TotalShift ==
  ASSUME NEW q, NEW r, Counted(q), Counted(r), NEW a, NEW b, NEW k, Alike(q, r, a, b, k)
  PROVE  GrowAlike(q, r, a, b, k)
  <1> DEFINE T == {i \in a .. b :
                     Total(q, i) - Total(q, a) # Total(r, i + k) - Total(r, a + k)}
  <1> SUFFICES ASSUME T # {} PROVE FALSE
    BY DEF GrowAlike
  <1>0. /\ Len(q) \in Nat /\ Len(r) \in Nat
        /\ a \in 1 .. Len(q) + 1 /\ b \in a .. Len(q) + 1
        /\ k \in Int /\ a + k >= 1 /\ b + k <= Len(r) + 1
        /\ \A i \in a .. b - 1 : q[i].count = r[i + k].count
    BY DEF Counted, Alike
  <1>1. PICK i \in T : \A m \in T : i <= m
    <2>1. T \subseteq Nat
      BY <1>0
    <2> HIDE DEF T
    <2> QED
      BY <2>1, LeastNat
  <1>2. Total(q, a) \in Nat /\ Total(r, a + k) \in Nat
    <2>1. a + k \in 1 .. Len(r) + 1
      BY <1>0
    <2> QED
      BY <1>0, <2>1, TotalSteps
  <1>3. i # a
    BY <1>2
  <1>4. i \in a .. b /\ i - 1 \in a .. b - 1 /\ i - 1 \notin T
    BY <1>0, <1>1, <1>3
  <1>5. PICK j \in 1 .. Len(q) : /\ j + k \in 1 .. Len(r) /\ j + 1 = i /\ (j + k) + 1 = i + k
                               /\ q[j].count = r[j + k].count /\ j \in a .. b /\ j \notin T
    <2>1. i - 1 \in 1 .. Len(q) /\ (i - 1) + k \in 1 .. Len(r)
      BY <1>0, <1>4
    <2>2. (i - 1) + 1 = i /\ ((i - 1) + k) + 1 = i + k /\ i - 1 \in a .. b
      BY <1>0, <1>4
    <2>3. q[i - 1].count = r[(i - 1) + k].count
      BY <1>0, <1>4
    <2> QED
      BY <1>4, <2>1, <2>2, <2>3
  <1>6. Total(q, j) - Total(q, a) = Total(r, j + k) - Total(r, a + k)
    BY <1>5
  <1> HIDE DEF T
  <1>7. Total(q, i) = Total(q, j) + q[j].count /\ Total(r, i + k) = Total(r, j + k) + q[j].count
    BY <1>5, TotalSteps
  <1>8. Total(q, j) \in Nat /\ Total(r, j + k) \in Nat /\ q[j].count \in Nat
    <2>1. j \in 1 .. Len(q) + 1 /\ j + k \in 1 .. Len(r) + 1
      BY <1>0, <1>5
    <2> QED
      BY <1>5, <2>1, TotalSteps DEF Counted
  <1>9. Total(q, i) - Total(q, a) = Total(r, i + k) - Total(r, a + k)
    <2> DEFINE x == Total(q, j)
               xa == Total(q, a)
               u == Total(r, j + k)
               ua == Total(r, a + k)
               c == q[j].count
    <2>1. x \in Int /\ xa \in Int /\ u \in Int /\ ua \in Int /\ c \in Int /\ x - xa = u - ua
      BY <1>2, <1>6, <1>8
    <2>2. Total(q, i) - xa = (x + c) - xa /\ Total(r, i + k) - ua = (u + c) - ua
      BY <1>7
    <2> HIDE DEF x, xa, u, ua, c
    <2>3. (x + c) - xa = (u + c) - ua
      BY <2>1
    <2> QED
      BY <2>2, <2>3 DEF xa, ua
  <1> QED
    BY <1>1, <1>9 DEF T

(* Sums do not decrease.                                                   *)
LEMMA TotalGrows ==
  ASSUME NEW q, Counted(q), NEW a \in 1 .. Len(q) + 1
  PROVE  \A i \in a .. Len(q) + 1 : Total(q, a) <= Total(q, i)
  <1> DEFINE T == {i \in a .. Len(q) + 1 : ~(Total(q, a) <= Total(q, i))}
  <1> SUFFICES ASSUME T # {} PROVE FALSE
    OBVIOUS
  <1>0. Len(q) \in Nat /\ \A i \in 1 .. Len(q) + 1 : Total(q, i) \in Nat
    BY TotalSteps DEF Counted
  <1>1. PICK i \in T : \A m \in T : i <= m
    <2>1. T \subseteq Nat
      BY <1>0
    <2> HIDE DEF T
    <2> QED
      BY <2>1, LeastNat
  <1>2. i # a
    BY <1>0
  <1> DEFINE j == i - 1
  <1>3. j \in 1 .. Len(q) /\ j >= a /\ j + 1 = i /\ j \notin T
    BY <1>0, <1>1, <1>2
  <1>4. Total(q, a) <= Total(q, j)
    BY <1>0, <1>3
  <1> HIDE DEF j, T
  <1>5. Total(q, i) = Total(q, j) + q[j].count /\ q[j].count \in Nat
    BY <1>3, TotalSteps DEF Counted
  <1>6. Total(q, a) <= Total(q, i)
    <2>1. i \in 1 .. Len(q) + 1 /\ j \in 1 .. Len(q) + 1
      BY <1>0, <1>3
    <2> QED
      BY <1>0, <1>4, <1>5, <2>1
  <1> QED
    BY <1>1, <1>6 DEF T

(* Where the deltas are zero the sums stand still.                         *)
LEMMA TotalStands ==
  ASSUME NEW q, Counted(q), NEW a \in 1 .. Len(q) + 1, NEW b \in a .. Len(q) + 1,
         \A i \in a .. b - 1 : q[i].count = 0
  PROVE  \A i \in a .. b : Total(q, i) = Total(q, a)
  <1> DEFINE T == {i \in a .. b : Total(q, i) # Total(q, a)}
  <1> SUFFICES ASSUME T # {} PROVE FALSE
    OBVIOUS
  <1>0. Len(q) \in Nat /\ \A i \in 1 .. Len(q) + 1 : Total(q, i) \in Nat
    BY TotalSteps DEF Counted
  <1>1. PICK i \in T : \A m \in T : i <= m
    <2>1. T \subseteq Nat
      BY <1>0
    <2> HIDE DEF T
    <2> QED
      BY <2>1, LeastNat
  <1>2. i # a /\ i \in a .. b
    BY <1>0
  <1>3. PICK j \in 1 .. Len(q) : j + 1 = i /\ j \in a .. b - 1 /\ j \notin T
    <2>1. i - 1 \in 1 .. Len(q) /\ (i - 1) + 1 = i /\ i - 1 \in a .. b - 1
      BY <1>0, <1>2
    <2>2. i - 1 \notin T
      BY <1>0, <1>1, <1>2
    <2> QED
      BY <2>1, <2>2
  <1>4. Total(q, j) = Total(q, a) /\ q[j].count = 0
    BY <1>0, <1>3
  <1>5. Total(q, i) = Total(q, j) + 0 /\ Total(q, j) \in Nat
    <2>1. j \in 1 .. Len(q) + 1
      BY <1>0, <1>3
    <2> QED
      BY <1>0, <1>3, <1>4, <2>1, TotalSteps
  <1>6. Total(q, i) = Total(q, a)
    BY <1>4, <1>5
  <1> QED
    BY <1>1, <1>6

-----------------------------------------------------------------------------
(* What the operations do to the sequence of entries.                      *)
LEMMA QueueCounted ==
  ASSUME NEW q \in Seq(Entry)
  PROVE  /\ Counted(q)
         /\ \A i \in 1 .. Len(q) : /\ q[i] = [id |-> q[i].id, count |-> q[i].count]
                                   /\ q[i].id \in Clients /\ q[i].count \in 0 .. Modulus - 1
  <1>1. Len(q) \in Nat /\ \A i \in 1 .. Len(q) : q[i] \in Entry
    OBVIOUS
  <1>2. Modulus \in Nat
    BY ModulusAssumption
  <1> QED
    BY <1>1, <1>2 DEF Counted, Entry

LEMMA UnsignedRange ==
  ASSUME NEW x \in Int
  PROVE  Unsigned(x) \in 0 .. Modulus - 1 /\ (x \in 0 .. Modulus - 1 => Unsigned(x) = x)
  <1>1. Modulus \in Nat /\ Modulus > 0
    BY ModulusAssumption
  <1> DEFINE m == Modulus
  <1>2. x % m \in 0 .. m - 1 /\ (x \in 0 .. m - 1 => x % m = x)
    <2> HIDE DEF m
    <2>1. m \in Nat /\ m > 0
      BY <1>1 DEF m
    <2> QED
      BY <2>1
  <1> QED
    BY <1>2 DEF Unsigned

LEMMA IntRange ==
  ASSUME NEW x \in 0 .. Modulus - 1
  PROVE  /\ AsInt(x) \in -(Modulus \div 2) .. Modulus \div 2 - 1
         /\ x < Modulus \div 2 => AsInt(x) = x
  <1> DEFINE h == Modulus \div 2
  <1>1. Modulus \in Nat /\ h \in Nat /\ Modulus = 2 * h
    BY ModulusAssumption
  <1> HIDE DEF h
  <1>2. IF x < h THEN x \in -h .. h - 1 ELSE x - Modulus \in -h .. h - 1
    BY <1>1
  <1> QED
    BY <1>2 DEF AsInt, h

LEMMA Recount ==
  ASSUME NEW q \in Seq(Entry), NEW i \in 1 .. Len(q), NEW x \in 0 .. Modulus - 1
  PROVE  LET r == [q EXCEPT ![i].count = x]
         IN  /\ r \in Seq(Entry) /\ Len(r) = Len(q)
             /\ \A j \in 1 .. Len(q) : /\ r[j].id = q[j].id
                                       /\ r[j].count = IF j = i THEN x ELSE q[j].count
  <1> DEFINE e == [q[i] EXCEPT !.count = x]
             r == [q EXCEPT ![i].count = x]
  <1>1. e \in Entry /\ e.id = q[i].id /\ e.count = x
    <2>1. q[i] \in Entry
      BY ElementOfSeq
    <2> QED
      BY <2>1 DEF Entry
  <1>2. r = [q EXCEPT ![i] = e]
    OBVIOUS
  <1> HIDE DEF e, r
  <1>3. /\ r \in Seq(Entry) /\ Len(r) = Len(q)
        /\ \A j \in 1 .. Len(q) : r[j] = IF j = i THEN e ELSE q[j]
    BY <1>1, <1>2, ExceptSeq
  <1>4. \A j \in 1 .. Len(q) : r[j].id = q[j].id /\ r[j].count = IF j = i THEN x ELSE q[j].count
    BY <1>1, <1>3
  <1> QED
    BY <1>3, <1>4 DEF r

(* An entry goes in at i, and the one there gets another delta.            *)
Inserted(q, i, x, e) == InsertAt([q EXCEPT ![i].count = x], i, e)
Beyond(i, k) == IF i < k THEN i ELSE i + 1
Insertion(q, r, i, x, e) ==
  /\ r \in Seq(Entry) /\ Len(r) = Len(q) + 1 /\ r[i] = e
  /\ \A j \in 1 .. Len(q) : /\ r[Beyond(j, i)].id = q[j].id
                            /\ r[Beyond(j, i)].count = IF j = i THEN x ELSE q[j].count

LEMMA Inserting ==
  ASSUME NEW q \in Seq(Entry), NEW i \in 1 .. Len(q), NEW x \in 0 .. Modulus - 1,
         NEW e \in Entry
  PROVE  Insertion(q, Inserted(q, i, x, e), i, x, e)
  <1> DEFINE s == [q EXCEPT ![i].count = x]
             r == Inserted(q, i, x, e)
             s1 == SubSeq(s, 1, i - 1)
             s2 == SubSeq(s, i, Len(s))
  <1>0. Len(q) \in Nat /\ i \in Nat /\ i >= 1 /\ i <= Len(q)
    OBVIOUS
  <1>1. /\ s \in Seq(Entry) /\ Len(s) = Len(q)
        /\ \A j \in 1 .. Len(q) : s[j].id = q[j].id /\ s[j].count = IF j = i THEN x ELSE q[j].count
    BY Recount
  <1>2. r = (s1 \o <<e>>) \o s2
    BY DEF Inserted, InsertAt
  <1> HIDE DEF s
  <1>3. \A j \in 1 .. Len(q) : s[j] \in Entry
    BY <1>1, ElementOfSeq
  <1>4. s1 \in Seq(Entry) /\ Len(s1) = i - 1 /\ \A j \in 1 .. i - 1 : s1[j] = s[j]
    <2>1. \A j \in 1 .. i - 1 : s[j] \in Entry
      BY <1>0, <1>3
    <2>2. s1 \in Seq(Entry) /\ Len(s1) = (IF 1 <= i - 1 THEN (i - 1) - 1 + 1 ELSE 0)
          /\ \A j \in 1 .. (i - 1) - 1 + 1 : s1[j] = s[1 + j - 1]
      BY <1>0, <2>1, SubSeqProperties
    <2> QED
      BY <1>0, <2>2
  <1>5. /\ s2 \in Seq(Entry) /\ Len(s2) = Len(q) - i + 1
        /\ \A j \in 1 .. Len(q) - i + 1 : s2[j] = s[i + j - 1]
    <2>1. \A j \in i .. Len(s) : s[j] \in Entry
      BY <1>0, <1>1, <1>3
    <2>2. /\ s2 \in Seq(Entry) /\ Len(s2) = (IF i <= Len(s) THEN Len(s) - i + 1 ELSE 0)
          /\ \A j \in 1 .. Len(s) - i + 1 : s2[j] = s[i + j - 1]
      BY <1>0, <1>1, <2>1, SubSeqProperties
    <2> QED
      BY <1>0, <1>1, <2>2
  <1> HIDE DEF s1, s2
  <1>6. /\ s1 \o <<e>> \in Seq(Entry) /\ Len(s1 \o <<e>>) = i
        /\ \A j \in 1 .. i : (s1 \o <<e>>)[j] = IF j < i THEN s[j] ELSE e
    <2> DEFINE t == <<e>>
    <2>1. t \in Seq(Entry) /\ Len(t) = 1 /\ t[1] = e
      OBVIOUS
    <2> HIDE DEF t
    <2>2. s1 \o t \in Seq(Entry) /\ Len(s1 \o t) = Len(s1) + Len(t)
          /\ \A j \in 1 .. Len(s1) + Len(t) :
                (s1 \o t)[j] = IF j <= Len(s1) THEN s1[j] ELSE t[j - Len(s1)]
      BY <1>4, <2>1, ConcatProperties
    <2>3. \A j \in 1 .. i : (s1 \o t)[j] = IF j < i THEN s[j] ELSE e
      BY <1>0, <1>4, <2>1, <2>2
    <2> QED
      BY <1>0, <1>4, <2>1, <2>2, <2>3 DEF t
  <1> DEFINE t == s1 \o <<e>>
  <1>7. t \in Seq(Entry) /\ Len(t) = i /\ \A j \in 1 .. i : t[j] = IF j < i THEN s[j] ELSE e
    BY <1>6
  <1>8. r = t \o s2
    BY <1>2
  <1> HIDE DEF t, r
  <1>9. /\ r \in Seq(Entry) /\ Len(r) = Len(q) + 1
        /\ \A j \in 1 .. Len(q) + 1 : r[j] = IF j <= i THEN t[j] ELSE s2[j - i]
    <2>1. /\ t \o s2 \in Seq(Entry) /\ Len(t \o s2) = Len(t) + Len(s2)
          /\ \A j \in 1 .. Len(t) + Len(s2) :
                (t \o s2)[j] = IF j <= Len(t) THEN t[j] ELSE s2[j - Len(t)]
      BY <1>5, <1>7, ConcatProperties
    <2>2. Len(t) + Len(s2) = Len(q) + 1
      BY <1>0, <1>5, <1>7
    <2> QED
      BY <1>7, <1>8, <2>1, <2>2
  <1>10. r[i] = e
    BY <1>0, <1>7, <1>9
  <1>11. \A j \in 1 .. Len(q) : r[Beyond(j, i)] = s[j]
    <2> SUFFICES ASSUME NEW j \in 1 .. Len(q) PROVE r[Beyond(j, i)] = s[j]
      OBVIOUS
    <2>1. CASE j < i
      <3>1. Beyond(j, i) = j /\ j \in 1 .. Len(q) + 1 /\ j <= i /\ j \in 1 .. i
        BY <1>0, <2>1 DEF Beyond
      <3> QED
        BY <1>7, <1>9, <2>1, <3>1
    <2>2. CASE ~(j < i)
      <3>0. Beyond(j, i) = j + 1
        BY <2>2 DEF Beyond
      <3>1. j + 1 \in 1 .. Len(q) + 1 /\ ~(j + 1 <= i) /\ (j + 1) - i \in 1 .. Len(q) - i + 1
            /\ i + ((j + 1) - i) - 1 = j
        BY <1>0, <2>2
      <3>2. r[j + 1] = s2[(j + 1) - i]
        BY <1>9, <3>1
      <3>3. s2[(j + 1) - i] = s[i + ((j + 1) - i) - 1]
        BY <1>5, <3>1
      <3> QED
        BY <3>0, <3>1, <3>2, <3>3
    <2> QED
      BY <2>1, <2>2
  <1> QED
    BY <1>1, <1>9, <1>10, <1>11 DEF s, r, Insertion

-----------------------------------------------------------------------------
(* The times of a queue q when the countdown is at d.                      *)
DueIn(d, q, i) == d + Total(q, i + 1) - Total(q, 2)
DueMap(d, q) == [c \in {q[i].id : i \in 1 .. Len(q)} |->
                   DueIn(d, q, CHOOSE i \in 1 .. Len(q) : q[i].id = c)]

Apart(q) == \A i, j \in 1 .. Len(q) : q[i].id = q[j].id => i = j
Holds(q, c) == \E i \in 1 .. Len(q) : q[i].id = c

LEMMA DueDef ==
  /\ \A i : DueAt(i) = DueIn(cycle_countdown, queue, i)
  /\ Due = DueMap(cycle_countdown, queue)
  BY DEF DueAt, DueIn, Due, DueMap

(* m has the clients in q, each at the time of its entry.                  *)
Times(m, d, q) ==
  /\ DOMAIN m = {q[i].id : i \in 1 .. Len(q)} /\ m = [c \in DOMAIN m |-> m[c]]
  /\ \A i \in 1 .. Len(q) : m[q[i].id] = DueIn(d, q, i)

LEMMA MapOf ==
  ASSUME NEW d, NEW q, Apart(q) PROVE Times(DueMap(d, q), d, q)
  <1>1. ASSUME NEW i \in 1 .. Len(q) PROVE (CHOOSE j \in 1 .. Len(q) : q[j].id = q[i].id) = i
    <2> DEFINE j == CHOOSE j \in 1 .. Len(q) : q[j].id = q[i].id
    <2>1. j \in 1 .. Len(q) /\ q[j].id = q[i].id
      OBVIOUS
    <2> QED
      BY <2>1 DEF Apart
  <1> QED
    BY <1>1 DEF DueMap, Times

LEMMA DueTypes ==
  ASSUME NEW d \in Int, NEW q \in Seq(Entry), q # <<>>
  PROVE  /\ Len(q) \in Nat /\ Len(q) >= 1
         /\ DueIn(d, q, 1) = d
         /\ \A i \in 1 .. Len(q) : DueIn(d, q, i) \in Int /\ d <= DueIn(d, q, i)
                                   /\ DueIn(d, q, i) <= DueIn(d, q, Len(q))
  <1>1. Counted(q) /\ Len(q) \in Nat /\ Len(q) >= 1
    BY QueueCounted
  <1>2. \A i \in 1 .. Len(q) + 1 : Total(q, i) \in Nat
    BY <1>1, TotalSteps
  <1>3. DueIn(d, q, 1) = d
    <2>1. 2 \in 1 .. Len(q) + 1
      BY <1>1
    <2> QED
      BY <1>2, <2>1 DEF DueIn
  <1>4. ASSUME NEW i \in 1 .. Len(q)
        PROVE  DueIn(d, q, i) \in Int /\ d <= DueIn(d, q, i) /\ DueIn(d, q, i) <= DueIn(d, q, Len(q))
    <2>1. /\ 2 \in 1 .. Len(q) + 1 /\ i + 1 \in 1 .. Len(q) + 1 /\ Len(q) + 1 \in 1 .. Len(q) + 1
          /\ i + 1 \in 2 .. Len(q) + 1 /\ Len(q) + 1 \in i + 1 .. Len(q) + 1
      BY <1>1
    <2>2. Total(q, 2) <= Total(q, i + 1)
      BY <1>1, <2>1, TotalGrows
    <2>3. Total(q, i + 1) <= Total(q, Len(q) + 1)
      BY <1>1, <2>1, TotalGrows
    <2> DEFINE x == Total(q, 2)
               y == Total(q, i + 1)
               z == Total(q, Len(q) + 1)
    <2>4. x \in Nat /\ y \in Nat /\ z \in Nat /\ x <= y /\ y <= z
      BY <1>2, <2>1, <2>2, <2>3
    <2>5. DueIn(d, q, i) = d + y - x /\ DueIn(d, q, Len(q)) = d + z - x
      BY DEF DueIn
    <2> HIDE DEF x, y, z
    <2> QED
      BY <2>4, <2>5
  <1> QED
    BY <1>1, <1>3, <1>4

(* A request for n joins a queue: r is q with c due at n in some place,    *)
(* and every other request is due when it was.                             *)
Joins(d, q, e, r, c, n) ==
  \E k \in 1 .. Len(q) + 1 :
    /\ Len(r) = Len(q) + 1 /\ r[k].id = c /\ DueIn(e, r, k) = n
    /\ \A i \in 1 .. Len(q) : /\ r[Beyond(i, k)].id = q[i].id
                              /\ DueIn(e, r, Beyond(i, k)) = DueIn(d, q, i)

Joined(m, c, n) == [x \in DOMAIN m \cup {c} |-> IF x = c THEN n ELSE m[x]]

LEMMA JoinsMap ==
  ASSUME NEW d, NEW q \in Seq(Entry), NEW e, NEW r, NEW c, NEW n,
         Apart(q), ~Holds(q, c), Joins(d, q, e, r, c, n)
  PROVE  /\ Apart(r)
         /\ \A x : Holds(r, x) <=> (Holds(q, x) \/ x = c)
         /\ c \notin DOMAIN DueMap(d, q)
         /\ DueMap(e, r) = Joined(DueMap(d, q), c, n)
         /\ DueIn(e, r, Len(r)) = n \/ (q # <<>> /\ DueIn(e, r, Len(r)) = DueIn(d, q, Len(q)))
  <1>0. Len(q) \in Nat /\ Len(r) = Len(q) + 1
    BY DEF Joins
  <1>1. PICK k \in 1 .. Len(q) + 1 :
          /\ r[k].id = c /\ DueIn(e, r, k) = n
          /\ \A i \in 1 .. Len(q) : /\ r[Beyond(i, k)].id = q[i].id
                                    /\ DueIn(e, r, Beyond(i, k)) = DueIn(d, q, i)
    BY DEF Joins
  <1>2. \A i \in 1 .. Len(q) : Beyond(i, k) \in 1 .. Len(r) /\ Beyond(i, k) # k
    BY <1>0 DEF Beyond
  <1>3. \A j \in 1 .. Len(r) : j = k \/ \E i \in 1 .. Len(q) : Beyond(i, k) = j
    <2> SUFFICES ASSUME NEW j \in 1 .. Len(r), j # k
                 PROVE  \E i \in 1 .. Len(q) : Beyond(i, k) = j
      OBVIOUS
    <2>1. CASE j < k
      <3>1. j \in 1 .. Len(q)
        BY <1>0, <2>1
      <3> QED
        BY <2>1, <3>1 DEF Beyond
    <2>2. CASE ~(j < k)
      <3>1. j - 1 \in 1 .. Len(q) /\ ~(j - 1 < k) /\ (j - 1) + 1 = j
        BY <1>0, <2>2
      <3> QED
        BY <3>1 DEF Beyond
    <2> QED
      BY <2>1, <2>2
  <1>4. \A i \in 1 .. Len(q) : q[i].id # c
    BY DEF Holds
  <1>5. Apart(r)
    <2> SUFFICES ASSUME NEW i \in 1 .. Len(r), NEW j \in 1 .. Len(r), r[i].id = r[j].id
                 PROVE  i = j
      BY DEF Apart
    <2>1. (i = k) <=> (j = k)
      BY <1>1, <1>3, <1>4
    <2>2. CASE i # k
      <3>1. PICK u \in 1 .. Len(q) : Beyond(u, k) = i
        BY <1>3, <2>2
      <3>2. PICK v \in 1 .. Len(q) : Beyond(v, k) = j
        BY <1>3, <2>1, <2>2
      <3>3. q[u].id = q[v].id
        BY <1>1, <3>1, <3>2
      <3> QED
        BY <3>1, <3>2, <3>3 DEF Apart
    <2> QED
      BY <2>1, <2>2
  <1>6. \A x : Holds(r, x) <=> (Holds(q, x) \/ x = c)
    <2>1. ASSUME NEW x, Holds(r, x) PROVE Holds(q, x) \/ x = c
      BY <1>1, <1>3, <2>1 DEF Holds
    <2>2. ASSUME NEW x, Holds(q, x) PROVE Holds(r, x)
      BY <1>1, <1>2, <2>2 DEF Holds
    <2>3. Holds(r, c)
      BY <1>0, <1>1 DEF Holds
    <2> QED
      BY <2>1, <2>2, <2>3
  <1>7. \A f \in {d, e}, s \in {q, r} : \A x : x \in DOMAIN DueMap(f, s) <=> Holds(s, x)
    BY DEF DueMap, Holds
  <1>8. DOMAIN DueMap(e, r) = DOMAIN DueMap(d, q) \cup {c}
    BY <1>6, <1>7
  <1> DEFINE m == DueMap(e, r)
  <1>a. \A j \in 1 .. Len(r) : m[r[j].id] = DueIn(e, r, j)
    BY <1>5, MapOf DEF Times
  <1> HIDE DEF m
  <1>9. DueMap(e, r)[c] = n
    <2>1. m[r[k].id] = DueIn(e, r, k)
      BY <1>0, <1>a
    <2> QED
      BY <1>1, <2>1 DEF m
  <1>10. ASSUME NEW x \in DOMAIN DueMap(d, q) PROVE x # c /\ DueMap(e, r)[x] = DueMap(d, q)[x]
    <2>1. PICK i \in 1 .. Len(q) : q[i].id = x
      BY <1>7 DEF Holds
    <2>2. DueMap(d, q)[x] = DueIn(d, q, i)
      BY <2>1, MapOf DEF Times
    <2>3. DueMap(e, r)[x] = DueIn(e, r, Beyond(i, k))
      <3>1. m[r[Beyond(i, k)].id] = DueIn(e, r, Beyond(i, k))
        BY <1>2, <1>a
      <3> QED
        BY <1>1, <2>1, <3>1 DEF m
    <2> QED
      BY <1>1, <1>4, <2>1, <2>2, <2>3
  <1>11. DueMap(e, r) = Joined(DueMap(d, q), c, n)
    <2>1. DueMap(e, r) = [x \in DOMAIN DueMap(e, r) |-> DueMap(e, r)[x]]
      BY <1>5, MapOf DEF Times
    <2> QED
      BY <1>8, <1>9, <1>10, <2>1 DEF Joined
  <1>12. DueIn(e, r, Len(r)) = n \/ (q # <<>> /\ DueIn(e, r, Len(r)) = DueIn(d, q, Len(q)))
    <2>1. CASE k = Len(r)
      BY <1>1, <2>1
    <2>2. CASE k # Len(r)
      <3>1. Len(q) \in 1 .. Len(q) /\ Beyond(Len(q), k) = Len(r) /\ q # <<>>
        BY <1>0, <2>2 DEF Beyond
      <3> QED
        BY <1>1, <3>1
    <2> QED
      BY <2>1, <2>2
  <1>13. c \notin DOMAIN DueMap(d, q)
    BY <1>7
  <1> QED
    BY <1>5, <1>6, <1>11, <1>12, <1>13

-----------------------------------------------------------------------------
(* The walk through the queue.                                             *)
Fits(q, n, i) == n > Unsigned(Total(q, i)) /\ n < Unsigned(Total(q, i + 1))
Delta(q, n, i) == Unsigned(n - Total(q, i))
Before(q, c, n, i) ==
  Inserted(q, i, Unsigned(q[i].count - Delta(q, n, i)), [id |-> c, count |-> Delta(q, n, i)])

LEMMA WalkCases ==
  ASSUME NEW q \in Seq(Entry), NEW c, NEW n
  PROVE  \/ \E i \in 1 .. Len(q) : Fits(q, n, i) /\ Walk(q, c, n) = Before(q, c, n, i)
         \/ /\ \A i \in 1 .. Len(q) : ~Fits(q, n, i)
            /\ Walk(q, c, n) = IF n < q[Len(q)].count THEN Before(q, c, n, Len(q))
                              ELSE Append(q, [id |-> c, count |-> Delta(q, n, Len(q) + 1)])
  <1> DEFINE T == {i \in 1 .. Len(q) : Fits(q, n, i)}
             least == CHOOSE i \in 1 .. Len(q) : Fits(q, n, i) /\ \A j \in 1 .. i - 1 : ~Fits(q, n, j)
  <1>0. Len(q) \in Nat
    OBVIOUS
  <1>1. Walk(q, c, n) = IF \E i \in 1 .. Len(q) : Fits(q, n, i)
                        THEN Before(q, c, n, least)
                        ELSE IF n < q[Len(q)].count THEN Before(q, c, n, Len(q))
                             ELSE Append(q, [id |-> c, count |-> Delta(q, n, Len(q) + 1)])
    BY DEF Walk, Fits, Delta, Before, Inserted
  <1>2. ASSUME T # {} PROVE least \in 1 .. Len(q) /\ Fits(q, n, least)
    <2>1. PICK i \in T : \A j \in T : i <= j
      <3>1. T \subseteq Nat
        OBVIOUS
      <3> HIDE DEF T
      <3> QED
        BY <1>2, <3>1, LeastNat
    <2>2. i \in 1 .. Len(q) /\ Fits(q, n, i)
      BY <2>1
    <2>3. \A j \in 1 .. i - 1 : ~Fits(q, n, j)
      BY <1>0, <2>1
    <2> QED
      BY <2>2, <2>3
  <1> QED
    <2> HIDE DEF least
    <2> QED
      BY <1>1, <1>2

(* Wherever the walk ends, there is one entry more, and it is for c.       *)
LEMMA WalkTypes ==
  ASSUME NEW q \in Seq(Entry), q # <<>>, NEW c \in Clients, NEW n \in Nat
  PROVE  Walk(q, c, n) \in Seq(Entry)
  <1>0. Len(q) \in Nat /\ Len(q) >= 1 /\ Counted(q)
    BY QueueCounted
  <1>1. \A i \in 1 .. Len(q) + 1 : Delta(q, n, i) \in 0 .. Modulus - 1
    <2>1. \A i \in 1 .. Len(q) + 1 : Total(q, i) \in Nat
      BY <1>0, TotalSteps
    <2>2. \A i \in 1 .. Len(q) + 1 : n - Total(q, i) \in Int
      BY <2>1
    <2> QED
      BY <2>2, UnsignedRange DEF Delta
  <1>2. \A i \in 1 .. Len(q) + 1 : [id |-> c, count |-> Delta(q, n, i)] \in Entry
    BY <1>1 DEF Entry
  <1>3. ASSUME NEW i \in 1 .. Len(q) PROVE Before(q, c, n, i) \in Seq(Entry)
    <2> DEFINE x == Unsigned(q[i].count - Delta(q, n, i))
               e == [id |-> c, count |-> Delta(q, n, i)]
    <2>1. q[i].count - Delta(q, n, i) \in Int
      <3>1. q[i].count \in Nat
        BY <1>0 DEF Counted
      <3>2. Delta(q, n, i) \in Int
        BY <1>0, <1>1
      <3> QED
        BY <3>1, <3>2
    <2>2. x \in 0 .. Modulus - 1
      BY <2>1, UnsignedRange
    <2>3. e \in Entry
      BY <1>0, <1>2
    <2> HIDE DEF x, e
    <2>4. Inserted(q, i, x, e) \in Seq(Entry)
      BY <2>2, <2>3, Inserting DEF Insertion
    <2> QED
      BY <2>4 DEF Before, x, e
  <1>4. Append(q, [id |-> c, count |-> Delta(q, n, Len(q) + 1)]) \in Seq(Entry)
    <2>1. [id |-> c, count |-> Delta(q, n, Len(q) + 1)] \in Entry
      BY <1>0, <1>2
    <2> QED
      BY <2>1, AppendProperties
  <1>5. Len(q) \in 1 .. Len(q)
    BY <1>0
  <1> QED
    BY <1>3, <1>4, <1>5, WalkCases

(* With the countdown in the first entry, the sums are the times.          *)
Loaded(d, q) == /\ q # <<>> /\ d \in Nat /\ q[1].count = d
                /\ DueIn(d, q, Len(q)) < Modulus \div 2

LEMMA LoadedSums ==
  ASSUME NEW q \in Seq(Entry), NEW d, Loaded(d, q)
  PROVE  /\ Total(q, 1) = 0 /\ Total(q, 2) = d
         /\ \A i \in 1 .. Len(q) : Total(q, i + 1) = DueIn(d, q, i)
         /\ \A i \in 1 .. Len(q) + 1 : /\ Total(q, i) \in Nat
                                       /\ Total(q, i) <= Total(q, Len(q) + 1)
                                       /\ Total(q, i) < Modulus \div 2
                                       /\ Unsigned(Total(q, i)) = Total(q, i)
  <1> DEFINE h == Modulus \div 2
             t(i) == Total(q, i)
  <1>0. /\ Len(q) \in Nat /\ Len(q) >= 1 /\ Counted(q) /\ d \in Nat /\ q[1].count = d
        /\ DueIn(d, q, Len(q)) < h
    BY QueueCounted DEF Loaded
  <1>1. /\ t(1) = 0 /\ \A i \in 1 .. Len(q) : t(i + 1) = t(i) + q[i].count
        /\ \A i \in 1 .. Len(q) + 1 : t(i) \in Nat
    BY <1>0, TotalSteps
  <1>2. \A i \in 1 .. Len(q) + 1 : t(i) <= t(Len(q) + 1)
    <2> SUFFICES ASSUME NEW i \in 1 .. Len(q) + 1 PROVE t(i) <= t(Len(q) + 1)
      OBVIOUS
    <2>1. Len(q) + 1 \in i .. Len(q) + 1
      BY <1>0
    <2> QED
      BY <1>0, <2>1, TotalGrows
  <1>3. \A i : DueIn(d, q, i) = d + t(i + 1) - t(2)
    BY DEF DueIn
  <1>4. Modulus \in Nat /\ h \in Nat /\ h <= Modulus
    BY ModulusAssumption
  <1> HIDE DEF t, h
  <1>5. t(2) = d
    <2>1. 1 \in 1 .. Len(q) /\ t(1 + 1) = t(1) + q[1].count
      BY <1>0, <1>1
    <2> QED
      BY <1>0, <1>1, <2>1
  <1>6. \A i \in 1 .. Len(q) : t(i + 1) = DueIn(d, q, i)
    <2> SUFFICES ASSUME NEW i \in 1 .. Len(q) PROVE t(i + 1) = DueIn(d, q, i)
      OBVIOUS
    <2>1. i + 1 \in 1 .. Len(q) + 1
      BY <1>0
    <2>2. t(i + 1) \in Nat /\ DueIn(d, q, i) = d + t(i + 1) - d
      BY <1>1, <1>3, <1>5, <2>1
    <2> QED
      BY <1>0, <2>2
  <1>7. t(Len(q) + 1) < h
    <2>1. Len(q) \in 1 .. Len(q)
      BY <1>0
    <2> QED
      BY <1>0, <1>6, <2>1
  <1>8. ASSUME NEW i \in 1 .. Len(q) + 1 PROVE t(i) < h /\ Unsigned(t(i)) = t(i)
    <2>1. t(i) \in Nat /\ t(Len(q) + 1) \in Nat /\ t(i) <= t(Len(q) + 1)
      BY <1>0, <1>1, <1>2
    <2>2. t(i) \in 0 .. Modulus - 1 /\ t(i) < h
      BY <1>4, <1>7, <2>1
    <2> QED
      BY <2>2, UnsignedRange
  <1> QED
    BY <1>1, <1>2, <1>5, <1>6, <1>8 DEF t, h

(* An entry in the middle or at the end splits one delta in two, or adds   *)
(* one: the sums before and behind stay.                                   *)
LEMMA SplitSums ==
  ASSUME NEW q \in Seq(Entry), NEW r \in Seq(Entry), NEW i \in 1 .. Len(q),
         NEW x \in Nat, Len(r) = Len(q) + 1,
         \A j \in 1 .. Len(q) : r[Beyond(j, i)].count = IF j = i THEN x ELSE q[j].count,
         q[i].count = r[i].count + x
  PROVE  /\ \A j \in 1 .. i : Total(r, j) = Total(q, j)
         /\ Total(r, i + 1) = Total(q, i) + r[i].count
         /\ \A j \in i + 1 .. Len(q) + 1 : Total(r, j + 1) = Total(q, j)
  <1>0. /\ Len(q) \in Nat /\ Counted(q) /\ Counted(r)
        /\ r[i].count \in Nat /\ q[i].count \in Nat
    <2>1. i \in 1 .. Len(r)
      OBVIOUS
    <2> QED
      BY <2>1, QueueCounted DEF Counted
  <1>1. \A j \in 1 .. Len(r) + 1 : Total(r, j) \in Nat
    BY <1>0, TotalSteps
  <1>2. \A j \in 1 .. Len(q) + 1 : Total(q, j) \in Nat
    BY <1>0, TotalSteps
  <1>3. Total(q, 1) = 0 /\ Total(r, 1) = 0
    BY <1>0, TotalSteps
  <1>4. ASSUME NEW j \in 1 .. i PROVE Total(r, j) = Total(q, j)
    <2>1. \A m \in 1 .. i - 1 : q[m].count = r[m + 0].count
      <3> SUFFICES ASSUME NEW m \in 1 .. i - 1 PROVE q[m].count = r[m + 0].count
        OBVIOUS
      <3>1. m \in 1 .. Len(q) /\ m < i /\ m # i /\ Beyond(m, i) = m /\ m + 0 = m
        BY <1>0 DEF Beyond
      <3> QED
        BY <3>1
    <2>2. Alike(q, r, 1, i, 0)
      BY <1>0, <2>1 DEF Alike
    <2>3. Total(q, j) - Total(q, 1) = Total(r, j + 0) - Total(r, 1 + 0)
      BY <1>0, <2>2, TotalShift DEF GrowAlike
    <2>4. j + 0 = j /\ 1 + 0 = 1 /\ j \in 1 .. Len(q) + 1 /\ j \in 1 .. Len(r) + 1
      BY <1>0
    <2>5. Total(q, j) \in Nat /\ Total(r, j) \in Nat
      BY <1>1, <1>2, <2>4
    <2>6. Total(q, j) - 0 = Total(r, j) - 0
      BY <1>3, <2>3, <2>4
    <2> QED
      BY <2>5, <2>6
  <1>5. Total(r, i + 1) = Total(q, i) + r[i].count
    <2>1. i \in 1 .. Len(r) /\ i \in 1 .. i
      BY <1>0
    <2>2. Total(r, i + 1) = Total(r, i) + r[i].count
      BY <1>0, <2>1, TotalSteps
    <2> QED
      BY <1>4, <2>1, <2>2
  <1>6. Total(r, (i + 1) + 1) = Total(q, i + 1)
    <2>1. i + 1 \in 1 .. Len(r) /\ Beyond(i, i) = i + 1
      BY <1>0 DEF Beyond
    <2>2. r[i + 1].count = x
      BY <2>1
    <2>3. Total(r, (i + 1) + 1) = Total(r, i + 1) + x
      BY <1>0, <2>1, <2>2, TotalSteps
    <2>4. Total(q, i + 1) = Total(q, i) + q[i].count
      BY <1>0, TotalSteps
    <2> DEFINE t == Total(q, i)
               u == r[i].count
    <2>5. t \in Nat /\ u \in Nat
      BY <1>0, <1>2
    <2>6. Total(r, (i + 1) + 1) = (t + u) + x /\ Total(q, i + 1) = t + (u + x)
      BY <1>5, <2>3, <2>4
    <2> HIDE DEF t, u
    <2> QED
      BY <2>5, <2>6
  <1>7. ASSUME NEW j \in i + 1 .. Len(q) + 1 PROVE Total(r, j + 1) = Total(q, j)
    <2>1. \A m \in i + 1 .. (Len(q) + 1) - 1 : q[m].count = r[m + 1].count
      <3> SUFFICES ASSUME NEW m \in i + 1 .. (Len(q) + 1) - 1 PROVE q[m].count = r[m + 1].count
        OBVIOUS
      <3>1. m \in 1 .. Len(q) /\ ~(m < i) /\ m # i /\ Beyond(m, i) = m + 1
        BY <1>0 DEF Beyond
      <3> QED
        BY <3>1
    <2>2. Alike(q, r, i + 1, Len(q) + 1, 1)
      BY <1>0, <2>1 DEF Alike
    <2>3. GrowAlike(q, r, i + 1, Len(q) + 1, 1)
      BY <1>0, <2>2, TotalShift
    <2>4. Total(q, j) - Total(q, i + 1) = Total(r, j + 1) - Total(r, (i + 1) + 1)
      BY <2>3 DEF GrowAlike
    <2>5. j \in 1 .. Len(q) + 1 /\ j + 1 \in 1 .. Len(r) + 1 /\ i + 1 \in 1 .. Len(q) + 1
      BY <1>0
    <2>6. Total(q, j) \in Nat /\ Total(r, j + 1) \in Nat /\ Total(q, i + 1) \in Nat
      BY <1>1, <1>2, <2>5
    <2> QED
      BY <1>6, <2>4, <2>6
  <1> QED
    BY <1>4, <1>5, <1>7

(* With no bad tie, a request behind the first one is due when it asked to *)
(* be, and it moves nobody.                                                *)
LEMMA WalkJoins ==
  ASSUME NEW q \in Seq(Entry), NEW d, Loaded(d, q),
         NEW c \in Clients, NEW n \in Nat, d < n, n < Modulus \div 2,
         \A i \in 1 .. Len(q) : n = DueIn(d, q, i) => n = DueIn(d, q, Len(q))
  PROVE  Joins(d, q, d, Walk(q, c, n), c, n)
  <1> DEFINE r == Walk(q, c, n)
             t(i) == Total(q, i)
  <1>0. Len(q) \in Nat /\ Len(q) >= 1 /\ Counted(q) /\ d \in Nat
    BY QueueCounted DEF Loaded
  <1>1. /\ t(1) = 0 /\ t(2) = d
        /\ \A i \in 1 .. Len(q) : t(i + 1) = DueIn(d, q, i) /\ t(i + 1) = t(i) + q[i].count
        /\ \A i \in 1 .. Len(q) : q[i].count \in 0 .. Modulus - 1
        /\ \A i \in 1 .. Len(q) + 1 : /\ t(i) \in Nat /\ t(i) <= t(Len(q) + 1)
                                      /\ t(i) < Modulus \div 2 /\ Unsigned(t(i)) = t(i)
    BY <1>0, LoadedSums, TotalSteps, QueueCounted
  <1>2. \A i \in 1 .. Len(q) : Fits(q, n, i) <=> (n > t(i) /\ n < t(i + 1))
    <2> SUFFICES ASSUME NEW i \in 1 .. Len(q)
                 PROVE  Fits(q, n, i) <=> (n > t(i) /\ n < t(i + 1))
      OBVIOUS
    <2>1. i \in 1 .. Len(q) + 1 /\ i + 1 \in 1 .. Len(q) + 1
      BY <1>0
    <2> QED
      BY <1>1, <2>1 DEF Fits
  <1>3. Modulus \in Nat /\ Modulus \div 2 \in Nat /\ Modulus \div 2 <= Modulus
    BY ModulusAssumption
  <1>4. \A i \in 1 .. Len(q) + 1 : n >= t(i) => /\ Delta(q, n, i) = n - t(i)
                                               /\ n - t(i) \in 0 .. Modulus - 1
    <2> SUFFICES ASSUME NEW i \in 1 .. Len(q) + 1, n >= t(i)
                 PROVE  Delta(q, n, i) = n - t(i) /\ n - t(i) \in 0 .. Modulus - 1
      OBVIOUS
    <2>1. t(i) \in Nat
      BY <1>1
    <2>2. n - t(i) \in 0 .. Modulus - 1
      BY <1>3, <2>1
    <2> QED
      BY <2>2, UnsignedRange DEF Delta
  <1> HIDE DEF t
  <1>5. ASSUME NEW i \in 1 .. Len(q), Fits(q, n, i), r = Before(q, c, n, i)
        PROVE  Joins(d, q, d, r, c, n)
    <2> DEFINE u == Delta(q, n, i)
               x == Unsigned(q[i].count - u)
               e == [id |-> c, count |-> u]
    <2>0. i \in 1 .. Len(q) + 1 /\ i + 1 \in 1 .. Len(q) + 1 /\ n > t(i) /\ n < t(i + 1)
      BY <1>0, <1>2, <1>5
    <2>1. u = n - t(i) /\ u \in 0 .. Modulus - 1
      BY <1>1, <1>4, <2>0
    <2>2. t(i) \in Nat /\ t(i + 1) = t(i) + q[i].count /\ q[i].count \in 0 .. Modulus - 1
      BY <1>1, <2>0
    <2> HIDE DEF u
    <2>3. q[i].count - u \in 0 .. Modulus - 1
      BY <1>3, <2>0, <2>1, <2>2
    <2>4. x = q[i].count - u /\ x \in Nat /\ x \in 0 .. Modulus - 1
      BY <1>3, <2>3, UnsignedRange
    <2>5. e \in Entry /\ e.id = c /\ e.count = u
      BY <2>1 DEF Entry
    <2> HIDE DEF x, e, r
    <2>6. /\ r \in Seq(Entry) /\ Len(r) = Len(q) + 1 /\ r[i] = e
          /\ \A j \in 1 .. Len(q) : /\ r[Beyond(j, i)].id = q[j].id
                                    /\ r[Beyond(j, i)].count = IF j = i THEN x ELSE q[j].count
      <3>1. r = Inserted(q, i, x, e)
        BY <1>5 DEF Before, x, e, u
      <3>2. Insertion(q, Inserted(q, i, x, e), i, x, e)
        BY <2>4, <2>5, Inserting
      <3> QED
        BY <3>1, <3>2 DEF Insertion
    <2>7. q[i].count = r[i].count + x
      <3>1. r[i].count = u
        BY <2>5, <2>6
      <3>2. u \in Int /\ q[i].count \in Int /\ x = q[i].count - u
        BY <1>3, <2>1, <2>2, <2>4
      <3> QED
        BY <3>1, <3>2
    <2>8. /\ \A j \in 1 .. i : Total(r, j) = t(j)
          /\ Total(r, i + 1) = t(i) + u
          /\ \A j \in i + 1 .. Len(q) + 1 : Total(r, j + 1) = t(j)
      <3>1. /\ \A j \in 1 .. i : Total(r, j) = Total(q, j)
            /\ Total(r, i + 1) = Total(q, i) + r[i].count
            /\ \A j \in i + 1 .. Len(q) + 1 : Total(r, j + 1) = Total(q, j)
        BY <2>4, <2>6, <2>7, SplitSums
      <3> QED
        BY <2>5, <2>6, <3>1 DEF t
    <2>9. i >= 2
      <3>1. i # 1
        BY <1>1, <2>0
      <3> QED
        BY <3>1
    <2>10. Total(r, 2) = d
      BY <1>1, <2>8, <2>9
    <2>11. DueIn(d, r, i) = n
      BY <1>0, <2>1, <2>2, <2>8, <2>10 DEF DueIn
    <2>12. ASSUME NEW j \in 1 .. Len(q) PROVE DueIn(d, r, Beyond(j, i)) = DueIn(d, q, j)
      <3>1. Total(r, Beyond(j, i) + 1) = t(j + 1)
        <4>1. CASE j < i
          <5>1. j + 1 \in 1 .. i /\ Beyond(j, i) = j
            BY <1>0, <4>1 DEF Beyond
          <5> QED
            BY <2>8, <5>1
        <4>2. CASE ~(j < i)
          <5>1. j + 1 \in i + 1 .. Len(q) + 1 /\ Beyond(j, i) = j + 1
            BY <1>0, <4>2 DEF Beyond
          <5> QED
            BY <2>8, <5>1
        <4> QED
          BY <4>1, <4>2
      <3>2. t(j + 1) = DueIn(d, q, j) /\ t(j + 1) \in Nat
        <4>1. j + 1 \in 1 .. Len(q) + 1
          BY <1>0
        <4> QED
          BY <1>1, <4>1
      <3>3. DueIn(d, r, Beyond(j, i)) = d + t(j + 1) - d
        BY <2>10, <3>1 DEF DueIn
      <3> QED
        BY <1>0, <3>2, <3>3
    <2> QED
      BY <2>0, <2>5, <2>6, <2>11, <2>12 DEF Joins
  <1>6. ASSUME \A i \in 1 .. Len(q) : ~Fits(q, n, i),
               r = IF n < q[Len(q)].count THEN Before(q, c, n, Len(q))
                   ELSE Append(q, [id |-> c, count |-> Delta(q, n, Len(q) + 1)])
        PROVE  Joins(d, q, d, r, c, n)
    <2> DEFINE N == Len(q)
    <2>1. n >= t(N + 1)
      <3> DEFINE T == {i \in 1 .. N : n < t(i + 1)}
      <3>1. N + 1 \in 1 .. N + 1 /\ N \in 1 .. N /\ t(N + 1) \in Nat
        BY <1>0, <1>1
      <3> SUFFICES ASSUME n < t(N + 1) PROVE FALSE
        BY <3>1
      <3>2. T # {} /\ T \subseteq Nat
        BY <3>1
      <3>3. PICK i \in T : \A j \in T : i <= j
        <4> HIDE DEF T
        <4> QED
          BY <3>2, LeastNat
      <3>4. i \in 1 .. N /\ n < t(i + 1) /\ i # 1
        BY <1>0, <1>1, <3>3
      <3>5. PICK j \in 1 .. N : j + 1 = i /\ j \notin T
        <4>1. i - 1 \in 1 .. N /\ (i - 1) + 1 = i /\ ~(i <= i - 1)
          BY <1>0, <3>4
        <4> HIDE DEF T
        <4> QED
          BY <3>3, <4>1
      <3>6. t(i) \in Nat /\ n >= t(i) /\ t(i) = DueIn(d, q, j)
        <4>1. i \in 1 .. N + 1
          BY <1>0, <3>4
        <4> QED
          BY <1>1, <3>5, <4>1
      <3>7. n # t(i)
        BY <1>1, <3>1, <3>5, <3>6
      <3>8. Fits(q, n, i)
        BY <1>2, <3>4, <3>6, <3>7
      <3> QED
        BY <1>6, <3>4, <3>8
    <2>2. N \in 1 .. N /\ N + 1 \in 1 .. N + 1 /\ t(N + 1) \in Nat /\ t(N) \in Nat
          /\ q[N].count \in Nat /\ t(N + 1) = t(N) + q[N].count
      <3>1. N \in 1 .. N /\ N \in 1 .. N + 1 /\ N + 1 \in 1 .. N + 1
        BY <1>0
      <3> QED
        BY <1>0, <1>1, <3>1 DEF Counted
    <2>3. ~(n < q[N].count)
      BY <2>1, <2>2
    <2> DEFINE u == Delta(q, n, N + 1)
               e == [id |-> c, count |-> u]
    <2>4. u = n - t(N + 1) /\ u \in 0 .. Modulus - 1
      BY <1>4, <2>1, <2>2
    <2> HIDE DEF u
    <2>5. e \in Entry /\ e.id = c /\ e.count = u
      BY <2>4 DEF Entry
    <2> HIDE DEF e, r
    <2>6. r \in Seq(Entry) /\ Len(r) = N + 1 /\ r[N + 1] = e /\ \A j \in 1 .. N : r[j] = q[j]
      <3>1. r = Append(q, e)
        BY <1>6, <2>3 DEF e, u
      <3> QED
        BY <2>5, <3>1, AppendProperties
    <2>7. \A j \in 1 .. N + 1 : Total(r, j) = t(j)
      <3>1. \A j \in 1 .. (N + 1) - 1 : q[j].count = r[j + 0].count
        <4> SUFFICES ASSUME NEW j \in 1 .. (N + 1) - 1 PROVE q[j].count = r[j + 0].count
          OBVIOUS
        <4>1. j \in 1 .. N /\ j + 0 = j
          BY <1>0
        <4> QED
          BY <2>6, <4>1
      <3>2. Alike(q, r, 1, N + 1, 0)
        BY <1>0, <2>6, <3>1 DEF Alike
      <3>3. Counted(r)
        BY <2>6, QueueCounted
      <3>4. GrowAlike(q, r, 1, N + 1, 0)
        BY <1>0, <3>2, <3>3, TotalShift
      <3>5. Total(r, 1) = 0 /\ \A j \in 1 .. Len(r) + 1 : Total(r, j) \in Nat
        BY <3>3, TotalSteps
      <3> SUFFICES ASSUME NEW j \in 1 .. N + 1 PROVE Total(r, j) = t(j)
        OBVIOUS
      <3>6. Total(q, j) - Total(q, 1) = Total(r, j + 0) - Total(r, 1 + 0)
        BY <3>4 DEF GrowAlike
      <3>7. j + 0 = j /\ 1 + 0 = 1 /\ j \in 1 .. Len(r) + 1
        BY <1>0, <2>6
      <3>8. t(j) - 0 = Total(r, j) - 0
        <4>1. Total(q, 1) = 0 /\ t(j) = Total(q, j)
          BY <1>1 DEF t
        <4> QED
          BY <3>5, <3>6, <3>7, <4>1
      <3>9. t(j) \in Nat /\ Total(r, j) \in Nat
        BY <1>1, <3>5, <3>7
      <3> QED
        BY <3>8, <3>9
    <2>8. Total(r, (N + 1) + 1) = n
      <3>1. N + 1 \in 1 .. Len(r) /\ Counted(r)
        BY <1>0, <2>6, QueueCounted
      <3>2. Total(r, (N + 1) + 1) = Total(r, N + 1) + r[N + 1].count
        BY <3>1, TotalSteps
      <3> QED
        BY <2>2, <2>4, <2>5, <2>6, <2>7, <3>2
    <2>9. Total(r, 2) = d
      <3>1. 2 \in 1 .. N + 1
        BY <1>0
      <3> QED
        BY <1>1, <2>7, <3>1
    <2>10. DueIn(d, r, N + 1) = n
      BY <1>0, <2>8, <2>9 DEF DueIn
    <2>11. ASSUME NEW j \in 1 .. N
           PROVE  r[Beyond(j, N + 1)].id = q[j].id /\ DueIn(d, r, Beyond(j, N + 1)) = DueIn(d, q, j)
      <3>1. Beyond(j, N + 1) = j /\ j + 1 \in 1 .. N + 1
        BY <1>0 DEF Beyond
      <3>2. DueIn(d, r, j) = d + t(j + 1) - d /\ t(j + 1) = DueIn(d, q, j) /\ t(j + 1) \in Nat
        BY <1>1, <2>7, <2>9, <3>1 DEF DueIn
      <3> QED
        BY <1>0, <2>6, <3>1, <3>2
    <2> QED
      BY <2>2, <2>5, <2>6, <2>10, <2>11 DEF Joins
  <1> QED
    BY <1>5, <1>6, WalkCases

(* A request in front of the queue takes its time from the first delta.    *)
LEMMA FrontJoins ==
  ASSUME NEW q \in Seq(Entry), q # <<>>, NEW d \in Nat, NEW c, NEW n \in Nat,
         NEW r \in Seq(Entry), Len(r) = Len(q) + 1,
         r[1].id = c, r[2].id = q[1].id, n + r[2].count = d,
         \A j \in 2 .. Len(q) : r[j + 1] = q[j]
  PROVE  Joins(d, q, n, r, c, n)
  <1>0. Len(q) \in Nat /\ Len(q) >= 1 /\ Counted(q) /\ Counted(r)
    BY QueueCounted
  <1>1. \A j \in 1 .. Len(q) + 1 : Total(q, j) \in Nat
    BY <1>0, TotalSteps
  <1>2. \A j \in 1 .. Len(r) + 1 : Total(r, j) \in Nat
    BY <1>0, TotalSteps
  <1>3. Total(r, 3) = Total(r, 2) + r[2].count /\ r[2].count \in Nat
    <2>1. 2 \in 1 .. Len(r) /\ 2 + 1 = 3
      BY <1>0
    <2>2. Total(r, 2 + 1) = Total(r, 2) + r[2].count
      BY <1>0, <2>1, TotalSteps
    <2> QED
      BY <1>0, <2>1, <2>2 DEF Counted
  <1>4. GrowAlike(q, r, 2, Len(q) + 1, 1)
    <2>1. \A j \in 2 .. (Len(q) + 1) - 1 : q[j].count = r[j + 1].count
      BY <1>0
    <2>2. Alike(q, r, 2, Len(q) + 1, 1)
      BY <1>0, <2>1 DEF Alike
    <2> QED
      BY <1>0, <2>2, TotalShift
  <1>5. DueIn(n, r, 1) = n
    <2>1. 2 \in 1 .. Len(r) + 1
      BY <1>0
    <2> QED
      BY <1>2, <2>1 DEF DueIn
  <1>6. ASSUME NEW j \in 1 .. Len(q)
        PROVE  r[Beyond(j, 1)].id = q[j].id /\ DueIn(n, r, Beyond(j, 1)) = DueIn(d, q, j)
    <2>1. Beyond(j, 1) = j + 1
      BY DEF Beyond
    <2>2. r[j + 1].id = q[j].id
      <3>1. CASE j = 1
        BY <3>1
      <3>2. CASE j # 1
        <4>1. j \in 2 .. Len(q)
          BY <1>0, <3>2
        <4> QED
          BY <4>1
      <3> QED
        BY <3>1, <3>2
    <2>3. j + 1 \in 2 .. Len(q) + 1 /\ 2 + 1 = 3
      BY <1>0
    <2>4. Total(q, j + 1) - Total(q, 2) = Total(r, (j + 1) + 1) - Total(r, 3)
      BY <1>4, <2>3 DEF GrowAlike
    <2> DEFINE a == Total(q, j + 1)
               a2 == Total(q, 2)
               b == Total(r, (j + 1) + 1)
               b3 == Total(r, 3)
               b2 == Total(r, 2)
               x == r[2].count
    <2>5. a \in Nat /\ a2 \in Nat /\ b \in Nat /\ b3 \in Nat /\ b2 \in Nat /\ x \in Nat
      <3>1. j + 1 \in 1 .. Len(q) + 1 /\ 2 \in 1 .. Len(q) + 1 /\ (j + 1) + 1 \in 1 .. Len(r) + 1
            /\ 3 \in 1 .. Len(r) + 1 /\ 2 \in 1 .. Len(r) + 1
        BY <1>0
      <3> QED
        BY <1>1, <1>2, <1>3, <3>1
    <2>6. DueIn(n, r, j + 1) = n + b - b2 /\ DueIn(d, q, j) = d + a - a2
      BY DEF DueIn
    <2>7. a - a2 = b - b3 /\ b3 = b2 + x /\ n + x = d
      BY <1>3, <2>4
    <2> HIDE DEF a, a2, b, b3, b2, x
    <2>8. n + b - b2 = d + a - a2
      BY <2>5, <2>7
    <2> QED
      BY <2>1, <2>2, <2>6, <2>8
  <1>7. 1 \in 1 .. Len(q) + 1
    BY <1>0
  <1> QED
    BY <1>5, <1>6, <1>7 DEF Joins

-----------------------------------------------------------------------------
(* The snapshot puts the countdown into the first entry, and moves nobody. *)
Fronted(q, x) == [q EXCEPT ![1].count = x]
Fronting(q, r, x) ==
  /\ r \in Seq(Entry) /\ r # <<>> /\ Len(r) = Len(q) /\ r[1].count = x
  /\ \A j \in 1 .. Len(q) : r[j].id = q[j].id
  /\ \A j \in 2 .. Len(q) : r[j] = q[j]
  /\ \A d \in Int : \A j \in 1 .. Len(q) : DueIn(d, r, j) = DueIn(d, q, j)

LEMMA FrontedIs ==
  ASSUME NEW q \in Seq(Entry), q # <<>>, NEW x \in 0 .. Modulus - 1
  PROVE  Fronting(q, Fronted(q, x), x)
  <1> DEFINE r == Fronted(q, x)
  <1>0. Len(q) \in Nat /\ Len(q) >= 1 /\ Counted(q) /\ 1 \in 1 .. Len(q)
    BY QueueCounted
  <1>1. /\ r \in Seq(Entry) /\ Len(r) = Len(q)
        /\ \A j \in 1 .. Len(q) : r[j].id = q[j].id /\ r[j].count = IF j = 1 THEN x ELSE q[j].count
    BY <1>0, Recount DEF Fronted
  <1> HIDE DEF r
  <1>2. r # <<>> /\ Counted(r)
    BY <1>0, <1>1, QueueCounted
  <1>3. \A j \in 2 .. Len(q) : r[j] = q[j]
    <2> SUFFICES ASSUME NEW j \in 2 .. Len(q) PROVE r[j] = q[j]
      OBVIOUS
    <2>1. j \in 1 .. Len(q) /\ j # 1
      BY <1>0
    <2>2. r[j].id = q[j].id /\ r[j].count = q[j].count
      BY <1>1, <2>1
    <2>3. r[j] = [id |-> r[j].id, count |-> r[j].count] /\ q[j] = [id |-> q[j].id, count |-> q[j].count]
      BY <1>1, <2>1, QueueCounted
    <2> QED
      BY <2>2, <2>3
  <1>4. ASSUME NEW d \in Int, NEW j \in 1 .. Len(q) PROVE DueIn(d, r, j) = DueIn(d, q, j)
    <2>1. \A i \in 2 .. (Len(q) + 1) - 1 : q[i].count = r[i + 0].count
      <3> SUFFICES ASSUME NEW i \in 2 .. (Len(q) + 1) - 1 PROVE q[i].count = r[i + 0].count
        OBVIOUS
      <3>1. i \in 2 .. Len(q) /\ i + 0 = i
        BY <1>0
      <3> QED
        BY <1>3, <3>1
    <2>2. Alike(q, r, 2, Len(q) + 1, 0)
      BY <1>0, <1>1, <2>1 DEF Alike
    <2>3. GrowAlike(q, r, 2, Len(q) + 1, 0)
      BY <1>0, <1>2, <2>2, TotalShift
    <2>4. j + 1 \in 2 .. Len(q) + 1 /\ (j + 1) + 0 = j + 1 /\ 2 + 0 = 2
          /\ j + 1 \in 1 .. Len(q) + 1 /\ 2 \in 1 .. Len(q) + 1
      BY <1>0
    <2>5. Total(q, j + 1) - Total(q, 2) = Total(r, j + 1) - Total(r, 2)
      <3>1. Total(q, j + 1) - Total(q, 2) = Total(r, (j + 1) + 0) - Total(r, 2 + 0)
        BY <2>3, <2>4 DEF GrowAlike
      <3> QED
        BY <2>4, <3>1
    <2> DEFINE a == Total(q, j + 1)
               a2 == Total(q, 2)
               b == Total(r, j + 1)
               b2 == Total(r, 2)
    <2>6. a \in Nat /\ a2 \in Nat /\ b \in Nat /\ b2 \in Nat /\ a - a2 = b - b2
      BY <1>0, <1>1, <1>2, <2>4, <2>5, TotalSteps
    <2>7. DueIn(d, r, j) = d + b - b2 /\ DueIn(d, q, j) = d + a - a2
      BY DEF DueIn
    <2> HIDE DEF a, a2, b, b2
    <2>8. d + b - b2 = d + a - a2
      BY <2>6
    <2> QED
      BY <2>7, <2>8
  <1>5. r[1].count = x
    BY <1>0, <1>1
  <1> QED
    BY <1>1, <1>2, <1>3, <1>4, <1>5 DEF r, Fronting

LEMMA ConsSeq ==
  ASSUME NEW q \in Seq(Entry), NEW e \in Entry
  PROVE  LET r == <<e>> \o q
         IN  /\ r \in Seq(Entry) /\ Len(r) = Len(q) + 1 /\ r[1] = e
             /\ \A j \in 1 .. Len(q) : r[j + 1] = q[j]
  <1> DEFINE t == <<e>>
             r == t \o q
  <1>1. t \in Seq(Entry) /\ Len(t) = 1 /\ t[1] = e /\ Len(q) \in Nat
    OBVIOUS
  <1> HIDE DEF t
  <1>2. /\ r \in Seq(Entry) /\ Len(r) = Len(t) + Len(q)
        /\ \A j \in 1 .. Len(t) + Len(q) : r[j] = IF j <= Len(t) THEN t[j] ELSE q[j - Len(t)]
    BY <1>1, ConcatProperties
  <1> HIDE DEF r
  <1>3. r[1] = e
    <2>1. 1 \in 1 .. Len(t) + Len(q)
      BY <1>1
    <2> QED
      BY <1>1, <1>2, <2>1
  <1>4. ASSUME NEW j \in 1 .. Len(q) PROVE r[j + 1] = q[j]
    <2>1. j + 1 \in 1 .. Len(t) + Len(q) /\ ~(j + 1 <= Len(t)) /\ (j + 1) - Len(t) = j
      BY <1>1
    <2> QED
      BY <1>2, <2>1
  <1>5. Len(r) = Len(q) + 1
    BY <1>1, <1>2
  <1> QED
    BY <1>2, <1>3, <1>4, <1>5 DEF r, t


-----------------------------------------------------------------------------
(* queue_count_clock_request.                                              *)
IntRng == -(Modulus \div 2) .. Modulus \div 2 - 1
Item(c, n) == [id |-> c, count |-> n]
Current == Unsigned(cycle_countdown)

LEMMA CountsRange ==
  /\ Modulus \in Nat /\ Modulus \div 2 \in Nat /\ Modulus \div 2 <= Modulus
  /\ \A n \in Counts : /\ n \in Nat /\ n > 0 /\ n < Modulus \div 2 /\ n \in 0 .. Modulus - 1
                       /\ n \in IntRng /\ AsInt(n) = n /\ n <= HoldCap
  <1>1. Modulus \in Nat /\ Modulus \div 2 \in Nat /\ Modulus \div 2 <= Modulus
    BY ModulusAssumption
  <1> DEFINE h == Modulus \div 2
  <1>2. ASSUME NEW n \in Counts
        PROVE  n \in Nat /\ n > 0 /\ n < h /\ n \in 0 .. Modulus - 1 /\ n \in -h .. h - 1
    <2>1. n \in 1 .. h - 1
      BY CountsAssumption
    <2>2. h \in Nat /\ h <= Modulus
      BY <1>1
    <2> HIDE DEF h
    <2> QED
      BY <1>1, <2>1, <2>2
  <1>3. \A n \in Counts : n <= HoldCap
    BY BoundsAssumption
  <1> QED
    BY <1>1, <1>2, <1>3, IntRange DEF IntRng

LEMMA RequestCases ==
  ASSUME NEW c, NEW n \in Counts, QueueCountClockRequest(c, n)
  PROVE  \/ queue = <<>> /\ queue' = <<Item(c, n)>> /\ cycle_countdown' = n
         \/ /\ queue # <<>> /\ n < Current /\ cycle_countdown' = n
            /\ queue' = <<Item(c, n)>> \o Fronted(Fronted(queue, Current), Current - n)
         \/ /\ queue # <<>> /\ n = Current /\ cycle_countdown' = cycle_countdown
            /\ queue' = <<Item(c, 0)>> \o Fronted(queue, Current)
         \/ /\ queue # <<>> /\ n > Current /\ cycle_countdown' = cycle_countdown
            /\ queue' = Walk(Fronted(queue, Current), c, n)
  <1>1. AsInt(n) = n
    BY CountsRange
  <1>2. [Item(c, n) EXCEPT !.count = 0] = Item(c, 0)
    BY DEF Item
  <1> QED
    BY <1>1, <1>2 DEF QueueCountClockRequest, Snapshot, Fronted, Item, Current

(* The queue and the countdown keep their types when a request joins.      *)
LEMMA RequestTypes ==
  ASSUME queue \in Seq(Entry), cycle_countdown \in IntRng,
         NEW c \in Clients, NEW n \in Counts, QueueCountClockRequest(c, n)
  PROVE  queue' \in Seq(Entry) /\ cycle_countdown' \in IntRng
  <1>1. Current \in 0 .. Modulus - 1
    <2>1. cycle_countdown \in Int
      BY CountsRange DEF IntRng
    <2> QED
      BY <2>1, UnsignedRange DEF Current
  <1>2. Item(c, n) \in Entry /\ Item(c, 0) \in Entry /\ n \in IntRng /\ n \in Nat
    BY CountsRange, ModulusAssumption DEF Item, Entry
  <1>3. CASE queue = <<>> /\ queue' = <<Item(c, n)>> /\ cycle_countdown' = n
    BY <1>2, <1>3
  <1>4. CASE /\ queue # <<>> /\ n < Current /\ cycle_countdown' = n
             /\ queue' = <<Item(c, n)>> \o Fronted(Fronted(queue, Current), Current - n)
    <2>1. Fronted(queue, Current) \in Seq(Entry) /\ Fronted(queue, Current) # <<>>
      BY <1>1, <1>4, FrontedIs DEF Fronting
    <2>2. Current - n \in 0 .. Modulus - 1
      BY <1>1, <1>2, <1>4, CountsRange
    <2>3. Fronted(Fronted(queue, Current), Current - n) \in Seq(Entry)
      BY <2>1, <2>2, FrontedIs DEF Fronting
    <2>4. queue' \in Seq(Entry)
      BY <1>2, <1>4, <2>3, ConsSeq
    <2> QED
      BY <1>2, <1>4, <2>4
  <1>5. CASE /\ queue # <<>> /\ n = Current /\ cycle_countdown' = cycle_countdown
             /\ queue' = <<Item(c, 0)>> \o Fronted(queue, Current)
    <2>1. Fronted(queue, Current) \in Seq(Entry)
      BY <1>1, <1>5, FrontedIs DEF Fronting
    <2>2. queue' \in Seq(Entry)
      BY <1>2, <1>5, <2>1, ConsSeq
    <2> QED
      BY <1>5, <2>2
  <1>6. CASE /\ queue # <<>> /\ n > Current /\ cycle_countdown' = cycle_countdown
             /\ queue' = Walk(Fronted(queue, Current), c, n)
    <2>1. Fronted(queue, Current) \in Seq(Entry) /\ Fronted(queue, Current) # <<>>
      BY <1>1, <1>6, FrontedIs DEF Fronting
    <2>2. queue' \in Seq(Entry)
      BY <1>2, <1>6, <2>1, WalkTypes
    <2> QED
      BY <1>6, <2>2
  <1> QED
    BY <1>3, <1>4, <1>5, <1>6, RequestCases

(* With no bad tie a request joins at its time, and the countdown runs     *)
(* exactly if it did or the queue was empty.                               *)
LEMMA RequestJoins ==
  ASSUME queue \in Seq(Entry), cycle_countdown \in Nat, cycle_countdown < Modulus \div 2,
         queue # <<>> => DueAt(Len(queue)) < Modulus \div 2,
         NEW c \in Clients, NEW n \in Counts, ~BadTie(n), QueueCountClockRequest(c, n)
  PROVE  /\ Joins(cycle_countdown, queue, cycle_countdown', queue', c, n)
         /\ cycle_countdown' \in Nat /\ queue' # <<>>
         /\ (cycle_countdown' > 0) <=> (cycle_countdown > 0 \/ queue = <<>>)
  <1> DEFINE d == cycle_countdown
             s == Fronted(queue, d)
  <1>0. /\ n \in Nat /\ n > 0 /\ n < Modulus \div 2 /\ Item(c, n) \in Entry
        /\ d \in Nat /\ d \in Int /\ d \in 0 .. Modulus - 1 /\ Current = d
    <2>1. n \in Nat /\ n > 0 /\ n < Modulus \div 2 /\ n \in 0 .. Modulus - 1 /\ d \in 0 .. Modulus - 1
      BY CountsRange
    <2> QED
      BY <2>1, UnsignedRange DEF Current, Item, Entry
  <1>1. ASSUME queue # <<>>
        PROVE  /\ Fronting(queue, s, d) /\ s \in Seq(Entry) /\ Loaded(d, s)
               /\ Len(s) = Len(queue) /\ Len(queue) \in Nat /\ Len(queue) >= 1
               /\ \A i \in 1 .. Len(queue) : DueIn(d, s, i) = DueAt(i)
    <2>1. Fronting(queue, s, d)
      BY <1>0, <1>1, FrontedIs
    <2>2. Len(queue) \in Nat /\ Len(queue) >= 1 /\ Len(queue) \in 1 .. Len(queue)
      BY <1>1
    <2> HIDE DEF s
    <2>3. \A i \in 1 .. Len(queue) : DueIn(d, s, i) = DueAt(i)
      BY <1>0, <2>1, DueDef DEF Fronting
    <2> QED
      BY <1>0, <1>1, <2>1, <2>2, <2>3 DEF Fronting, Loaded
  <1> HIDE DEF s
  <1>2. queue # <<>> => /\ n # d
                        /\ \A i \in 1 .. Len(queue) : n = DueAt(i) => n = DueAt(Len(queue))
    <2>1. ASSUME queue # <<>> PROVE DueAt(1) = d
      BY <1>0, <2>1, DueTypes, DueDef
    <2> QED
      BY <2>1 DEF BadTie
  <1>3. ASSUME NEW r, Joins(d, s, cycle_countdown', r, c, n), queue # <<>>
        PROVE  Joins(d, queue, cycle_countdown', r, c, n)
    <2>1. Len(s) = Len(queue) /\ \A i \in 1 .. Len(queue) : /\ s[i].id = queue[i].id
                                                            /\ DueIn(d, s, i) = DueIn(d, queue, i)
      BY <1>0, <1>1, <1>3 DEF Fronting
    <2> QED
      BY <1>3, <2>1 DEF Joins
  <1>4. CASE queue = <<>> /\ queue' = <<Item(c, n)>> /\ cycle_countdown' = n
    <2> DEFINE r == <<Item(c, n)>>
    <2>1. r \in Seq(Entry) /\ Len(r) = 1 /\ r[1].id = c /\ r # <<>> /\ Len(queue) = 0
      BY <1>0, <1>4 DEF Item
    <2> HIDE DEF r
    <2>2. DueIn(n, r, 1) = n
      BY <1>0, <2>1, DueTypes
    <2>3. Joins(d, queue, n, r, c, n)
      BY <2>1, <2>2 DEF Joins
    <2> QED
      BY <1>0, <1>4, <2>1, <2>3 DEF r
  <1>5. CASE /\ queue # <<>> /\ n < Current /\ cycle_countdown' = n
             /\ queue' = <<Item(c, n)>> \o Fronted(Fronted(queue, Current), Current - n)
    <2> DEFINE t == Fronted(s, d - n)
               r == <<Item(c, n)>> \o t
    <2>1. d - n \in 0 .. Modulus - 1 /\ d > n /\ n + (d - n) = d
      BY <1>0, <1>5, CountsRange
    <2>2. Fronting(s, t, d - n)
      BY <1>1, <1>5, <2>1, FrontedIs DEF Loaded
    <2>3. r \in Seq(Entry) /\ Len(r) = Len(t) + 1 /\ r[1] = Item(c, n) /\ \A j \in 1 .. Len(t) : r[j + 1] = t[j]
      <3>1. t \in Seq(Entry)
        BY <2>2 DEF Fronting
      <3> HIDE DEF t
      <3> QED
        BY <1>0, <3>1, ConsSeq
    <2>4. queue' = r
      BY <1>0, <1>5 DEF s
    <2> HIDE DEF r, t
    <2>5. /\ Len(t) = Len(s) /\ t[1].count = d - n /\ t[1].id = s[1].id
          /\ \A j \in 2 .. Len(s) : t[j] = s[j]
      BY <1>1, <1>5, <2>2 DEF Fronting
    <2>6. r[2] = t[1] /\ r[1].id = c
      <3>1. 1 \in 1 .. Len(t) /\ 1 + 1 = 2
        BY <1>1, <1>5, <2>5
      <3>2. r[1 + 1] = t[1]
        BY <2>3, <3>1
      <3> QED
        BY <2>3, <3>1, <3>2 DEF Item
    <2>7. \A j \in 2 .. Len(s) : r[j + 1] = s[j]
      <3> SUFFICES ASSUME NEW j \in 2 .. Len(s) PROVE r[j + 1] = s[j]
        OBVIOUS
      <3>1. j \in 1 .. Len(t)
        BY <1>1, <1>5, <2>5
      <3> QED
        BY <2>3, <2>5, <3>1
    <2>8. s # <<>> /\ Len(r) = Len(s) + 1 /\ r[2].id = s[1].id /\ n + r[2].count = d
      BY <1>1, <1>5, <2>1, <2>3, <2>5, <2>6 DEF Fronting
    <2>9. Joins(d, s, n, r, c, n)
      BY <1>0, <1>1, <1>5, <2>3, <2>6, <2>7, <2>8, FrontJoins
    <2>10. r # <<>>
      BY <1>1, <1>5, <2>3, <2>8
    <2>11. Joins(d, queue, cycle_countdown', queue', c, n)
      <3>1. Joins(d, s, cycle_countdown', r, c, n)
        BY <1>5, <2>9
      <3> QED
        BY <1>3, <1>5, <2>4, <3>1
    <2>12. cycle_countdown > 0 /\ cycle_countdown' > 0 /\ cycle_countdown' \in Nat
      BY <1>0, <1>5, <2>1
    <2> QED
      BY <2>4, <2>10, <2>11, <2>12
  <1>6. CASE /\ queue # <<>> /\ n > Current /\ cycle_countdown' = cycle_countdown
             /\ queue' = Walk(Fronted(queue, Current), c, n)
    <2> DEFINE r == Walk(s, c, n)
    <2>1. queue' = r
      BY <1>0, <1>6 DEF s
    <2>2. Joins(d, s, d, r, c, n)
      <3>1. \A i \in 1 .. Len(s) : n = DueIn(d, s, i) => n = DueIn(d, s, Len(s))
        <4>1. Len(s) \in 1 .. Len(s)
          BY <1>1, <1>6
        <4> QED
          BY <1>1, <1>2, <1>6, <4>1
      <3>2. d < n
        BY <1>0, <1>6
      <3> QED
        BY <1>0, <1>1, <1>6, <3>1, <3>2, WalkJoins
    <2> HIDE DEF r
    <2>3. Joins(d, queue, d, r, c, n)
      BY <1>3, <1>6, <2>2
    <2>4. r # <<>>
      BY <1>1, <1>6, <2>3 DEF Joins
    <2> QED
      BY <1>0, <1>6, <2>1, <2>3, <2>4
  <1> QED
    BY <1>0, <1>2, <1>4, <1>5, <1>6, RequestCases

-----------------------------------------------------------------------------
(* process_count_clocks_responses: Expired is the number of entries that   *)
(* are answered, and the others move up.                                   *)
LEMMA ExpiredIs ==
  ASSUME queue \in Seq(Entry), queue # <<>>
  PROVE  /\ Expired \in 1 .. Len(queue)
         /\ \A i \in 2 .. Expired : queue[i].count = 0
         /\ Expired < Len(queue) => queue[Expired + 1].count # 0
  <1> DEFINE N == Len(queue)
             Ends(k) == k < N => queue[k + 1].count # 0
             T == {k \in 1 .. N : Ends(k)}
             P(k) == (\A i \in 2 .. k : queue[i].count = 0) /\ Ends(k)
  <1>0. N \in Nat /\ N >= 1
    OBVIOUS
  <1>1. N \in T /\ T \subseteq Nat
    BY <1>0
  <1>2. PICK k \in T : \A j \in T : k <= j
    <2> HIDE DEF T
    <2> QED
      BY <1>1, LeastNat
  <1>3. k \in 1 .. N /\ Ends(k)
    BY <1>2
  <1>4. ASSUME NEW i \in 2 .. k PROVE queue[i].count = 0
    <2>1. i - 1 \in 1 .. N /\ i - 1 < N /\ (i - 1) + 1 = i /\ ~(k <= i - 1)
      BY <1>0, <1>3
    <2>2. ~Ends(i - 1)
      BY <1>2, <2>1
    <2> QED
      BY <2>1, <2>2
  <1>5. \E j \in 1 .. N : P(j)
    <2>1. P(k)
      <3> HIDE DEF Ends
      <3> QED
        BY <1>3, <1>4
    <2> HIDE DEF P
    <2> QED
      BY <1>3, <2>1
  <1>6. Expired \in 1 .. N /\ P(Expired)
    <2>1. Expired = CHOOSE j \in 1 .. N : P(j)
      BY DEF Expired
    <2> HIDE DEF P
    <2> QED
      BY <1>5, <2>1
  <1> QED
    BY <1>6

DropFirst(q, k) == SubSeq(q, k + 1, Len(q))

LEMMA Rest ==
  ASSUME NEW q \in Seq(Entry), NEW k \in 1 .. Len(q)
  PROVE  /\ DropFirst(q, k) \in Seq(Entry) /\ Len(DropFirst(q, k)) = Len(q) - k
         /\ \A j \in 1 .. Len(q) - k : DropFirst(q, k)[j] = q[j + k]
  <1> DEFINE r == DropFirst(q, k)
             m == k + 1
             N == Len(q)
  <1>1. m \in Int /\ N \in Int /\ m \in 1 .. N + 1 /\ k \in 1 .. N /\ m = k + 1
    OBVIOUS
  <1>2. r = SubSeq(q, m, N)
    BY DEF DropFirst
  <1>3. \A i \in 1 .. N : q[i] \in Entry
    BY ElementOfSeq
  <1> HIDE DEF r, m, N
  <1>4. \A i \in m .. N : q[i] \in Entry
    BY <1>1, <1>3
  <1>5. /\ r \in Seq(Entry) /\ Len(r) = (IF m <= N THEN N - m + 1 ELSE 0)
        /\ \A i \in 1 .. N - m + 1 : r[i] = q[m + i - 1]
    BY <1>1, <1>2, <1>4, SubSeqProperties
  <1>6. Len(r) = N - k
    BY <1>1, <1>5
  <1>7. ASSUME NEW j \in 1 .. N - k PROVE r[j] = q[j + k]
    <2>1. j \in 1 .. N - m + 1 /\ m + j - 1 = j + k
      BY <1>1
    <2> QED
      BY <1>5, <2>1
  <1> QED
    BY <1>5, <1>6, <1>7 DEF r, N

(* When the countdown is down, the entries answered are those that are     *)
(* due, and loading the next delta keeps the others' times.                *)
LEMMA Answers ==
  ASSUME queue \in Seq(Entry), queue # <<>>, cycle_countdown = 0,
         DueAt(Len(queue)) < Modulus \div 2,
         queue' = DropFirst(queue, Expired), LoadNext
  PROVE  /\ \A i \in 1 .. Expired : DueAt(i) = 0
         /\ \A i \in Expired + 1 .. Len(queue) : DueAt(i) > 0
         /\ \A j \in 1 .. Len(queue') : DueIn(cycle_countdown', queue', j) = DueAt(j + Expired)
         /\ cycle_countdown' \in Nat /\ (cycle_countdown' > 0 <=> queue' # <<>>)
  <1> DEFINE k == Expired
             N == Len(queue)
             t(i) == Total(queue, i)
             r == queue'
             e == cycle_countdown'
  <1>0. /\ k \in 1 .. N /\ N \in Nat /\ Counted(queue)
        /\ \A i \in 2 .. k : queue[i].count = 0
        /\ k < N => queue[k + 1].count # 0
    BY ExpiredIs, QueueCounted
  <1>1. /\ r \in Seq(Entry) /\ Len(r) = N - k /\ Counted(r)
        /\ \A j \in 1 .. Len(r) : r[j] = queue[j + k]
    <2> HIDE DEF k, N
    <2>1. r = DropFirst(queue, k)
      BY DEF k
    <2> HIDE DEF r
    <2>2. r \in Seq(Entry) /\ Len(r) = N - k /\ \A j \in 1 .. N - k : r[j] = queue[j + k]
      BY <1>0, <2>1, Rest DEF N
    <2> QED
      BY <2>2, QueueCounted
  <1>2. /\ \A i \in 1 .. N + 1 : t(i) \in Nat
        /\ \A i \in 1 .. N : t(i + 1) = t(i) + queue[i].count
    BY <1>0, TotalSteps
  <1>3. \A i : DueAt(i) = 0 + t(i + 1) - t(2)
    BY DEF DueAt
  <1>4. \A i \in 2 .. k + 1 : t(i) = t(2)
    <2>1. /\ 2 \in 1 .. N + 1 /\ k + 1 \in 2 .. N + 1
          /\ \A i \in 2 .. (k + 1) - 1 : queue[i].count = 0
      BY <1>0
    <2> DEFINE b == k + 1
    <2>2. b \in 2 .. N + 1 /\ \A i \in 2 .. b - 1 : queue[i].count = 0
      BY <2>1
    <2> HIDE DEF b
    <2>3. \A i \in 2 .. b : Total(queue, i) = Total(queue, 2)
      BY <1>0, <2>1, <2>2, TotalStands
    <2> QED
      BY <2>3 DEF b
  <1>5. \A i \in 1 .. k : DueAt(i) = 0
    <2> SUFFICES ASSUME NEW i \in 1 .. k PROVE DueAt(i) = 0
      OBVIOUS
    <2>1. i + 1 \in 2 .. k + 1 /\ 2 \in 1 .. N + 1
      BY <1>0
    <2>2. t(i + 1) = t(2) /\ t(2) \in Nat
      BY <1>2, <1>4, <2>1
    <2> HIDE DEF t
    <2> QED
      BY <1>3, <2>2
  <1>6. ASSUME k < N
        PROVE  /\ t(k + 1) = t(2) /\ t(2) \in Nat
               /\ queue[k + 1].count \in Nat /\ queue[k + 1].count > 0
               /\ t(k + 2) = t(2) + queue[k + 1].count
               /\ \A i \in k + 2 .. N + 1 : t(k + 2) <= t(i) /\ t(i) \in Nat
    <2>1. k + 1 \in 2 .. k + 1 /\ k + 1 \in 1 .. N /\ 2 \in 1 .. N + 1 /\ (k + 1) + 1 = k + 2
          /\ k + 2 \in 1 .. N + 1
      BY <1>0, <1>6
    <2>2. t(k + 1) = t(2) /\ t(2) \in Nat
      BY <1>2, <1>4, <2>1
    <2>3. queue[k + 1].count \in Nat /\ queue[k + 1].count > 0
      <3>1. queue[k + 1].count \in Nat /\ queue[k + 1].count # 0
        BY <1>0, <1>6, <2>1 DEF Counted
      <3> QED
        BY <3>1
    <2>4. t(k + 2) = t(2) + queue[k + 1].count
      <3>1. t((k + 1) + 1) = t(k + 1) + queue[k + 1].count
        BY <1>2, <2>1
      <3> QED
        BY <2>1, <2>2, <3>1
    <2>5. \A i \in k + 2 .. N + 1 : t(k + 2) <= t(i) /\ t(i) \in Nat
      <3> SUFFICES ASSUME NEW i \in k + 2 .. N + 1 PROVE t(k + 2) <= t(i) /\ t(i) \in Nat
        OBVIOUS
      <3>1. i \in 1 .. N + 1
        BY <1>0
      <3> QED
        BY <1>0, <1>2, <2>1, <3>1, TotalGrows
    <2> QED
      BY <2>2, <2>3, <2>4, <2>5
  <1> HIDE DEF t
  <1>7. \A i \in k + 1 .. N : DueAt(i) > 0
    <2> SUFFICES ASSUME NEW i \in k + 1 .. N PROVE DueAt(i) > 0
      OBVIOUS
    <2>1. k < N /\ i + 1 \in k + 2 .. N + 1
      BY <1>0
    <2>2. /\ t(i + 1) \in Nat /\ t(k + 2) <= t(i + 1) /\ t(2) \in Nat
          /\ queue[k + 1].count \in Nat /\ queue[k + 1].count > 0
          /\ t(k + 2) = t(2) + queue[k + 1].count
      BY <1>6, <2>1
    <2> HIDE DEF k
    <2> QED
      BY <1>3, <2>2
  <1>8. CASE k = N
    <2>1. r = <<>> /\ Len(r) = 0
      BY <1>0, <1>1, <1>8
    <2>2. e = 0
      BY <2>1 DEF LoadNext
    <2>3. \A j \in 1 .. Len(r) : DueIn(e, r, j) = DueAt(j + k)
      <3> HIDE DEF r, e
      <3> QED
        BY <2>1
    <2>4. e \in Nat /\ (e > 0 <=> r # <<>>)
      BY <2>1, <2>2
    <2> HIDE DEF r, e
    <2> QED
      BY <1>5, <1>7, <2>3, <2>4 DEF r, e, k, N
  <1>9. CASE k # N
    <2>0. k < N
      BY <1>0, <1>9
    <2> DEFINE x == queue[k + 1].count
    <2>1. x \in Nat /\ x > 0 /\ t(k + 1) = t(2) /\ t(2) \in Nat /\ t(k + 2) = t(2) + x
          /\ \A i \in k + 2 .. N + 1 : t(k + 2) <= t(i) /\ t(i) \in Nat
      BY <1>6, <2>0
    <2>2. 1 \in 1 .. Len(r) /\ 1 + k = k + 1 /\ r # <<>> /\ r[1].count = x
      <3>1. 1 \in 1 .. Len(r) /\ 1 + k = k + 1
        BY <1>0, <1>1, <2>0
      <3>2. r[1] = queue[1 + k]
        BY <1>1, <3>1
      <3> QED
        BY <1>1, <3>1, <3>2
    <2>3. e = x
      <3>1. x < Modulus \div 2
        <4>1. N + 1 \in k + 2 .. N + 1
          BY <1>0, <2>0
        <4>2. t(k + 2) <= t(N + 1) /\ t(N + 1) \in Nat /\ DueAt(N) = 0 + t(N + 1) - t(2)
          BY <1>3, <2>1, <4>1
        <4>3. DueAt(N) < Modulus \div 2 /\ Modulus \div 2 \in Nat
          BY CountsRange
        <4> HIDE DEF x, N, k
        <4>4. x <= t(N + 1) - t(2)
          BY <2>1, <4>2
        <4>5. t(N + 1) - t(2) < Modulus \div 2
          BY <2>1, <4>2, <4>3
        <4> QED
          BY <2>1, <4>2, <4>3, <4>4, <4>5
      <3>2. x \in 0 .. Modulus - 1
        BY <2>1, <3>1, CountsRange
      <3>3. e = AsInt(Head(r).count) /\ Head(r) = r[1]
        <4>1. e = AsInt(Head(r).count)
          BY <2>2 DEF LoadNext
        <4> HIDE DEF r, e
        <4>2. Head(r) = r[1]
          BY <1>1, <2>2
        <4> QED
          BY <4>1, <4>2
      <3> HIDE DEF x
      <3> QED
        BY <2>2, <3>1, <3>2, <3>3, IntRange
    <2>4. ASSUME NEW j \in 1 .. Len(r) PROVE DueIn(e, r, j) = DueAt(j + k)
      <3>1. \A i \in 2 .. (Len(r) + 1) - 1 : r[i].count = queue[i + k].count
        <4> SUFFICES ASSUME NEW i \in 2 .. (Len(r) + 1) - 1 PROVE r[i].count = queue[i + k].count
          OBVIOUS
        <4>1. i \in 1 .. Len(r)
          BY <1>0, <1>1
        <4> QED
          BY <1>1, <4>1
      <3>2. Alike(r, queue, 2, Len(r) + 1, k)
        BY <1>0, <1>1, <2>0, <3>1 DEF Alike
      <3>3. GrowAlike(r, queue, 2, Len(r) + 1, k)
        BY <1>0, <1>1, <3>2, TotalShift
      <3>4. j + 1 \in 2 .. Len(r) + 1 /\ (j + 1) + k = (j + k) + 1 /\ 2 + k = k + 2
            /\ j + 1 \in 1 .. Len(r) + 1 /\ 2 \in 1 .. Len(r) + 1 /\ (j + k) + 1 \in k + 2 .. N + 1
        BY <1>0, <1>1, <2>0
      <3>5. Total(r, j + 1) - Total(r, 2) = t((j + k) + 1) - t(k + 2)
        <4>1. Total(r, j + 1) - Total(r, 2) = Total(queue, (j + 1) + k) - Total(queue, 2 + k)
          BY <3>3, <3>4 DEF GrowAlike
        <4> QED
          BY <3>4, <4>1 DEF t
      <3> DEFINE a == Total(r, j + 1)
                 a2 == Total(r, 2)
                 b == t((j + k) + 1)
                 b2 == t(k + 2)
                 u == t(2)
      <3>6. a \in Nat /\ a2 \in Nat
        BY <1>1, <3>4, TotalSteps
      <3>7. b \in Nat /\ b2 = u + x /\ u \in Nat /\ x \in Nat /\ a - a2 = b - b2
        BY <2>1, <3>4, <3>5
      <3>8. DueIn(e, r, j) = x + a - a2 /\ DueAt(j + k) = 0 + b - u
        BY <1>3, <2>3 DEF DueIn
      <3> HIDE DEF a, a2, b, b2, u, x
      <3>9. x + a - a2 = 0 + b - u
        BY <3>6, <3>7
      <3> QED
        BY <3>8, <3>9
    <2> QED
      BY <1>5, <1>7, <2>1, <2>2, <2>3, <2>4
  <1> QED
    BY <1>8, <1>9

-----------------------------------------------------------------------------
(* The invariant.                                                          *)
Waits == {"START_CLOCK", "ASSERT_RESET", "DEASSERT_RESET"}

(* TypeOK, with what it leaves open: queues are sequences, driver a record. *)
TypeInv ==
  /\ clk_running \in BOOLEAN /\ rst_n \in BOOLEAN /\ counter \in BOOLEAN
  /\ count_reached \in BOOLEAN /\ woken \in BOOLEAN
  /\ cycle_countdown \in IntRng
  /\ driver \in {Getting} \cup [op : Waits, edges : 1 .. HoldCap]
  /\ queue \in Seq(Entry) /\ requests \in Seq(Clients)
  /\ seq \in [Clients -> Items \cup {"idle", "counting"}]
  /\ ops \in 0 .. MainOps /\ hold \in 0 .. HoldCap /\ held \in 0 .. HoldCap

(* Each waiting sequence has one entry, nothing in the queue is past, and  *)
(* the countdown is on its way to the first entry or has just got there.   *)
QueueInv ==
  /\ Apart(queue)
  /\ \A c \in Clients : seq[c] = "counting" <=> Holds(queue, c)
  /\ cycle_countdown >= 0
  /\ cycle_countdown > 0 <=> queue # <<>> /\ ~count_reached
  /\ count_reached => queue # <<>> /\ ~counter
  /\ queue # <<>> => DueAt(Len(queue)) < Modulus \div 2

(* From its ASSERT_RESET to its DEASSERT_RESET the main sequence has the   *)
(* reset to itself, and as many edges are behind as have been asked for,   *)
(* up to those still to come and the one deassert_reset waits for.         *)
Pulse == {"COUNT_CLOCKS", "counting", "DEASSERT_RESET"}
Now(b) == IF b THEN 1 ELSE 0

PulseInv ==
  /\ \A c \in Waiters : seq[c] \in {"idle", "COUNT_CLOCKS", "counting"}
  /\ woken => driver # Getting
  /\ driver.op \in {"ASSERT_RESET", "DEASSERT_RESET"} => driver.edges = 1
  /\ driver.op = "ASSERT_RESET" => seq[Main] = "COUNT_CLOCKS"
  /\ driver.op \in {"START_CLOCK", "DEASSERT_RESET"} => ~rst_n /\ seq[Main] \notin Pulse
  /\ seq[Main] \in Pulse => driver.op = "ASSERT_RESET" \/ (driver = Getting /\ ~rst_n)

HeldInv ==
  /\ driver.op \in {"START_CLOCK", "DEASSERT_RESET"} =>
       held >= hold - driver.edges + Now(woken)
  /\ seq[Main] = "DEASSERT_RESET" => held >= hold - 1
  /\ seq[Main] = "counting" => held >= hold - 1 - Due[Main] + Now(counter)

-----------------------------------------------------------------------------
(* Types.                                                                  *)
LEMMA TypeInvImplies == TypeInv => TypeOK
  <1> SUFFICES ASSUME TypeInv PROVE TypeOK
    OBVIOUS
  <1>1. \A i \in 1 .. Len(queue) : queue[i].id \in Clients /\ queue[i].count \in 0 .. Modulus - 1
    BY QueueCounted DEF TypeInv
  <1>2. ToSet(requests) \subseteq Clients
    BY DEF TypeInv, ToSet
  <1>3. driver = Getting \/ (driver.op \in Items /\ driver.edges \in 1 .. HoldCap)
    BY DEF TypeInv, Waits, Items
  <1> QED
    BY <1>1, <1>2, <1>3 DEF TypeInv, TypeOK, IntRng

LEMMA TypeInit == Init => TypeInv
  <1> SUFFICES ASSUME Init PROVE TypeInv
    OBVIOUS
  <1>1. cycle_countdown \in IntRng
    <2>1. Modulus \div 2 > 0
      <3>1. Modulus \in Nat /\ Modulus > 0 /\ Modulus % 2 = 0
        BY ModulusAssumption
      <3> QED
        BY <3>1
    <2> QED
      BY <2>1, CountsRange DEF Init, IntRng
  <1>2. queue \in Seq(Entry) /\ requests \in Seq(Clients)
    BY DEF Init
  <1>3. ops \in 0 .. MainOps /\ hold \in 0 .. HoldCap /\ held \in 0 .. HoldCap
    BY BoundsAssumption DEF Init
  <1>4. seq \in [Clients -> Items \cup {"idle", "counting"}]
    BY DEF Init
  <1> QED
    BY <1>1, <1>2, <1>3, <1>4 DEF Init, TypeInv

(* The item the driver takes is that of a client, which goes on.           *)
LEMMA TakenTypes ==
  ASSUME TypeInv, NEW item, Gets(item)
  PROVE  /\ Head(requests) \in Clients /\ requests' \in Seq(Clients)
         /\ seq' = [seq EXCEPT ![Head(requests)] = AfterSending(item)]
         /\ seq' \in [Clients -> Items \cup {"idle", "counting"}]
  <1>1. Head(requests) \in Clients /\ Tail(requests) \in Seq(Clients)
    BY HeadTailProperties DEF TypeInv, Gets
  <1>2. Append(Tail(requests), Head(requests)) \in Seq(Clients)
    BY <1>1, AppendProperties
  <1>3. seq' = [seq EXCEPT ![Head(requests)] = AfterSending(item)]
    BY DEF Gets, Taken
  <1>4. AfterSending(item) \in Items \cup {"idle", "counting"}
    BY DEF AfterSending, Items
  <1>5. requests' \in Seq(Clients)
    BY <1>1, <1>2 DEF Gets, Taken
  <1> QED
    BY <1>1, <1>3, <1>4, <1>5 DEF TypeInv

LEMMA TypeStep == TypeInv /\ [Next]_vars => TypeInv'
  <1> SUFFICES ASSUME TypeInv, [Next]_vars PROVE TypeInv'
    OBVIOUS
  <1> USE DEF clock, reset
  <1>0. HoldCap \in Nat /\ HoldCap >= 1 /\ MainOps \in Nat
        /\ \A n \in Counts \cup ResetDelays : n \in Nat /\ n <= HoldCap
    BY BoundsAssumption, CountsAssumption, CountsRange
  <1>1. ASSUME NEW c \in Clients, SendCount(c) PROVE TypeInv'
    <2>1. requests' \in Seq(Clients)
      BY <1>1, AppendProperties DEF SendCount, TypeInv
    <2> QED
      BY <1>1, <2>1 DEF SendCount, TypeInv, Items
  <1>2. CASE SendMain
    <2>1. requests' \in Seq(Clients)
      BY <1>2, AppendProperties DEF SendMain, TypeInv, Clients
    <2>2. ops' \in 0 .. MainOps
      BY <1>0, <1>2 DEF SendMain, TypeInv
    <2> QED
      BY <1>2, <2>1, <2>2 DEF SendMain, TypeInv, Items
  <1>3. CASE Posedge
    <2>1. held' \in 0 .. HoldCap
      BY <1>0, <1>3 DEF Posedge, TypeInv
    <2>2. woken' \in BOOLEAN /\ counter' \in BOOLEAN
      BY <1>3 DEF Posedge
    <2> QED
      BY <1>3, <2>1, <2>2 DEF Posedge, TypeInv
  <1>4. CASE Counter
    <2>1. cycle_countdown' \in IntRng
      BY <1>4, CountsRange DEF Counter, TypeInv, IntRng
    <2>2. count_reached' \in BOOLEAN /\ counter' \in BOOLEAN
      BY <1>4 DEF Counter, TypeInv
    <2> QED
      BY <1>4, <2>1, <2>2 DEF Counter, TypeInv
  <1>5. CASE Respond
    <2>1. Expired \in 1 .. Len(queue)
      BY <1>5, ExpiredIs DEF Respond, TypeInv
    <2>2. queue' \in Seq(Entry)
      <3>1. queue' = DropFirst(queue, Expired)
        BY <1>5 DEF Respond, DropFirst
      <3> QED
        BY <2>1, <3>1, Rest DEF TypeInv
    <2>3. cycle_countdown' \in IntRng
      <3>1. CASE queue' = <<>>
        BY <1>5, <3>1 DEF Respond, LoadNext, TypeInv
      <3>2. CASE queue' # <<>>
        <4>1. cycle_countdown' = AsInt(Head(queue').count)
          BY <1>5, <3>2 DEF Respond, LoadNext
        <4>2. Head(queue') \in Entry
          BY <2>2, <3>2, HeadTailProperties
        <4>3. Head(queue').count \in 0 .. Modulus - 1
          BY <4>2 DEF Entry
        <4> QED
          BY <4>1, <4>3, IntRange DEF IntRng
      <3> QED
        BY <3>1, <3>2
    <2>4. requests' \in Seq(Clients)
      <3>1. Main \in Clients
        BY DEF Clients
      <3> QED
        BY <1>5, <3>1, AppendProperties DEF Respond, TypeInv
    <2>5. seq' \in [Clients -> Items \cup {"idle", "counting"}]
      BY <1>5 DEF Respond, TypeInv, Items
    <2>6. count_reached' \in BOOLEAN
      BY <1>5 DEF Respond
    <2> QED
      BY <1>5, <2>2, <2>3, <2>4, <2>5, <2>6 DEF Respond, TypeInv
  <1>6. CASE StartClock
    <2>1. requests' \in Seq(Clients) /\ seq' \in [Clients -> Items \cup {"idle", "counting"}]
      BY <1>6, TakenTypes DEF StartClock
    <2>2. PICK delay \in ResetDelays :
            /\ driver' = IF delay > 0 THEN [op |-> "START_CLOCK", edges |-> delay] ELSE Getting
            /\ rst_n' = (delay = 0) /\ hold' = delay /\ held' = 0
      BY <1>6 DEF StartClock
    <2>3. delay \in Nat /\ delay <= HoldCap
      BY <1>0
    <2>4. driver' \in {Getting} \cup [op : Waits, edges : 1 .. HoldCap]
      BY <1>0, <2>2, <2>3 DEF Waits
    <2>5. rst_n' \in BOOLEAN /\ hold' \in 0 .. HoldCap /\ held' \in 0 .. HoldCap
      BY <1>0, <2>2, <2>3
    <2> QED
      BY <1>6, <2>1, <2>4, <2>5 DEF StartClock, TypeInv
  <1>7. CASE StopClock
    <2>1. requests' \in Seq(Clients) /\ seq' \in [Clients -> Items \cup {"idle", "counting"}]
      BY <1>7, TakenTypes DEF StopClock
    <2> QED
      BY <1>7, <2>1 DEF StopClock, TypeInv
  <1>8. CASE ChangeReset
    <2>1. PICK op \in {"ASSERT_RESET", "DEASSERT_RESET"} :
            Gets(op) /\ driver' = [op |-> op, edges |-> 1]
      BY <1>8 DEF ChangeReset
    <2>2. requests' \in Seq(Clients) /\ seq' \in [Clients -> Items \cup {"idle", "counting"}]
      BY <2>1, TakenTypes
    <2>3. driver' \in [op : Waits, edges : 1 .. HoldCap]
      BY <1>0, <2>1 DEF Waits
    <2> QED
      BY <1>8, <2>2, <2>3 DEF ChangeReset, TypeInv
  <1>9. CASE CountClocks
    <2>1. /\ Head(requests) \in Clients /\ requests' \in Seq(Clients)
          /\ seq' \in [Clients -> Items \cup {"idle", "counting"}]
      BY <1>9, TakenTypes DEF CountClocks
    <2>2. PICK n \in Counts : /\ QueueCountClockRequest(Head(requests), n)
                              /\ hold' = IF Head(requests) = Main THEN n ELSE hold
      BY <1>9 DEF CountClocks
    <2>3. queue' \in Seq(Entry) /\ cycle_countdown' \in IntRng
      BY <2>1, <2>2, RequestTypes DEF TypeInv
    <2>4. hold' \in 0 .. HoldCap
      BY <1>0, <2>2 DEF TypeInv
    <2> QED
      BY <1>9, <2>1, <2>3, <2>4 DEF CountClocks, TypeInv
  <1>10. CASE DriverWakes
    <2>1. driver' \in {Getting} \cup [op : Waits, edges : 1 .. HoldCap]
      BY <1>0, <1>10 DEF DriverWakes, WaitsOn, TypeInv, Getting
    <2>2. rst_n' \in BOOLEAN
      <3>1. rst_n' = rst_n \/ rst_n' = (driver.op # "ASSERT_RESET")
        BY <1>10 DEF DriverWakes
      <3> QED
        BY <3>1 DEF TypeInv
    <2>3. held' \in 0 .. HoldCap
      <3>1. held' = held \/ held' = 0
        BY <1>10 DEF DriverWakes
      <3> QED
        BY <1>0, <3>1 DEF TypeInv
    <2>4. hold' \in 0 .. HoldCap /\ woken' \in BOOLEAN
      BY <1>10 DEF DriverWakes, TypeInv
    <2> QED
      BY <1>10, <2>1, <2>2, <2>3, <2>4 DEF DriverWakes, TypeInv
  <1>11. CASE UNCHANGED vars
    BY <1>11 DEF vars, TypeInv
  <1> QED
    BY <1>1, <1>2, <1>3, <1>4, <1>5, <1>6, <1>7, <1>8, <1>9, <1>10, <1>11 DEF Next, Driver

(* Every state has the types it should have, ties or no ties: no delta and *)
(* no countdown leaves the range of its type.                              *)
THEOREM TypeCorrect == Spec => []TypeOK
  <1>1. Spec => []TypeInv
    BY TypeInit, TypeStep, PTL DEF Spec
  <1> QED
    BY <1>1, TypeInvImplies, PTL

-----------------------------------------------------------------------------
(* What each step does to the times of the requests.                       *)
LEMMA DuePrimed ==
  /\ Due' = DueMap(cycle_countdown', queue')
  /\ DueAt(Len(queue))' = DueIn(cycle_countdown', queue', Len(queue'))
  BY DEF Due, DueMap, DueAt, DueIn

LEMMA QueueInit == Init => QueueInv
  BY DEF Init, QueueInv, Apart, Holds

(* The map of times has the clients that wait, and none of them is late.   *)
LEMMA DueFacts ==
  ASSUME TypeInv, QueueInv
  PROVE  /\ cycle_countdown \in Nat /\ cycle_countdown < Modulus \div 2
         /\ DOMAIN Due = {c \in Clients : seq[c] = "counting"}
         /\ Due = [c \in DOMAIN Due |-> Due[c]]
         /\ \A c \in DOMAIN Due : Due[c] \in Nat /\ cycle_countdown <= Due[c]
         /\ \A i \in 1 .. Len(queue) : /\ queue[i].id \in DOMAIN Due
                                       /\ Due[queue[i].id] = DueAt(i)
         /\ \A c \in DOMAIN Due : \E i \in 1 .. Len(queue) : queue[i].id = c
  <1>1. cycle_countdown \in Nat /\ cycle_countdown < Modulus \div 2
    BY CountsRange DEF TypeInv, QueueInv, IntRng
  <1>2. /\ DOMAIN Due = {queue[i].id : i \in 1 .. Len(queue)}
        /\ Due = [c \in DOMAIN Due |-> Due[c]]
        /\ \A i \in 1 .. Len(queue) : Due[queue[i].id] = DueAt(i)
    <2>1. Times(Due, cycle_countdown, queue)
      BY MapOf, DueDef DEF QueueInv
    <2> QED
      BY <2>1, DueDef DEF Times
  <1>3. \A i \in 1 .. Len(queue) : queue[i].id \in Clients
    BY QueueCounted DEF TypeInv
  <1>4. DOMAIN Due = {c \in Clients : seq[c] = "counting"}
    BY <1>2, <1>3 DEF QueueInv, Holds
  <1>5. ASSUME NEW i \in 1 .. Len(queue) PROVE DueAt(i) \in Nat /\ cycle_countdown <= DueAt(i)
    <2>1. queue # <<>> /\ cycle_countdown \in Int
      BY <1>1
    <2>2. DueAt(i) \in Int /\ cycle_countdown <= DueAt(i)
      BY <2>1, DueTypes, DueDef DEF TypeInv
    <2> QED
      BY <1>1, <2>2
  <1> QED
    BY <1>1, <1>2, <1>4, <1>5

LEMMA SameQueue ==
  ASSUME TypeInv, QueueInv, UNCHANGED <<cycle_countdown, queue>>,
         count_reached' <=> count_reached,
         \A c \in Clients : seq'[c] = "counting" <=> seq[c] = "counting",
         count_reached => ~counter'
  PROVE  QueueInv' /\ Due' = Due
  <1>1. Due' = Due /\ DueAt(Len(queue))' = DueAt(Len(queue))
    BY DueDef, DuePrimed
  <1> QED
    BY <1>1 DEF QueueInv

LEMMA CounterDue ==
  ASSUME TypeInv, QueueInv, Counter
  PROVE  /\ QueueInv'
         /\ DOMAIN Due # {} => \A c \in DOMAIN Due : Due[c] > 0
         /\ Due' = [c \in DOMAIN Due |-> Due[c] - 1]
  <1>1. cycle_countdown \in Nat /\ cycle_countdown < Modulus \div 2
    BY DueFacts
  <1>2. UNCHANGED <<queue, seq>> /\ counter /\ ~counter' /\ ~count_reached
    BY DEF Counter, QueueInv
  <1>3. CASE cycle_countdown = 0
    <2>1. queue = <<>> /\ UNCHANGED cycle_countdown /\ ~count_reached'
      <3>1. ~(cycle_countdown > 0) /\ cycle_countdown # 1
        BY <1>3
      <3> QED
        BY <1>2, <3>1 DEF Counter, QueueInv
    <2>2. QueueInv' /\ Due' = Due
      BY <1>2, <2>1, SameQueue
    <2>3. DOMAIN Due = {}
      BY <2>1 DEF Due
    <2>4. Due = [c \in DOMAIN Due |-> Due[c]]
      BY DueFacts
    <2>5. Due = [c \in DOMAIN Due |-> Due[c] - 1]
      BY <2>3, <2>4
    <2> QED
      BY <2>2, <2>3, <2>5
  <1>4. CASE cycle_countdown # 0
    <2> DEFINE d == cycle_countdown
               e == cycle_countdown'
    <2>1. d > 0 /\ e = d - 1 /\ e \in Nat /\ (count_reached' <=> d = 1) /\ queue # <<>>
      <3>1. d > 0
        BY <1>1, <1>4
      <3>2. e = d - 1 /\ queue # <<>>
        BY <3>1 DEF Counter, QueueInv
      <3>3. count_reached' <=> d = 1
        BY <1>2 DEF Counter
      <3> QED
        BY <1>1, <3>1, <3>2, <3>3
    <2>2. \A i \in 1 .. Len(queue) : /\ DueIn(e, queue, i) = DueIn(d, queue, i) - 1
                                     /\ DueIn(d, queue, i) \in Nat
      <3> SUFFICES ASSUME NEW i \in 1 .. Len(queue)
                   PROVE  /\ DueIn(e, queue, i) = DueIn(d, queue, i) - 1
                          /\ DueIn(d, queue, i) \in Nat
        OBVIOUS
      <3>1. Total(queue, i + 1) \in Nat /\ Total(queue, 2) \in Nat
        <4>1. i + 1 \in 1 .. Len(queue) + 1 /\ 2 \in 1 .. Len(queue) + 1
          BY <2>1 DEF TypeInv
        <4> QED
          BY <4>1, QueueCounted, TotalSteps DEF TypeInv
      <3> DEFINE a == Total(queue, i + 1)
                 b == Total(queue, 2)
      <3>2. DueIn(e, queue, i) = e + a - b /\ DueIn(d, queue, i) = d + a - b
        BY DEF DueIn
      <3>3. DueIn(d, queue, i) \in Nat
        BY DueFacts, DueDef
      <3> HIDE DEF a, b, d, e
      <3>4. e + a - b = (d + a - b) - 1
        BY <1>1, <2>1, <3>1 DEF a, b, d
      <3> QED
        BY <3>2, <3>3, <3>4
    <2>3. QueueInv'
      <3>1. DueAt(Len(queue))' < Modulus \div 2
        <4>1. Len(queue) \in 1 .. Len(queue)
          BY <2>1 DEF TypeInv
        <4>2. DueAt(Len(queue))' = DueIn(d, queue, Len(queue)) - 1
          BY <1>2, <2>2, <4>1, DuePrimed
        <4>3. DueIn(d, queue, Len(queue)) < Modulus \div 2 /\ DueIn(d, queue, Len(queue)) \in Nat
          BY <2>1, <2>2, <4>1, DueDef DEF QueueInv
        <4> QED
          BY <4>2, <4>3, CountsRange
      <3>2. e >= 0 /\ (e > 0 <=> ~count_reached') /\ (count_reached' => ~counter')
        BY <1>1, <1>2, <2>1
      <3> QED
        BY <1>2, <2>1, <3>1, <3>2 DEF QueueInv
    <2>4. Due' = [c \in DOMAIN Due |-> Due[c] - 1]
      <3>1. Due' = DueMap(e, queue) /\ Due = DueMap(d, queue) /\ Apart(queue)
        BY <1>2, DueDef, DuePrimed DEF QueueInv
      <3>2. /\ DOMAIN Due' = {queue[i].id : i \in 1 .. Len(queue)}
            /\ Due' = [c \in DOMAIN Due' |-> Due'[c]]
            /\ \A i \in 1 .. Len(queue) : Due'[queue[i].id] = DueIn(e, queue, i)
        <4>1. Times(Due', e, queue)
          BY <3>1, MapOf
        <4> QED
          BY <4>1 DEF Times
      <3>3. /\ DOMAIN Due = {queue[i].id : i \in 1 .. Len(queue)}
            /\ \A i \in 1 .. Len(queue) : Due[queue[i].id] = DueIn(d, queue, i)
        <4>1. Times(Due, d, queue)
          BY <3>1, MapOf
        <4> QED
          BY <4>1 DEF Times
      <3> HIDE DEF d, e
      <3>4. \A c \in DOMAIN Due : Due'[c] = Due[c] - 1
        BY <2>2, <3>2, <3>3
      <3> QED
        BY <3>2, <3>3, <3>4
    <2>5. \A c \in DOMAIN Due : Due[c] > 0
      <3> SUFFICES ASSUME NEW c \in DOMAIN Due PROVE Due[c] > 0
        OBVIOUS
      <3>1. Due[c] \in Nat /\ d <= Due[c]
        BY DueFacts
      <3> QED
        BY <1>1, <2>1, <3>1
    <2> QED
      BY <2>3, <2>4, <2>5
  <1> QED
    BY <1>3, <1>4

Late(m) == {c \in DOMAIN m : m[c] = 0}

LEMMA RespondDue ==
  ASSUME TypeInv, QueueInv, Respond
  PROVE  /\ QueueInv'
         /\ Late(Due) # {}
         /\ Due' = [c \in {d \in DOMAIN Due : Due[d] > 0} |-> Due[c]]
         /\ \A c \in Clients : seq'[c] = IF c \notin Late(Due) THEN seq[c]
                                        ELSE IF c = Main THEN "DEASSERT_RESET" ELSE "idle"
  <1> DEFINE k == Expired
             N == Len(queue)
             r == queue'
             e == cycle_countdown'
             answered == {queue[i].id : i \in 1 .. Expired}
  <1>1. queue \in Seq(Entry) /\ queue # <<>> /\ cycle_countdown = 0 /\ count_reached /\ Apart(queue)
    BY DueFacts DEF Respond, TypeInv, QueueInv
  <1>2. k \in 1 .. N /\ N \in Nat
    BY <1>1, ExpiredIs
  <1>3. r = DropFirst(queue, k)
    BY DEF Respond, DropFirst
  <1>4. /\ \A i \in 1 .. k : DueAt(i) = 0
        /\ \A i \in k + 1 .. N : DueAt(i) > 0
        /\ \A j \in 1 .. Len(r) : DueIn(e, r, j) = DueAt(j + k)
        /\ e \in Nat /\ (e > 0 <=> r # <<>>)
    <2>1. DueAt(N) < Modulus \div 2
      BY <1>1 DEF QueueInv
    <2>2. LoadNext
      BY DEF Respond
    <2> QED
      BY <1>1, <1>3, <2>1, <2>2, Answers
  <1>5. r \in Seq(Entry) /\ Len(r) = N - k /\ \A j \in 1 .. Len(r) : r[j] = queue[j + k]
    <2> HIDE DEF k, r
    <2>1. r \in Seq(Entry) /\ Len(r) = N - k /\ \A j \in 1 .. N - k : r[j] = queue[j + k]
      BY <1>1, <1>2, <1>3, Rest
    <2> QED
      BY <2>1
  <1>6. \A c \in Clients : seq'[c] = IF c \notin answered THEN seq[c]
                                    ELSE IF c = Main THEN "DEASSERT_RESET" ELSE "idle"
    BY DEF Respond
  <1>7. count_reached' = FALSE /\ UNCHANGED counter
    BY DEF Respond
  <1>8. /\ DOMAIN Due = {c \in Clients : seq[c] = "counting"}
        /\ \A c \in DOMAIN Due : Due[c] \in Nat /\ \E i \in 1 .. N : queue[i].id = c
        /\ \A i \in 1 .. N : queue[i].id \in DOMAIN Due /\ Due[queue[i].id] = DueAt(i)
    BY DueFacts
  <1> HIDE DEF k, N, r, e
  <1>9. answered = Late(Due)
    <2>1. ASSUME NEW c \in answered PROVE c \in Late(Due)
      <3>1. PICK i \in 1 .. k : queue[i].id = c
        BY DEF k
      <3>2. i \in 1 .. N
        BY <1>2
      <3> QED
        BY <1>4, <1>8, <3>1, <3>2 DEF Late
    <2>2. ASSUME NEW c \in Late(Due) PROVE c \in answered
      <3>1. PICK i \in 1 .. N : queue[i].id = c /\ DueAt(i) = 0
        BY <1>8 DEF Late
      <3>2. i \in 1 .. k
        <4>1. i \notin k + 1 .. N
          BY <1>4, <3>1
        <4> QED
          BY <1>2, <4>1
      <3> QED
        BY <3>1, <3>2 DEF k
    <2> QED
      BY <2>1, <2>2
  <1>10. Late(Due) # {}
    <2>1. 1 \in 1 .. k
      BY <1>2
    <2> QED
      BY <1>9, <2>1 DEF k
  <1>11. \A j \in 1 .. Len(r) : j + k \in k + 1 .. N /\ j + k \in 1 .. N
    BY <1>2, <1>5
  <1>12. \A i \in k + 1 .. N : i - k \in 1 .. Len(r) /\ (i - k) + k = i
    BY <1>2, <1>5
  <1> HIDE DEF answered
  <1>13. Apart(r)
    <2> SUFFICES ASSUME NEW i \in 1 .. Len(r), NEW j \in 1 .. Len(r), r[i].id = r[j].id
                 PROVE  i = j
      BY DEF Apart
    <2>1. queue[i + k].id = queue[j + k].id
      BY <1>5
    <2>2. i + k = j + k
      BY <1>1, <1>11, <2>1 DEF Apart, N
    <2> QED
      BY <1>2, <2>2
  <1>14. \A c : Holds(r, c) <=> (c \in DOMAIN Due /\ c \notin Late(Due))
    <2>1. ASSUME NEW c, Holds(r, c) PROVE c \in DOMAIN Due /\ c \notin Late(Due)
      <3>1. PICK j \in 1 .. Len(r) : r[j].id = c
        BY <2>1 DEF Holds
      <3>2. queue[j + k].id = c /\ DueAt(j + k) > 0
        BY <1>4, <1>5, <1>11, <3>1
      <3>3. c \in DOMAIN Due /\ Due[c] = DueAt(j + k)
        BY <1>8, <1>11, <3>2
      <3> QED
        BY <3>2, <3>3 DEF Late
    <2>2. ASSUME NEW c \in DOMAIN Due, c \notin Late(Due) PROVE Holds(r, c)
      <3>1. PICK i \in 1 .. N : queue[i].id = c /\ DueAt(i) # 0
        BY <1>8, <2>2 DEF Late
      <3>2. i \in k + 1 .. N
        <4>1. i \notin 1 .. k
          BY <1>4, <3>1
        <4> QED
          BY <1>2, <4>1
      <3>3. r[i - k].id = c
        BY <1>5, <1>12, <3>1, <3>2
      <3> QED
        BY <1>12, <3>2, <3>3 DEF Holds
    <2> QED
      BY <2>1, <2>2
  <1>15. QueueInv'
    <2>1. \A c \in Clients : seq'[c] = "counting" <=> Holds(r, c)
      BY <1>6, <1>8, <1>9, <1>14
    <2>2. r # <<>> => DueAt(Len(queue))' < Modulus \div 2
      <3> SUFFICES ASSUME r # <<>> PROVE DueAt(Len(queue))' < Modulus \div 2
        OBVIOUS
      <3>1. Len(r) \in 1 .. Len(r) /\ Len(r) + k = N
        BY <1>2, <1>5
      <3>2. DueIn(e, r, Len(r)) = DueAt(N)
        BY <1>4, <3>1
      <3>3. DueAt(Len(queue))' = DueIn(e, r, Len(r))
        BY DuePrimed DEF e, r
      <3> QED
        BY <1>1, <3>2, <3>3 DEF QueueInv, N
    <2>3. e >= 0
      BY <1>4
    <2> QED
      BY <1>4, <1>7, <1>13, <2>1, <2>2, <2>3 DEF QueueInv, e, r
  <1>16. Due' = [c \in {d \in DOMAIN Due : Due[d] > 0} |-> Due[c]]
    <2>1. Times(Due', e, r)
      BY <1>13, DuePrimed, MapOf DEF e, r
    <2>2. DOMAIN Due' = {d \in DOMAIN Due : Due[d] > 0}
      <3>1. \A c : c \in DOMAIN Due' <=> Holds(r, c)
        BY <2>1 DEF Times, Holds
      <3>2. \A c \in DOMAIN Due : Due[c] > 0 <=> c \notin Late(Due)
        BY <1>8 DEF Late
      <3> QED
        BY <1>14, <3>1, <3>2
    <2>3. \A c \in DOMAIN Due' : Due'[c] = Due[c]
      <3> SUFFICES ASSUME NEW c \in DOMAIN Due' PROVE Due'[c] = Due[c]
        OBVIOUS
      <3>1. PICK j \in 1 .. Len(r) : r[j].id = c
        BY <2>1 DEF Times
      <3>2. Due'[c] = DueIn(e, r, j)
        BY <2>1, <3>1 DEF Times
      <3>3. Due[c] = DueAt(j + k)
        BY <1>5, <1>8, <1>11, <3>1
      <3> QED
        BY <1>4, <3>2, <3>3
    <2>4. Due' = [c \in DOMAIN Due' |-> Due'[c]]
      BY <2>1 DEF Times
    <2> QED
      BY <2>2, <2>3, <2>4
  <1> QED
    BY <1>6, <1>9, <1>10, <1>15, <1>16

LEMMA CountDue ==
  ASSUME TypeInv, QueueInv, ~AllowTies, CountClocks
  PROVE  /\ QueueInv'
         /\ Head(requests) \in Clients \ DOMAIN Due
         /\ seq' = [seq EXCEPT ![Head(requests)] = "counting"]
         /\ \E n \in Counts :
              /\ Due' = Joined(Due, Head(requests), n)
              /\ hold' = IF Head(requests) = Main THEN n ELSE hold
  <1> DEFINE c == Head(requests)
             d == cycle_countdown
             e == cycle_countdown'
             r == queue'
  <1>1. Gets("COUNT_CLOCKS") /\ UNCHANGED <<count_reached, counter>>
    BY DEF CountClocks, clock
  <1>2. PICK n \in Counts : /\ ~BadTie(n) /\ QueueCountClockRequest(c, n)
                            /\ hold' = IF c = Main THEN n ELSE hold
    BY DEF CountClocks
  <1>3. c \in Clients /\ seq' = [seq EXCEPT ![c] = "counting"] /\ seq[c] = "COUNT_CLOCKS"
    BY <1>1, TakenTypes DEF AfterSending, Gets
  <1>4. d \in Nat /\ d < Modulus \div 2
    BY DueFacts
  <1>5. /\ Joins(d, queue, e, r, c, n) /\ e \in Nat /\ r # <<>>
        /\ (e > 0) <=> (d > 0 \/ queue = <<>>)
    BY <1>2, <1>3, <1>4, RequestJoins DEF TypeInv, QueueInv
  <1>6. ~Holds(queue, c)
    BY <1>3 DEF QueueInv
  <1> HIDE DEF c, d, e, r
  <1>7. queue \in Seq(Entry) /\ Apart(queue) /\ Due = DueMap(d, queue)
        /\ (queue # <<>> => DueIn(d, queue, Len(queue)) < Modulus \div 2)
    BY DueDef DEF TypeInv, QueueInv, d
  <1>8. /\ Apart(r)
        /\ \A x : Holds(r, x) <=> (Holds(queue, x) \/ x = c)
        /\ c \notin DOMAIN Due
        /\ DueMap(e, r) = Joined(Due, c, n)
        /\ DueIn(e, r, Len(r)) = n \/ (queue # <<>> /\ DueIn(e, r, Len(r)) = DueIn(d, queue, Len(queue)))
    BY <1>5, <1>6, <1>7, JoinsMap
  <1>9. DueAt(Len(queue))' < Modulus \div 2
    <2>1. DueAt(Len(queue))' = DueIn(e, r, Len(r))
      BY DuePrimed DEF e, r
    <2>2. n < Modulus \div 2
      BY CountsRange
    <2> QED
      BY <1>7, <1>8, <2>1, <2>2
  <1>10. QueueInv'
    <2>1. \A x \in Clients : seq'[x] = "counting" <=> Holds(r, x)
      BY <1>3, <1>8 DEF TypeInv, QueueInv
    <2>2. e >= 0 /\ (e > 0 <=> r # <<>> /\ ~count_reached)
      <3>1. d > 0 <=> queue # <<>> /\ ~count_reached
        BY DEF QueueInv, d
      <3>2. count_reached => queue # <<>>
        BY DEF QueueInv
      <3> QED
        BY <1>5, <3>1, <3>2
    <2>3. count_reached' => r # <<>> /\ ~counter'
      BY <1>1, <1>5 DEF QueueInv
    <2> QED
      BY <1>1, <1>8, <1>9, <2>1, <2>2, <2>3 DEF QueueInv, e, r
  <1>11. Due' = Joined(Due, c, n)
    BY <1>8, DuePrimed DEF e, r
  <1> QED
    BY <1>2, <1>3, <1>8, <1>10, <1>11 DEF c

-----------------------------------------------------------------------------
(* The other steps take no time of the requests.                           *)
Others(c) == SendCount(c) \/ SendMain \/ Posedge \/ StartClock \/ StopClock
               \/ ChangeReset \/ DriverWakes \/ UNCHANGED vars

LEMMA OtherDue ==
  ASSUME TypeInv, QueueInv, NEW c \in Clients, Others(c)
  PROVE  QueueInv' /\ Due' = Due
  <1> USE DEF clock, reset
  <1>1. UNCHANGED <<cycle_countdown, queue, count_reached>>
    BY DEF Others, SendCount, SendMain, Posedge, StartClock, StopClock, ChangeReset, DriverWakes,
           vars
  <1>2. count_reached => ~counter'
    <2>1. CASE Posedge
      BY <2>1 DEF Posedge, Quiet
    <2>2. CASE ~Posedge
      <3>1. UNCHANGED counter
        BY <2>2 DEF Others, SendCount, SendMain, StartClock, StopClock, ChangeReset, DriverWakes, vars
      <3> QED
        BY <3>1 DEF QueueInv
    <2> QED
      BY <2>1, <2>2
  <1>3. \A x \in Clients : seq'[x] = "counting" <=> seq[x] = "counting"
    <2>1. ASSUME NEW item \in {"START_CLOCK", "STOP_CLOCK", "ASSERT_RESET", "DEASSERT_RESET"},
                 Gets(item)
          PROVE  \A x \in Clients : seq'[x] = "counting" <=> seq[x] = "counting"
      <3>1. seq' = [seq EXCEPT ![Head(requests)] = AfterSending(item)] /\ seq[Head(requests)] = item
        BY <2>1, TakenTypes DEF Gets
      <3>2. AfterSending(item) # "counting" /\ item # "counting"
        BY DEF AfterSending
      <3> QED
        BY <3>1, <3>2 DEF TypeInv
    <2>2. CASE SendCount(c) \/ SendMain
      BY <2>2 DEF SendCount, SendMain, TypeInv
    <2>3. CASE StartClock \/ StopClock \/ ChangeReset
      BY <2>1, <2>3 DEF StartClock, StopClock, ChangeReset
    <2>4. CASE Posedge \/ DriverWakes \/ UNCHANGED vars
      BY <2>4 DEF Posedge, DriverWakes, vars
    <2> QED
      BY <2>2, <2>3, <2>4 DEF Others
  <1> QED
    BY <1>1, <1>2, <1>3, SameQueue

LEMMA NextCases ==
  ASSUME [Next]_vars
  PROVE  Counter \/ Respond \/ CountClocks \/ \E c \in Clients : Others(c)
  BY DEF Next, Driver, Others, Clients

LEMMA QueueStep ==
  ASSUME ~AllowTies, TypeInv, QueueInv, [Next]_vars PROVE QueueInv'
  BY NextCases, CounterDue, RespondDue, CountDue, OtherDue

(* The countdown and the queue of waiting sequences go together, as long   *)
(* as no request ties with a queued one in a way the queue gets wrong.     *)
THEOREM CountdownRuns ==
  ASSUME ~AllowTies PROVE Spec => []CounterRuns
  <1>1. Init => TypeInv /\ QueueInv
    BY TypeInit, QueueInit
  <1>2. TypeInv /\ QueueInv /\ [Next]_vars => (TypeInv /\ QueueInv)'
    BY TypeStep, QueueStep
  <1>3. QueueInv => CounterRuns
    <2> SUFFICES ASSUME QueueInv PROVE CounterRuns
      OBVIOUS
    <2>1. ASSUME NEW c \in Clients
          PROVE  (seq[c] = "counting") <=> \E i \in 1 .. Len(queue) :
                   queue[i].id = c /\ \A j \in 1 .. Len(queue) : queue[j].id = c => j = i
      BY DEF QueueInv, Apart, Holds
    <2> QED
      BY <2>1 DEF CounterRuns, QueueInv
  <1> QED
    BY <1>1, <1>2, <1>3, PTL DEF Spec

-----------------------------------------------------------------------------
(* The promise to the sequences.                                           *)
LEMMA PromiseInit == Init => Promise!Init
  <1> SUFFICES ASSUME Init PROVE Due = [c \in {} |-> 0]
    BY DEF Promise!Init
  <1>1. Due = [c \in DOMAIN Due |-> Due[c]] /\ DOMAIN Due = {}
    BY DEF Init, Due
  <1> QED
    BY <1>1

LEMMA PromiseStep ==
  ASSUME ~AllowTies, TypeInv, QueueInv, [Next]_vars
  PROVE  [Promise!Next]_Due
  <1>1. CASE Counter
    <2>1. /\ Due' = [c \in DOMAIN Due |-> Due[c] - 1]
          /\ DOMAIN Due # {} => \A c \in DOMAIN Due : Due[c] > 0
      BY <1>1, CounterDue
    <2>2. Promise!Edge
      BY <2>1 DEF Promise!Edge, Promise!Waiting
    <2> QED
      BY <2>2 DEF Promise!Next
  <1>2. CASE Respond
    <2>1. /\ Late(Due) # {}
          /\ Due' = [c \in {d \in DOMAIN Due : Due[d] > 0} |-> Due[c]]
      BY <1>2, RespondDue
    <2>2. Promise!Answer
      BY <2>1 DEF Promise!Answer, Promise!Waiting, Late
    <2> QED
      BY <2>2 DEF Promise!Next
  <1>3. CASE CountClocks
    <2>1. PICK n \in Counts : Due' = Joined(Due, Head(requests), n)
      BY <1>3, CountDue
    <2>2. Head(requests) \in Clients /\ Head(requests) \notin DOMAIN Due
      BY <1>3, CountDue
    <2>3. Promise!Request(Head(requests), n)
      BY <2>1, <2>2 DEF Promise!Request, Promise!Waiting, Joined
    <2> QED
      BY <2>2, <2>3 DEF Promise!Next
  <1>4. ASSUME NEW c \in Clients, Others(c) PROVE UNCHANGED Due
    BY <1>4, OtherDue
  <1> QED
    BY <1>1, <1>2, <1>3, <1>4, NextCases

(* Whatever is queued and whenever: a request for n edges is answered n    *)
(* edges after it was taken, as long as none ties with a queued one in a   *)
(* way the queue gets wrong.                                               *)
THEOREM CountsServed ==
  ASSUME ~AllowTies PROVE Spec => ServesOnTime
  <1>1. Init => TypeInv /\ QueueInv
    BY TypeInit, QueueInit
  <1>2. TypeInv /\ QueueInv /\ [Next]_vars => (TypeInv /\ QueueInv)'
    BY TypeStep, QueueStep
  <1>3. TypeInv /\ QueueInv /\ [Next]_vars => [Promise!Next]_Due
    BY PromiseStep
  <1> QED
    BY <1>1, <1>2, <1>3, PromiseInit, PTL DEF Spec, ServesOnTime, Promise!Spec

-----------------------------------------------------------------------------
(* The reset.                                                              *)
LEMMA HeldInit == Init => PulseInv /\ HeldInv
  BY ClientsAssumption DEF Init, PulseInv, HeldInv, Getting, Pulse, Now, Clients

(* Only the main sequence sends anything but counts.                       *)
LEMMA MainSends ==
  ASSUME TypeInv, PulseInv, NEW item, Gets(item),
         item \in {"START_CLOCK", "STOP_CLOCK", "ASSERT_RESET", "DEASSERT_RESET"}
  PROVE  /\ Head(requests) = Main /\ seq[Main] = item /\ driver = Getting /\ ~woken
         /\ seq'[Main] = AfterSending(item) /\ \A c \in Waiters : seq'[c] = seq[c]
  <1>1. Head(requests) \in Clients /\ seq[Head(requests)] = item /\ driver = Getting
        /\ seq' = [seq EXCEPT ![Head(requests)] = AfterSending(item)]
    BY TakenTypes DEF Gets
  <1>2. Head(requests) = Main
    BY <1>1 DEF PulseInv, Clients
  <1> QED
    BY <1>1, <1>2, ClientsAssumption DEF TypeInv, PulseInv, Clients

LEMMA PulseStep ==
  ASSUME TypeInv, QueueInv, PulseInv, [Next]_vars PROVE PulseInv'
  <1> USE DEF clock, reset, Pulse
  <1>0. /\ Main \in Clients /\ Main \notin Waiters /\ Waiters \subseteq Clients
        /\ seq \in [Clients -> Items \cup {"idle", "counting"}]
    BY ClientsAssumption DEF Clients, TypeInv
  <1>1. ASSUME NEW c \in Clients, SendCount(c) PROVE PulseInv'
    BY <1>0, <1>1 DEF SendCount, PulseInv
  <1>2. CASE SendMain
    BY <1>0, <1>2 DEF SendMain, PulseInv
  <1>3. CASE Posedge
    BY <1>3 DEF Posedge, PulseInv
  <1>4. CASE Counter
    BY <1>4 DEF Counter, PulseInv
  <1>5. CASE Respond
    <2>1. /\ UNCHANGED <<driver, woken, rst_n>>
          /\ \A c \in Clients : seq'[c] = IF c \notin Late(Due) THEN seq[c]
                                         ELSE IF c = Main THEN "DEASSERT_RESET" ELSE "idle"
      BY <1>5, RespondDue DEF Respond
    <2>2. Main \in Late(Due) => seq[Main] = "counting"
      BY DueFacts DEF Late
    <2>3. \A c \in Waiters : seq'[c] = seq[c] \/ seq'[c] = "idle"
      BY <1>0, <2>1
    <2>4. seq'[Main] = seq[Main] \/ (seq[Main] = "counting" /\ seq'[Main] = "DEASSERT_RESET")
      BY <1>0, <2>1, <2>2
    <2> QED
      BY <2>1, <2>3, <2>4 DEF PulseInv
  <1>6. CASE StartClock
    <2>1. /\ driver = Getting /\ ~woken /\ seq'[Main] = "idle"
          /\ \A c \in Waiters : seq'[c] = seq[c]
      BY <1>6, MainSends DEF StartClock, AfterSending
    <2>2. /\ woken' = woken
          /\ \/ driver' = Getting
             \/ driver'.op = "START_CLOCK" /\ ~rst_n'
      <3>1. PICK delay \in ResetDelays :
              /\ driver' = IF delay > 0 THEN [op |-> "START_CLOCK", edges |-> delay] ELSE Getting
              /\ rst_n' = (delay = 0)
        BY <1>6 DEF StartClock
      <3>2. delay = 0 \/ delay > 0
        BY CountsAssumption
      <3>3. CASE delay > 0
        <4>1. delay # 0
          BY <3>3
        <4>2. (delay = 0) = FALSE
          BY <4>1
        <4>3. ~rst_n'
          BY <3>1, <4>2, Zenon
        <4> QED
          BY <1>6, <3>1, <3>3, <4>3 DEF StartClock
      <3>4. CASE delay = 0
        BY <1>6, <3>1, <3>4 DEF StartClock
      <3> QED
        BY <3>2, <3>3, <3>4
    <2> QED
      BY <2>1, <2>2 DEF PulseInv, Getting
  <1>7. CASE StopClock
    <2>1. /\ driver = Getting /\ ~woken /\ seq'[Main] = "idle"
          /\ \A c \in Waiters : seq'[c] = seq[c]
      BY <1>7, MainSends DEF StopClock, AfterSending
    <2> QED
      BY <1>7, <2>1 DEF StopClock, PulseInv, Getting
  <1>8. CASE ChangeReset
    <2>1. PICK op \in {"ASSERT_RESET", "DEASSERT_RESET"} :
            Gets(op) /\ driver' = [op |-> op, edges |-> 1]
      BY <1>8 DEF ChangeReset
    <2>2. /\ seq[Main] = op /\ driver = Getting /\ ~woken /\ seq'[Main] = AfterSending(op)
          /\ \A c \in Waiters : seq'[c] = seq[c]
      BY <2>1, MainSends
    <2>3. UNCHANGED <<rst_n, woken>>
      BY <1>8 DEF ChangeReset
    <2>4. CASE op = "ASSERT_RESET"
      BY <2>1, <2>2, <2>3, <2>4 DEF PulseInv, Getting, AfterSending
    <2>5. CASE op = "DEASSERT_RESET"
      BY <2>1, <2>2, <2>3, <2>5 DEF PulseInv, Getting, AfterSending
    <2> QED
      BY <2>4, <2>5
  <1>9. CASE CountClocks
    <2>1. /\ Head(requests) \in Clients /\ seq[Head(requests)] = "COUNT_CLOCKS" /\ driver = Getting
          /\ seq' = [seq EXCEPT ![Head(requests)] = "counting"]
      BY <1>9, TakenTypes DEF CountClocks, Gets, AfterSending
    <2>2. UNCHANGED <<rst_n, driver, woken>>
      BY <1>9 DEF CountClocks
    <2> QED
      BY <1>0, <2>1, <2>2 DEF PulseInv, Getting
  <1>10. CASE DriverWakes
    <2>1. driver # Getting /\ woken' = FALSE /\ UNCHANGED seq
      BY <1>10 DEF DriverWakes, PulseInv
    <2>2. CASE WaitsOn
      <3>1. UNCHANGED rst_n /\ driver' = [driver EXCEPT !.edges = @ - 1]
        BY <1>10, <2>2 DEF DriverWakes
      <3>2. driver \in [op : Waits, edges : 1 .. HoldCap] /\ driver.edges # 1
        BY <2>1, <2>2 DEF TypeInv, WaitsOn
      <3>3. driver.op = "START_CLOCK" /\ driver'.op = driver.op
        BY <3>1, <3>2 DEF PulseInv, Waits
      <3> QED
        BY <2>1, <3>1, <3>3 DEF PulseInv
    <2>3. CASE ~WaitsOn
      <3>1. driver' = Getting /\ rst_n' = (driver.op # "ASSERT_RESET")
        BY <1>10, <2>3 DEF DriverWakes
      <3> QED
        BY <2>1, <3>1 DEF PulseInv, Getting
    <2> QED
      BY <2>2, <2>3
  <1>11. CASE UNCHANGED vars
    BY <1>11 DEF vars, PulseInv
  <1> QED
    BY <1>1, <1>2, <1>3, <1>4, <1>5, <1>6, <1>7, <1>8, <1>9, <1>10, <1>11 DEF Next, Driver

(* The edges of reset that are still missing are still to come.            *)
LEMMA HeldStep ==
  ASSUME ~AllowTies, TypeInv, QueueInv, PulseInv, HeldInv, [Next]_vars PROVE HeldInv'
  <1> USE DEF clock, reset
  <1>0. /\ Main \in Clients /\ HoldCap \in Nat /\ hold \in 0 .. HoldCap /\ held \in 0 .. HoldCap
        /\ hold \in Int /\ held \in Int /\ hold <= HoldCap
    BY BoundsAssumption DEF Clients, TypeInv
  <1>1. seq[Main] = "counting" => Due[Main] \in Nat
    BY <1>0, DueFacts
  <1>2. driver \in {Getting} \cup [op : Waits, edges : 1 .. HoldCap] /\ (driver # Getting => driver.edges \in Nat)
    BY <1>0 DEF TypeInv
  <1>a. UNCHANGED <<driver, woken, counter, hold, held>> /\ Due' = Due
        /\ (seq'[Main] = seq[Main] \/ seq'[Main] \notin Pulse) => HeldInv'
    BY DEF HeldInv, Pulse
  <1>3. ASSUME NEW c \in Clients, SendCount(c) \/ SendMain \/ UNCHANGED vars PROVE HeldInv'
    <2>1. UNCHANGED <<driver, woken, counter, hold, held>>
      BY <1>3 DEF SendCount, SendMain, vars
    <2>2. Due' = Due
      BY <1>3, OtherDue DEF Others
    <2>3. seq'[Main] = seq[Main] \/ seq'[Main] \notin Pulse
      BY <1>0, <1>3, ClientsAssumption DEF SendCount, SendMain, vars, Pulse, TypeInv
    <2> QED
      BY <1>a, <2>1, <2>2, <2>3
  <1>4. CASE Posedge
    <2>1. /\ UNCHANGED <<driver, seq, hold, rst_n>> /\ ~woken /\ ~counter
          /\ held' = IF ~rst_n /\ held < HoldCap THEN held + 1 ELSE held
      BY <1>4 DEF Posedge, Quiet
    <2>2. Due' = Due
      BY <1>0, <1>4, OtherDue DEF Others
    <2>3. held' >= held /\ (~rst_n => held' >= held + 1 \/ held' >= hold)
      BY <1>0, <2>1
    <2>4. held' \in Int
      BY <1>0, <2>1
    <2>5. ASSUME driver.op \in {"START_CLOCK", "DEASSERT_RESET"}
          PROVE  held' >= hold - driver.edges + Now(woken')
      <3>1. ~rst_n /\ held >= hold - driver.edges + 0 /\ driver.edges \in Nat /\ driver.edges >= 1
        <4>1. driver # Getting
          BY <2>5 DEF Getting
        <4>2. driver.edges \in 1 .. HoldCap
          BY <1>2, <4>1
        <4> QED
          BY <1>0, <2>1, <2>5, <4>2 DEF PulseInv, HeldInv, Now
      <3>2. Now(woken') <= 1 /\ Now(woken') \in Int
        BY DEF Now
      <3> QED
        BY <1>0, <2>3, <2>4, <3>1, <3>2
    <2>6. ASSUME seq[Main] = "DEASSERT_RESET" PROVE held' >= hold - 1
      <3>1. held >= hold - 1
        BY <2>6 DEF HeldInv
      <3> QED
        BY <1>0, <2>3, <2>4, <3>1
    <2>7. ASSUME seq[Main] = "counting" PROVE held' >= hold - 1 - Due[Main] + Now(counter')
      <3>1. ~rst_n
        BY <2>7 DEF PulseInv, Pulse
      <3>2. held >= hold - 1 - Due[Main] + 0 /\ Due[Main] \in Nat
        BY <1>1, <2>1, <2>7 DEF HeldInv, Now
      <3>3. Now(counter') <= 1 /\ Now(counter') \in Int
        BY DEF Now
      <3> QED
        BY <1>0, <2>3, <2>4, <3>1, <3>2, <3>3
    <2> QED
      BY <2>1, <2>2, <2>5, <2>6, <2>7 DEF HeldInv
  <1>5. CASE Counter
    <2>1. UNCHANGED <<driver, woken, seq, hold, held>> /\ counter /\ ~counter'
      BY <1>5 DEF Counter
    <2>2. Due' = [c \in DOMAIN Due |-> Due[c] - 1]
      BY <1>5, CounterDue
    <2>3. ASSUME seq[Main] = "counting" PROVE held >= hold - 1 - Due'[Main] + 0
      <3>1. Main \in DOMAIN Due
        BY <1>0, <2>3, DueFacts
      <3>2. Due'[Main] = Due[Main] - 1 /\ Due[Main] \in Nat
        BY <1>1, <2>2, <2>3, <3>1
      <3>3. held >= hold - 1 - Due[Main] + 1
        BY <2>1, <2>3 DEF HeldInv, Now
      <3> QED
        BY <1>0, <3>2, <3>3
    <2> QED
      BY <2>1, <2>3 DEF HeldInv, Now
  <1>6. CASE Respond
    <2>1. UNCHANGED <<driver, woken, counter, hold, held>>
      BY <1>6 DEF Respond
    <2>2. /\ Due' = [c \in {d \in DOMAIN Due : Due[d] > 0} |-> Due[c]]
          /\ seq'[Main] = IF Main \notin Late(Due) THEN seq[Main] ELSE "DEASSERT_RESET"
      BY <1>0, <1>6, RespondDue
    <2>3. CASE Main \in Late(Due)
      <3>1. seq[Main] = "counting" /\ Due[Main] = 0
        BY <2>3, DueFacts DEF Late
      <3>2. held >= hold - 1 - 0 + Now(counter)
        BY <3>1 DEF HeldInv
      <3>3. Now(counter) \in Nat
        BY DEF Now
      <3>4. held >= hold - 1
        BY <1>0, <3>2, <3>3
      <3> QED
        BY <2>1, <2>2, <2>3, <3>4 DEF HeldInv
    <2>4. CASE Main \notin Late(Due)
      <3>1. seq'[Main] = seq[Main]
        BY <2>2, <2>4
      <3>2. seq[Main] = "counting" => Due'[Main] = Due[Main]
        <4> SUFFICES ASSUME seq[Main] = "counting" PROVE Due'[Main] = Due[Main]
          OBVIOUS
        <4>1. Main \in DOMAIN Due /\ Due[Main] \in Nat /\ Due[Main] # 0
          BY <1>0, <2>4, DueFacts DEF Late
        <4> QED
          BY <2>2, <4>1
      <3> QED
        BY <2>1, <3>1, <3>2 DEF HeldInv
    <2> QED
      BY <2>3, <2>4
  <1>7. CASE StartClock
    <2>1. driver = Getting /\ ~woken /\ seq'[Main] = "idle"
      BY <1>7, MainSends DEF StartClock, AfterSending
    <2>2. PICK delay \in ResetDelays :
            /\ driver' = IF delay > 0 THEN [op |-> "START_CLOCK", edges |-> delay] ELSE Getting
            /\ hold' = delay /\ held' = 0
      BY <1>7 DEF StartClock
    <2>3. delay \in Nat /\ woken' = woken
      BY <1>7, CountsAssumption DEF StartClock
    <2>4. CASE delay > 0
      <3>1. driver'.edges = delay /\ 0 >= delay - delay + 0
        BY <2>2, <2>3, <2>4
      <3> QED
        BY <2>1, <2>2, <2>3, <3>1 DEF HeldInv, Now
    <2>5. CASE ~(delay > 0)
      BY <2>1, <2>2, <2>5 DEF HeldInv, Getting
    <2> QED
      BY <2>4, <2>5
  <1>8. CASE StopClock
    <2>1. driver = Getting /\ seq'[Main] = "idle" /\ driver' = driver
      BY <1>8, MainSends DEF StopClock, AfterSending
    <2> QED
      BY <2>1 DEF HeldInv, Getting
  <1>9. CASE ChangeReset
    <2>1. PICK op \in {"ASSERT_RESET", "DEASSERT_RESET"} :
            Gets(op) /\ driver' = [op |-> op, edges |-> 1]
      BY <1>9 DEF ChangeReset
    <2>2. seq[Main] = op /\ ~woken /\ seq'[Main] = AfterSending(op) /\ UNCHANGED <<woken, hold, held>>
      BY <1>9, <2>1, MainSends DEF ChangeReset
    <2>3. CASE op = "ASSERT_RESET"
      BY <2>1, <2>2, <2>3 DEF HeldInv, AfterSending
    <2>4. CASE op = "DEASSERT_RESET"
      <3>1. seq'[Main] = "idle"
        BY <2>2, <2>4 DEF AfterSending
      <3>2. held' >= hold' - 1 + Now(woken')
        <4>1. held >= hold - 1
          BY <2>2, <2>4 DEF HeldInv
        <4>2. Now(woken') = 0
          BY <2>2 DEF Now
        <4> QED
          BY <1>0, <2>2, <4>1, <4>2
      <3>3. driver'.op = "DEASSERT_RESET" /\ driver'.edges = 1
        BY <2>1, <2>4
      <3> QED
        BY <3>1, <3>2, <3>3 DEF HeldInv
    <2> QED
      BY <2>3, <2>4
  <1>10. CASE CountClocks
    <2> DEFINE c == Head(requests)
    <2>1. /\ c \in Clients \ DOMAIN Due
          /\ seq' = [seq EXCEPT ![c] = "counting"]
      BY <1>10, CountDue
    <2>2. PICK n \in Counts : Due' = Joined(Due, c, n) /\ hold' = IF c = Main THEN n ELSE hold
      BY <1>10, CountDue
    <2>3. UNCHANGED <<driver, woken, counter, held>> /\ driver = Getting
      BY <1>10 DEF CountClocks, Gets
    <2>4. n \in Nat
      BY CountsRange
    <2> HIDE DEF c
    <2>5. CASE c = Main
      <3>1. seq'[Main] = "counting" /\ Due'[Main] = n /\ hold' = n
        BY <1>0, <2>1, <2>2, <2>5 DEF TypeInv, Joined
      <3>2. Now(counter) \in Int /\ Now(counter) <= 1
        BY DEF Now
      <3>3. held >= n - 1 - n + Now(counter)
        BY <1>0, <2>4, <3>2
      <3> QED
        BY <2>3, <3>1, <3>3 DEF HeldInv, Getting
    <2>6. CASE c # Main
      <3>1. seq'[Main] = seq[Main] /\ hold' = hold
        BY <1>0, <2>1, <2>2, <2>6 DEF TypeInv
      <3>2. seq[Main] = "counting" => Due'[Main] = Due[Main]
        <4> SUFFICES ASSUME seq[Main] = "counting" PROVE Due'[Main] = Due[Main]
          OBVIOUS
        <4>1. Main \in DOMAIN Due
          BY <1>0, DueFacts
        <4> QED
          BY <2>2, <2>6, <4>1 DEF Joined
      <3> QED
        BY <2>3, <3>1, <3>2 DEF HeldInv
    <2> QED
      BY <2>5, <2>6
  <1>11. CASE DriverWakes
    <2>1. driver # Getting /\ woken /\ ~woken' /\ UNCHANGED <<seq, counter, hold>>
      BY <1>11 DEF DriverWakes, PulseInv
    <2>2. Due' = Due
      BY <1>0, <1>11, OtherDue DEF Others
    <2>3. CASE WaitsOn
      <3>1. UNCHANGED held /\ driver' = [driver EXCEPT !.edges = @ - 1]
        BY <1>11, <2>3 DEF DriverWakes
      <3>2. driver'.op = driver.op /\ driver'.edges = driver.edges - 1 /\ driver.edges \in Nat
        BY <1>2, <2>1, <3>1
      <3>3. ASSUME driver.op \in {"START_CLOCK", "DEASSERT_RESET"}
            PROVE  held >= hold - driver'.edges + 0
        <4>1. held >= hold - driver.edges + 1
          BY <2>1, <3>3 DEF HeldInv, Now
        <4> QED
          BY <1>0, <3>2, <4>1
      <3> QED
        BY <2>1, <2>2, <3>1, <3>2, <3>3 DEF HeldInv, Now
    <2>4. CASE ~WaitsOn
      <3>1. driver' = Getting /\ held' = IF driver.op = "ASSERT_RESET" THEN 0 ELSE held
        BY <1>11, <2>4 DEF DriverWakes
      <3>2. seq[Main] \in Pulse => driver.op = "ASSERT_RESET"
        BY <2>1 DEF PulseInv
      <3>3. driver.op = "ASSERT_RESET" => seq[Main] = "COUNT_CLOCKS"
        BY DEF PulseInv
      <3> QED
        BY <2>1, <3>1, <3>2, <3>3 DEF HeldInv, Getting, Pulse
    <2> QED
      BY <2>3, <2>4
  <1> QED
    BY <1>0, <1>3, <1>4, <1>5, <1>6, <1>7, <1>8, <1>9, <1>10, <1>11 DEF Next, Driver, Clients

LEMMA ReleaseHeld ==
  ASSUME TypeInv, PulseInv, HeldInv, [Next]_vars, ~rst_n, rst_n' PROVE held' >= hold'
  <1> USE DEF clock, reset
  <1>0. hold \in Int /\ held \in Int
    BY BoundsAssumption DEF TypeInv
  <1>1. StartClock \/ DriverWakes
    BY DEF Next, Driver, SendCount, SendMain, Posedge, Counter, Respond, StopClock, ChangeReset,
           CountClocks, vars
  <1>2. CASE StartClock
    <2>1. PICK delay \in ResetDelays : rst_n' = (delay = 0) /\ hold' = delay /\ held' = 0
      BY <1>2 DEF StartClock
    <2>2. delay = 0
      BY <2>1, Zenon
    <2> QED
      BY <2>1, <2>2
  <1>3. CASE DriverWakes
    <2>1. ~WaitsOn /\ driver # Getting /\ driver.op # "ASSERT_RESET" /\ woken
      BY <1>3 DEF DriverWakes, PulseInv
    <2>2. UNCHANGED <<hold, held>>
      BY <1>3, <2>1 DEF DriverWakes
    <2>3. driver.op \in {"START_CLOCK", "DEASSERT_RESET"} /\ driver.edges = 1
      <3>1. driver \in [op : Waits, edges : 1 .. HoldCap]
        BY <2>1 DEF TypeInv
      <3> QED
        BY <2>1, <3>1, BoundsAssumption DEF Waits, WaitsOn
    <2>4. held >= hold - 1 + 1
      BY <2>1, <2>3 DEF HeldInv, Now
    <2> QED
      BY <1>0, <2>2, <2>4
  <1> QED
    BY <1>1, <1>2, <1>3

IInv == TypeInv /\ QueueInv /\ PulseInv /\ HeldInv

LEMMA Invariant ==
  ASSUME ~AllowTies PROVE Spec => []IInv
  <1>1. Init => IInv
    BY TypeInit, QueueInit, HeldInit DEF IInv
  <1>2. IInv /\ [Next]_vars => IInv'
    BY TypeStep, QueueStep, PulseStep, HeldStep DEF IInv
  <1> QED
    BY <1>1, <1>2, PTL DEF Spec

(* Reset is released only after as many edges as were asked for, however   *)
(* the edges, the countdown and the driver interleave.                     *)
THEOREM ResetHeldLong ==
  ASSUME ~AllowTies PROVE Spec => ResetHeld
  <1>1. IInv /\ [Next]_vars => [~rst_n /\ rst_n' => held' >= hold']_vars
    BY ReleaseHeld DEF IInv
  <1> QED
    BY <1>1, Invariant, PTL DEF Spec, ResetHeld
=============================================================================
