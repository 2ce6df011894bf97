-------------------------- MODULE UvmCmdline_proofs ---------------------------
(***************************************************************************)
(* Theorems about the command line, for any argument vectors, nested to    *)
(* any depth, and any number of processors built one after the other.      *)
(*                                                                         *)
(* The walk and the reading by hand meet in the Whole of a walk: what was  *)
(* pushed so far, followed by what is left in the list the walk is in, by  *)
(* what is left in the list around it, and so on.  It is the vector with   *)
(* the files the walk has entered replaced by what is in them: pushing an  *)
(* argument and leaving a list do not change it, and entering a file makes *)
(* one step of the reading.                                                *)
(***************************************************************************)
EXTENDS UvmCmdline, SequenceTheorems, FiniteSetTheorems, WellFoundedInduction, TLAPS

Lists == Seq(Arguments)
ArgTexts == STRING
NoText == ""
Textual(args) == \A i \in 1 .. Len(args) : ~IsFile(args[i])

-----------------------------------------------------------------------------
(* Induction over the naturals, as a least counterexample.                 *)
LEMMA LeastNat ==
  ASSUME NEW T, T \subseteq Nat, T # {} PROVE \E x \in T : \A y \in T : x <= y
  <1> DEFINE R == OpToRel(<, Nat)
  <1>1. IsWellFoundedOn(R, Nat)
    BY NatLessThanWellFounded
  <1>2. \A x, y \in Nat : x < y => <<x, y>> \in R
    BY DEF OpToRel
  <1> HIDE DEF R
  <1>3. PICK x \in T : \A y \in T : ~(<<y, x>> \in R)
    BY <1>1, WFMin
  <1>4. ASSUME NEW y \in T PROVE x <= y
    <2>1. ~(y < x)
      BY <1>2, <1>3
    <2> QED
      BY <2>1
  <1> QED
    BY <1>4

LEMMA UpTo ==
  ASSUME NEW a \in Nat, NEW N \in Nat, NEW T, a \in T,
         \A k \in a .. N : k \in T /\ k < N => k + 1 \in T
  PROVE  \A k \in a .. N : k \in T
  <1> DEFINE Out == {k \in a .. N : k \notin T}
  <1> SUFFICES ASSUME Out # {} PROVE FALSE
    OBVIOUS
  <1>0. Out \subseteq Nat
    OBVIOUS
  <1>1. PICK k \in Out : \A m \in Out : k <= m
    <2> HIDE DEF Out
    <2> QED
      BY <1>0, LeastNat
  <1>2. k # a /\ k \in a .. N /\ k \notin T
    OBVIOUS
  <1>3. k - 1 \in a .. N /\ k - 1 \notin Out /\ (k - 1) + 1 = k /\ k - 1 < N
    BY <1>1, <1>2
  <1> QED
    BY <1>2, <1>3

-----------------------------------------------------------------------------
(* What a vector may hold.                                                 *)
LEMMA FileOrText ==
  ASSUME NEW a \in Arguments
  PROVE  /\ IsFile(a) => a.file \in Lists
         /\ ~IsFile(a) => a.text \in STRING
  BY ArgumentsAssumption DEF IsFile, Lists

LEMMA PrefixOf ==
  ASSUME NEW args \in Lists, NEW n \in 0 .. Len(args)
  PROVE  /\ SubSeq(args, 1, n) \in Lists /\ Len(SubSeq(args, 1, n)) = n
         /\ \A i \in 1 .. n : SubSeq(args, 1, n)[i] = args[i]
  <1>1. Len(args) \in Nat /\ \A i \in 1 .. n : args[i] \in Arguments
    BY DEF Lists
  <1>2. 1 \in Int /\ n \in Int
    BY <1>1
  <1> DEFINE s == SubSeq(args, 1, n)
  <1>3. /\ s \in Seq(Arguments)
        /\ Len(s) = IF 1 <= n THEN n - 1 + 1 ELSE 0
        /\ \A i \in 1 .. n - 1 + 1 : s[i] = args[1 + i - 1]
    BY <1>1, <1>2, SubSeqProperties
  <1> HIDE DEF s
  <1>4. s \in Lists /\ Len(s) = n /\ \A i \in 1 .. n : s[i] = args[i]
    BY <1>1, <1>2, <1>3 DEF Lists
  <1> QED
    BY <1>4 DEF s

(* Inlining puts the arguments of the first file in its place.             *)
LEMMA InliningOf ==
  ASSUME NEW args \in Lists, NEW f \in 1 .. Len(args), IsFile(args[f]),
         \A j \in 1 .. f - 1 : ~IsFile(args[j])
  PROVE  /\ HasFile(args) /\ FirstFile(args) = f
         /\ Inlined(args) =
              SubSeq(args, 1, f - 1) \o args[f].file \o SubSeq(args, f + 1, Len(args))
  <1>0. Len(args) \in Nat
    BY DEF Lists
  <1>1. HasFile(args)
    BY DEF HasFile
  <1>2. \E i \in 1 .. Len(args) : IsFile(args[i]) /\ \A j \in 1 .. i - 1 : ~IsFile(args[j])
    OBVIOUS
  <1>3. ASSUME NEW i \in 1 .. Len(args), IsFile(args[i]),
               \A j \in 1 .. i - 1 : ~IsFile(args[j])
        PROVE  i = f
    <2>1. ~(i < f)
      BY <1>0, <1>3
    <2>2. ~(f < i)
      BY <1>0, <1>3
    <2> QED
      BY <1>0, <2>1, <2>2
  <1>4. /\ FirstFile(args) \in 1 .. Len(args)
        /\ IsFile(args[FirstFile(args)])
        /\ \A j \in 1 .. FirstFile(args) - 1 : ~IsFile(args[j])
    BY <1>2 DEF FirstFile
  <1>5. FirstFile(args) = f
    BY <1>3, <1>4
  <1> QED
    BY <1>1, <1>5 DEF Inlined

(* A vector with a file has a first one.                                   *)
LEMMA FirstExists ==
  ASSUME NEW args \in Lists, HasFile(args)
  PROVE  \E f \in 1 .. Len(args) : IsFile(args[f]) /\ \A j \in 1 .. f - 1 : ~IsFile(args[j])
  <1> DEFINE T == {i \in 1 .. Len(args) : IsFile(args[i])}
  <1>0. Len(args) \in Nat
    BY DEF Lists
  <1>1. T \subseteq Nat /\ T # {}
    BY <1>0 DEF HasFile
  <1>2. PICK f \in T : \A j \in T : f <= j
    <2> HIDE DEF T
    <2> QED
      BY <1>1, LeastNat
  <1>3. ASSUME NEW j \in 1 .. f - 1 PROVE ~IsFile(args[j])
    BY <1>0, <1>2
  <1> QED
    BY <1>2, <1>3

(* It gives a list again, and the arguments before the first file stay.    *)
LEMMA InlinedList ==
  ASSUME NEW args \in Lists
  PROVE  /\ Inlined(args) \in Lists
         /\ \A k \in 0 .. Len(args) : (\A i \in 1 .. k : ~IsFile(args[i])) =>
              /\ k <= Len(Inlined(args))
              /\ \A i \in 1 .. k : Inlined(args)[i] = args[i]
  <1>1. CASE ~HasFile(args)
    BY <1>1 DEF Inlined, Lists
  <1>2. CASE HasFile(args)
    <2>1. PICK f \in 1 .. Len(args) : IsFile(args[f]) /\ \A j \in 1 .. f - 1 : ~IsFile(args[j])
      BY <1>2, FirstExists
    <2> DEFINE pre == SubSeq(args, 1, f - 1)
               mid == args[f].file
               post == SubSeq(args, f + 1, Len(args))
    <2>2. Inlined(args) = (pre \o mid) \o post
      BY <2>1, InliningOf
    <2>0. Len(args) \in Nat /\ \A i \in 1 .. Len(args) : args[i] \in Arguments
      BY DEF Lists
    <2>3. pre \in Lists /\ Len(pre) = f - 1 /\ \A i \in 1 .. f - 1 : pre[i] = args[i]
      <3>1. f - 1 \in 0 .. Len(args)
        BY <2>0
      <3> QED
        BY <3>1, PrefixOf
    <2>4. post \in Lists
      <3>1. \A i \in f + 1 .. Len(args) : args[i] \in Arguments
        BY <2>0
      <3> QED
        BY <2>0, <3>1, SubSeqProperties DEF Lists
    <2>5. mid \in Lists
      BY <2>0, <2>1, FileOrText
    <2> HIDE DEF pre, mid, post
    <2>6. Inlined(args) \in Lists
      BY <2>2, <2>3, <2>4, <2>5 DEF Lists
    <2>7. Len(pre \o mid) \in Nat /\ Len(pre \o mid) >= f - 1
          /\ \A i \in 1 .. f - 1 : (pre \o mid)[i] = args[i]
      BY <2>0, <2>3, <2>5, ConcatProperties DEF Lists
    <2>8. pre \o mid \in Lists
      BY <2>3, <2>5 DEF Lists
    <2>9. Len(Inlined(args)) >= f - 1 /\ \A i \in 1 .. f - 1 : Inlined(args)[i] = args[i]
      <3> DEFINE front == pre \o mid
      <3>1. front \in Lists /\ Len(front) \in Nat /\ Len(front) >= f - 1
            /\ \A i \in 1 .. f - 1 : front[i] = args[i]
        BY <2>7, <2>8
      <3> HIDE DEF front
      <3>2. Len(post) \in Nat /\ Len(front \o post) = Len(front) + Len(post)
        BY <2>4, <3>1 DEF Lists
      <3>3. \A i \in 1 .. f - 1 : (front \o post)[i] = front[i]
        BY <2>0, <2>4, <3>1 DEF Lists
      <3>4. Inlined(args) = front \o post
        BY <2>2 DEF front
      <3> QED
        BY <2>0, <3>1, <3>2, <3>3, <3>4
    <2>10. ASSUME NEW k \in 0 .. Len(args), \A i \in 1 .. k : ~IsFile(args[i]) PROVE k <= f - 1
      BY <2>0, <2>1, <2>10
    <2>11. \A k \in 0 .. Len(args) : (\A i \in 1 .. k : ~IsFile(args[i])) =>
              /\ k <= Len(Inlined(args))
              /\ \A i \in 1 .. k : Inlined(args)[i] = args[i]
      <3>1. Len(Inlined(args)) \in Nat
        BY <2>6 DEF Lists
      <3> QED
        BY <2>0, <2>9, <2>10, <3>1
    <2> QED
      BY <2>6, <2>11
  <1> QED
    BY <1>1, <1>2

-----------------------------------------------------------------------------
(* The reading of a vector.                                                *)
LEMMA InliningsExist ==
  ASSUME NEW args \in Lists
  PROVE  \E f \in [0 .. MaxFiles -> Lists] :
           f = [n \in 0 .. MaxFiles |-> IF n = 0 THEN args ELSE Inlined(f[n - 1])]
  <1> DEFINE Steps(n, f) == /\ f \in [0 .. n -> Lists] /\ f[0] = args
                            /\ \A j \in 1 .. n : f[j] = Inlined(f[j - 1])
             T == {n \in 0 .. MaxFiles : \E f : Steps(n, f)}
  <1>0. MaxFiles \in Nat
    BY FilesAssumption
  <1>1. ASSUME NEW n \in Nat, NEW f, Steps(n, f) PROVE \E g : Steps(n + 1, g)
    <2> DEFINE g == [j \in 0 .. n + 1 |-> IF j = n + 1 THEN Inlined(f[n]) ELSE f[j]]
    <2>1. f \in [0 .. n -> Lists] /\ n \in 0 .. n /\ Inlined(f[n]) \in Lists
      BY <1>1, InlinedList
    <2>2. g \in [0 .. n + 1 -> Lists]
      BY <2>1
    <2>3. g[0] = args
      BY <1>1
    <2>4. \A j \in 1 .. n + 1 : g[j] = Inlined(g[j - 1])
      BY <1>1, <2>1
    <2> QED
      BY <2>2, <2>3, <2>4
  <1>2. Steps(0, [j \in 0 .. 0 |-> args])
    OBVIOUS
  <1>3. \E f : Steps(MaxFiles, f)
    <2> HIDE DEF Steps
    <2>1. 0 \in T
      BY <1>0, <1>2
    <2>2. \A k \in 0 .. MaxFiles : k \in T /\ k < MaxFiles => k + 1 \in T
      BY <1>0, <1>1
    <2> HIDE DEF T
    <2>3. \A k \in 0 .. MaxFiles : k \in T
      BY <1>0, <2>1, <2>2, UpTo
    <2>4. MaxFiles \in T
      BY <1>0, <2>3
    <2> QED
      BY <2>4 DEF T
  <1>4. PICK f : Steps(MaxFiles, f)
    BY <1>3
  <1>5. f = [n \in 0 .. MaxFiles |-> IF n = 0 THEN args ELSE Inlined(f[n - 1])]
    BY <1>0, <1>4
  <1> QED
    BY <1>4, <1>5

LEMMA InliningsAre ==
  ASSUME NEW args \in Lists
  PROVE  /\ Inlinings(args)[0] = args
         /\ \A n \in 0 .. MaxFiles : Inlinings(args)[n] \in Lists
         /\ \A n \in 0 .. MaxFiles - 1 : Inlinings(args)[n + 1] = Inlined(Inlinings(args)[n])
  <1> DEFINE f == CHOOSE f :
               f = [n \in 0 .. MaxFiles |-> IF n = 0 THEN args ELSE Inlined(f[n - 1])]
  <1>0. MaxFiles \in Nat
    BY FilesAssumption
  <1>1. Inlinings(args) = f
    BY DEF Inlinings
  <1>2. f = [n \in 0 .. MaxFiles |-> IF n = 0 THEN args ELSE Inlined(f[n - 1])]
    BY InliningsExist
  <1> HIDE DEF f
  <1>3. f[0] = args /\ \A n \in 0 .. MaxFiles - 1 : f[n + 1] = Inlined(f[n])
    BY <1>0, <1>2
  <1> DEFINE T == {n \in 0 .. MaxFiles : f[n] \in Lists}
  <1>4. \A n \in 0 .. MaxFiles : n \in T
    <2>1. 0 \in T
      BY <1>0, <1>3
    <2>2. \A n \in 0 .. MaxFiles : n \in T /\ n < MaxFiles => n + 1 \in T
      BY <1>0, <1>3, InlinedList
    <2> HIDE DEF T
    <2> QED
      BY <1>0, <2>1, <2>2, UpTo
  <1> QED
    BY <1>1, <1>3, <1>4

(* The arguments before any file keep their places to the end.             *)
LEMMA LeadingStay ==
  ASSUME NEW args \in Lists, NEW n \in 0 .. MaxFiles, NEW k \in 0 .. Len(Inlinings(args)[n]),
         \A i \in 1 .. k : ~IsFile(Inlinings(args)[n][i])
  PROVE  /\ k <= Len(Inlinings(args)[MaxFiles])
         /\ \A i \in 1 .. k : Inlinings(args)[MaxFiles][i] = Inlinings(args)[n][i]
  <1> DEFINE f == Inlinings(args)
             s == f[n]
             T == {m \in n .. MaxFiles : k <= Len(f[m]) /\ \A i \in 1 .. k : f[m][i] = s[i]}
  <1>0. /\ MaxFiles \in Nat /\ n \in Nat /\ n <= MaxFiles
        /\ \A m \in 0 .. MaxFiles : f[m] \in Lists
        /\ \A m \in 0 .. MaxFiles - 1 : f[m + 1] = Inlined(f[m])
    BY InliningsAre, FilesAssumption
  <1>1. k \in 0 .. Len(s) /\ \A i \in 1 .. k : ~IsFile(s[i])
    OBVIOUS
  <1> HIDE DEF f, s
  <1>2. n \in T
    BY <1>0, <1>1 DEF s
  <1>3. ASSUME NEW m \in n .. MaxFiles, m \in T, m < MaxFiles PROVE m + 1 \in T
    <2>1. f[m] \in Lists /\ f[m + 1] = Inlined(f[m])
      BY <1>0, <1>3
    <2>2. k \in 0 .. Len(f[m]) /\ \A i \in 1 .. k : ~IsFile(f[m][i])
      BY <1>1, <1>3, <2>1 DEF Lists
    <2>3. k <= Len(Inlined(f[m])) /\ \A i \in 1 .. k : Inlined(f[m])[i] = f[m][i]
      BY <2>1, <2>2, InlinedList
    <2> QED
      BY <1>0, <1>3, <2>1, <2>3
  <1>4. MaxFiles \in T
    <2> HIDE DEF T
    <2>1. \A m \in n .. MaxFiles : m \in T
      BY <1>0, <1>2, <1>3, UpTo
    <2> QED
      BY <1>0, <2>1
  <1>5. k <= Len(f[MaxFiles]) /\ \A i \in 1 .. k : f[MaxFiles][i] = s[i]
    BY <1>4
  <1> QED
    BY <1>5 DEF f, s

(* A vector without a file has been read.                                  *)
LEMMA ReadWithoutFiles ==
  ASSUME NEW args \in Lists, NEW n \in 0 .. MaxFiles, ~HasFile(Inlinings(args)[n])
  PROVE  Inlinings(args)[MaxFiles] = Inlinings(args)[n]
  <1> DEFINE f == Inlinings(args)
             s == f[n]
             T == {m \in n .. MaxFiles : f[m] = s}
  <1>0. /\ MaxFiles \in Nat /\ n \in Nat /\ n <= MaxFiles /\ ~HasFile(s)
        /\ \A m \in 0 .. MaxFiles - 1 : f[m + 1] = Inlined(f[m])
    BY InliningsAre, FilesAssumption
  <1> HIDE DEF f, s
  <1>1. n \in T
    BY <1>0 DEF s
  <1>2. Inlined(s) = s
    BY <1>0 DEF Inlined
  <1>3. \A m \in n .. MaxFiles : m \in T /\ m < MaxFiles => m + 1 \in T
    BY <1>0, <1>2
  <1>4. MaxFiles \in T
    <2> HIDE DEF T
    <2>1. \A m \in n .. MaxFiles : m \in T
      BY <1>0, <1>1, <1>3, UpTo
    <2> QED
      BY <1>0, <2>1
  <1> QED
    BY <1>4 DEF f, s

-----------------------------------------------------------------------------
(* r[k] is what is left in the k outermost lists of w, innermost first.   *)
IsLeft(r, w) ==
  /\ r \in [0 .. Len(w) -> Lists]
  /\ r[0] = <<>>
  /\ \A k \in 1 .. Len(w) : r[k] = w[Len(w) + 1 - k] \o r[k - 1]

(* In a walk of v, the arguments of pushed have been pushed, and w is left. *)
Halfway(v, w, pushed, n, r) ==
  /\ w \in Seq(Lists) /\ pushed \in Lists /\ Textual(pushed)
  /\ n \in 0 .. MaxFiles /\ IsLeft(r, w)
  /\ Inlinings(v)[n] = pushed \o r[Len(w)]
Walking(v, w, pushed) == \E n, r : Halfway(v, w, pushed, n, r)

LEMMA WalkStarts ==
  ASSUME NEW v \in CommandLines PROVE Walking(v, <<v>>, <<>>)
  <1> DEFINE r == [k \in 0 .. 1 |-> IF k = 0 THEN <<>> ELSE v]
  <1>0. v \in Lists /\ <<>> \in Lists
    BY ArgumentsAssumption DEF Lists
  <1>1. <<v>> \in Seq(Lists) /\ Len(<<v>>) = 1 /\ <<v>>[1] = v
    BY <1>0
  <1>2. r \in [0 .. 1 -> Lists] /\ r[0] = <<>> /\ r[1] = v
    BY <1>0
  <1> HIDE DEF r
  <1>3. v = v \o r[0]
    BY <1>0, <1>2, ConcatEmptySeq DEF Lists
  <1>4. IsLeft(r, <<v>>)
    <2> DEFINE w == <<v>>
    <2>1. Len(w) = 1 /\ w[1] = v
      BY <1>1
    <2> HIDE DEF w
    <2>2. \A k \in 1 .. Len(w) : k = 1 /\ Len(w) + 1 - k = 1 /\ k - 1 = 0
      BY <2>1
    <2>3. \A k \in 1 .. Len(w) : r[k] = w[Len(w) + 1 - k] \o r[k - 1]
      BY <1>2, <1>3, <2>1, <2>2
    <2>4. IsLeft(r, w)
      BY <1>2, <2>1, <2>3 DEF IsLeft
    <2> QED
      BY <2>4 DEF w
  <1>5. 0 \in 0 .. MaxFiles /\ Inlinings(v)[0] = v
    BY <1>0, InliningsAre, FilesAssumption
  <1>6. v = <<>> \o r[Len(<<v>>)]
    BY <1>0, <1>1, <1>2, ConcatEmptySeq DEF Lists
  <1>7. Textual(<<>>)
    BY DEF Textual
  <1>8. Halfway(v, <<v>>, <<>>, 0, r)
    BY <1>0, <1>1, <1>4, <1>5, <1>6, <1>7 DEF Halfway
  <1> QED
    BY <1>8 DEF Walking


(* A list put in front of the lists of a walk, or taken away.              *)
LEMMA ConsIs ==
  ASSUME NEW w \in Seq(Lists), NEW x \in Lists
  PROVE  /\ <<x>> \o w \in Seq(Lists)
         /\ Len(<<x>> \o w) = Len(w) + 1
         /\ (<<x>> \o w)[1] = x
         /\ \A i \in 1 .. Len(w) : (<<x>> \o w)[i + 1] = w[i]
  <1> DEFINE L == Lists
  <1> HIDE DEF L
  <1>1. ASSUME NEW u \in Seq(L), NEW y \in L
        PROVE  /\ <<y>> \o u \in Seq(L)
               /\ Len(<<y>> \o u) = Len(u) + 1
               /\ (<<y>> \o u)[1] = y
               /\ \A i \in 1 .. Len(u) : (<<y>> \o u)[i + 1] = u[i]
    <2>1. <<y>> \in Seq(L) /\ Len(<<y>>) = 1 /\ <<y>>[1] = y
      OBVIOUS
    <2> QED
      BY <2>1
  <1> QED
    BY <1>1 DEF L

LEMMA LeftDeeper ==
  ASSUME NEW w \in Seq(Lists), NEW r, IsLeft(r, w), NEW x \in Lists
  PROVE  \E q : IsLeft(q, <<x>> \o w) /\ q[Len(w) + 1] = x \o r[Len(w)]
  <1> DEFINE N == Len(w)
             q == [k \in 0 .. N + 1 |-> IF k = N + 1 THEN x \o r[N] ELSE r[k]]
             u == <<x>> \o w
  <1>0. N \in Nat
    OBVIOUS
  <1>1. Len(u) = N + 1 /\ u[1] = x /\ \A i \in 1 .. N : u[i + 1] = w[i]
    BY ConsIs
  <1>2. /\ r \in [0 .. N -> Lists] /\ r[0] = <<>>
        /\ \A k \in 1 .. N : r[k] = w[N + 1 - k] \o r[k - 1]
    BY DEF IsLeft
  <1>3. x \o r[N] \in Lists
    BY <1>0, <1>2 DEF Lists
  <1> HIDE DEF N, u
  <1>4. /\ q \in [0 .. N + 1 -> Lists] /\ q[0] = <<>> /\ q[N + 1] = x \o r[N]
        /\ \A k \in 0 .. N : q[k] = r[k]
    BY <1>0, <1>2, <1>3
  <1> HIDE DEF q
  <1>5. ASSUME NEW k \in 1 .. N + 1 PROVE q[k] = u[(N + 1) + 1 - k] \o q[k - 1]
    <2>1. CASE k = N + 1
      <3>1. (N + 1) + 1 - k = 1 /\ k - 1 = N /\ q[N] = r[N]
        BY <1>0, <1>4, <2>1
      <3> QED
        BY <1>1, <1>4, <2>1, <3>1
    <2>2. CASE k # N + 1
      <3>1. k \in 1 .. N /\ k - 1 \in 0 .. N /\ N + 1 - k \in 1 .. N
            /\ (N + 1) + 1 - k = (N + 1 - k) + 1 /\ k \in 0 .. N
        BY <1>0, <2>2
      <3>2. u[(N + 1) + 1 - k] = w[N + 1 - k] /\ q[k] = r[k] /\ q[k - 1] = r[k - 1]
        BY <1>1, <1>4, <3>1
      <3> QED
        BY <1>2, <3>1, <3>2
    <2> QED
      BY <2>1, <2>2
  <1>6. IsLeft(q, u)
    BY <1>1, <1>4, <1>5 DEF IsLeft
  <1> QED
    BY <1>4, <1>6 DEF N, u

LEMMA LeftTail ==
  ASSUME NEW w \in Seq(Lists), NEW r, IsLeft(r, w), w # <<>>
  PROVE  /\ Head(w) \in Lists /\ Tail(w) \in Seq(Lists) /\ Len(Tail(w)) = Len(w) - 1
         /\ r[Len(w)] = Head(w) \o r[Len(w) - 1]
         /\ \E q : IsLeft(q, Tail(w)) /\ q[Len(Tail(w))] = r[Len(w) - 1]
  <1> DEFINE N == Len(w)
             q == [k \in 0 .. N - 1 |-> r[k]]
             u == Tail(w)
  <1>0. N \in Nat /\ N >= 1 /\ Head(w) = w[1]
    BY EmptySeq
  <1>1. Head(w) \in Lists /\ u \in Seq(Lists) /\ Len(u) = N - 1 /\ \A i \in 1 .. N - 1 : u[i] = w[i + 1]
    BY HeadTailProperties
  <1>2. /\ r \in [0 .. N -> Lists] /\ r[0] = <<>>
        /\ \A k \in 1 .. N : r[k] = w[N + 1 - k] \o r[k - 1]
    BY DEF IsLeft
  <1> HIDE DEF N, u
  <1>3. r[N] = Head(w) \o r[N - 1]
    <2>1. N \in 1 .. N /\ N + 1 - N = 1
      BY <1>0
    <2> QED
      BY <1>0, <1>2, <2>1
  <1>4. q \in [0 .. N - 1 -> Lists] /\ q[0] = <<>> /\ \A k \in 0 .. N - 1 : q[k] = r[k]
    BY <1>0, <1>2
  <1> HIDE DEF q
  <1>5. ASSUME NEW k \in 1 .. N - 1 PROVE q[k] = u[(N - 1) + 1 - k] \o q[k - 1]
    <2>1. /\ k \in 0 .. N - 1 /\ k - 1 \in 0 .. N - 1 /\ k \in 1 .. N
          /\ (N - 1) + 1 - k \in 1 .. N - 1 /\ ((N - 1) + 1 - k) + 1 = N + 1 - k
      BY <1>0
    <2>2. u[(N - 1) + 1 - k] = w[N + 1 - k]
      BY <1>1, <2>1
    <2> QED
      BY <1>2, <1>4, <2>1, <2>2
  <1>6. IsLeft(q, u)
    BY <1>1, <1>4, <1>5 DEF IsLeft
  <1>7. q[Len(u)] = r[N - 1]
    BY <1>0, <1>1, <1>4
  <1> QED
    BY <1>1, <1>3, <1>6, <1>7 DEF N, u

(* Pushing an argument leaves the whole as it is.                          *)
LEMMA SplitHead ==
  ASSUME NEW h \in Lists, h # <<>>
  PROVE  /\ Head(h) \in Arguments /\ Tail(h) \in Lists /\ h = <<Head(h)>> \o Tail(h)
         /\ <<Head(h)>> \in Lists
  <1>1. Head(h) \in Arguments /\ Tail(h) \in Lists /\ <<Head(h)>> \in Lists
    BY DEF Lists
  <1>2. h = <<Head(h)>> \o Tail(h)
    BY DEF Lists
  <1> QED
    BY <1>1, <1>2

LEMMA PushedOne ==
  ASSUME NEW pre \in Lists, NEW h \in Lists, NEW r \in Lists, h # <<>>
  PROVE  /\ Append(pre, Head(h)) \in Lists
         /\ Append(pre, Head(h)) \o (Tail(h) \o r) = pre \o (h \o r)
  <1> DEFINE a == Head(h)
             t == Tail(h)
  <1>1. a \in Arguments /\ t \in Lists /\ h = <<a>> \o t /\ <<a>> \in Lists
    BY SplitHead
  <1> HIDE DEF a, t
  <1>2. Append(pre, a) = pre \o <<a>> /\ Append(pre, a) \in Lists
    BY <1>1, AppendIsConcat, AppendProperties DEF Lists
  <1>3. t \o r \in Lists
    BY <1>1, ConcatProperties DEF Lists
  <1>4. (pre \o <<a>>) \o (t \o r) = pre \o (<<a>> \o (t \o r))
    BY <1>1, <1>3, ConcatAssociative DEF Lists
  <1>5. <<a>> \o (t \o r) = (<<a>> \o t) \o r
    BY <1>1, ConcatAssociative DEF Lists
  <1>6. Append(pre, a) \o (t \o r) = pre \o (h \o r)
    BY <1>1, <1>2, <1>4, <1>5
  <1> QED
    BY <1>2, <1>6 DEF a, t

(* Entering the first file left is a step of the reading.                  *)
LEMMA EnteredFile ==
  ASSUME NEW pre \in Lists, NEW h \in Lists, NEW r \in Lists, h # <<>>,
         Textual(pre), IsFile(Head(h))
  PROVE  /\ HasFile(pre \o (h \o r))
         /\ Inlined(pre \o (h \o r)) = pre \o (Head(h).file \o (Tail(h) \o r))
  <1> DEFINE a == Head(h)
             t == Tail(h) \o r
             all == pre \o (h \o r)
             f == Len(pre) + 1
             back == SubSeq(all, f + 1, Len(all))
  <1>0. Len(pre) \in Nat /\ IsFile(a)
    BY DEF Lists
  <1>1. a \in Arguments /\ Tail(h) \in Lists /\ <<a>> \in Lists /\ h = <<a>> \o Tail(h)
    BY SplitHead
  <1>2. t \in Lists
    BY <1>1, ConcatProperties DEF Lists
  <1>3. all = pre \o (<<a>> \o t)
    BY <1>1, ConcatAssociative DEF Lists
  <1> HIDE DEF a, t, all
  <1>4. <<a>> \o t \in Lists /\ Len(<<a>> \o t) = Len(t) + 1 /\ (<<a>> \o t)[1] = a
        /\ \A i \in 1 .. Len(t) : (<<a>> \o t)[i + 1] = t[i]
    BY <1>1, <1>2 DEF Lists
  <1>5. /\ all \in Lists /\ Len(all) = Len(pre) + Len(t) + 1
        /\ \A i \in 1 .. Len(pre) : all[i] = pre[i]
        /\ all[Len(pre) + 1] = a
        /\ \A i \in 1 .. Len(t) : all[Len(pre) + 1 + i] = t[i]
    <2> DEFINE c == <<a>> \o t
    <2>1. c \in Lists /\ Len(c) = Len(t) + 1 /\ c[1] = a /\ Len(t) \in Nat
          /\ \A i \in 1 .. Len(t) : c[i + 1] = t[i]
      BY <1>2, <1>4 DEF Lists
    <2>2. all = pre \o c
      BY <1>3
    <2> HIDE DEF c
    <2>3. /\ all \in Lists /\ Len(all) = Len(pre) + Len(c)
          /\ \A i \in 1 .. Len(pre) + Len(c) :
               all[i] = IF i <= Len(pre) THEN pre[i] ELSE c[i - Len(pre)]
      BY <2>1, <2>2, ConcatProperties DEF Lists
    <2>4. \A i \in 1 .. Len(pre) : all[i] = pre[i]
      BY <1>0, <2>1, <2>3
    <2>5. all[Len(pre) + 1] = a
      <3>1. Len(pre) + 1 \in 1 .. Len(pre) + Len(c) /\ (Len(pre) + 1) - Len(pre) = 1
            /\ ~(Len(pre) + 1 <= Len(pre))
        BY <1>0, <2>1
      <3> QED
        BY <2>1, <2>3, <3>1
    <2>6. ASSUME NEW i \in 1 .. Len(t) PROVE all[Len(pre) + 1 + i] = t[i]
      <3>1. Len(pre) + 1 + i \in 1 .. Len(pre) + Len(c) /\ (Len(pre) + 1 + i) - Len(pre) = i + 1
            /\ ~(Len(pre) + 1 + i <= Len(pre))
        BY <1>0, <2>1
      <3> QED
        BY <2>1, <2>3, <3>1
    <2> QED
      BY <1>0, <2>1, <2>3, <2>4, <2>5, <2>6
  <1>6. Len(t) \in Nat /\ f \in 1 .. Len(all) /\ all[f] = a /\ f - 1 = Len(pre)
        /\ \A j \in 1 .. f - 1 : ~IsFile(all[j])
    BY <1>0, <1>2, <1>5 DEF Lists, Textual
  <1>7. HasFile(all) /\ Inlined(all) = (SubSeq(all, 1, f - 1) \o a.file) \o back
    BY <1>0, <1>5, <1>6, InliningOf
  <1>8. SubSeq(all, 1, f - 1) = pre
    <2> DEFINE front == SubSeq(all, 1, f - 1)
    <2>1. front \in Lists /\ Len(front) = f - 1 /\ \A i \in 1 .. f - 1 : front[i] = all[i]
      <3>1. f - 1 \in 0 .. Len(all)
        BY <1>5, <1>6
      <3> QED
        BY <1>5, <3>1, PrefixOf
    <2> HIDE DEF front, f
    <2>2. Len(front) = Len(pre) /\ \A i \in 1 .. Len(front) : front[i] = pre[i]
      BY <1>5, <1>6, <2>1
    <2>3. front = pre
      BY <2>1, <2>2, SeqEqual DEF Lists
    <2> QED
      BY <2>3 DEF front
  <1>9. back = t
    <2>0. Len(all) \in Nat /\ f + 1 \in Int /\ Len(all) \in Int /\ f \in Nat /\ f >= 1
          /\ Len(all) = f + Len(t)
      BY <1>0, <1>5, <1>6
    <2>1. \A i \in f + 1 .. Len(all) : all[i] \in Arguments
      BY <1>5, <2>0 DEF Lists
    <2> HIDE DEF f
    <2>2. /\ back \in Seq(Arguments)
          /\ Len(back) = IF f + 1 <= Len(all) THEN Len(all) - (f + 1) + 1 ELSE 0
          /\ \A i \in 1 .. Len(all) - (f + 1) + 1 : back[i] = all[(f + 1) + i - 1]
      BY <2>0, <2>1, SubSeqProperties
    <2> HIDE DEF back
    <2>3. Len(back) = Len(t)
      BY <1>6, <2>0, <2>2
    <2>4. ASSUME NEW i \in 1 .. Len(t) PROVE back[i] = t[i]
      <3>1. i \in 1 .. Len(all) - (f + 1) + 1 /\ (f + 1) + i - 1 = Len(pre) + 1 + i
        BY <1>0, <1>6, <2>0 DEF f
      <3> QED
        BY <1>5, <2>2, <3>1
    <2> QED
      BY <1>2, <2>2, <2>3, <2>4, SeqEqual DEF Lists
  <1>10. a.file \in Lists
    BY <1>0, <1>1, FileOrText
  <1>11. (pre \o a.file) \o t = pre \o (a.file \o t)
    <2> DEFINE m == a.file
    <2>1. m \in Lists
      BY <1>10
    <2> HIDE DEF m
    <2>2. (pre \o m) \o t = pre \o (m \o t)
      BY <1>2, <2>1, ConcatAssociative DEF Lists
    <2> QED
      BY <2>2 DEF m
  <1>12. HasFile(all) /\ Inlined(all) = pre \o (a.file \o t)
    BY <1>7, <1>8, <1>9, <1>11
  <1> QED
    BY <1>12 DEF all, a, t


-----------------------------------------------------------------------------
(* The steps of a walk.                                                    *)
LEMMA TextWalked ==
  ASSUME NEW v, NEW w, NEW pushed, Walking(v, w, pushed), w # <<>>, Head(w) # <<>>,
         ~IsFile(Head(Head(w)))
  PROVE  Walking(v, <<Tail(Head(w))>> \o Tail(w), Append(pushed, Head(Head(w))))
  <1> DEFINE h == Head(w)
             u == <<Tail(h)>> \o Tail(w)
             more == Append(pushed, Head(h))
  <1>1. PICK n, r : Halfway(v, w, pushed, n, r)
    BY DEF Walking
  <1>2. /\ w \in Seq(Lists) /\ pushed \in Lists /\ Textual(pushed)
        /\ n \in 0 .. MaxFiles /\ IsLeft(r, w) /\ Inlinings(v)[n] = pushed \o r[Len(w)]
    BY <1>1 DEF Halfway
  <1>3. /\ h \in Lists /\ Tail(w) \in Seq(Lists) /\ Len(Tail(w)) = Len(w) - 1
        /\ r[Len(w)] = h \o r[Len(w) - 1]
        /\ \E q : IsLeft(q, Tail(w)) /\ q[Len(Tail(w))] = r[Len(w) - 1]
    BY <1>2, LeftTail
  <1>4. PICK q : IsLeft(q, Tail(w)) /\ q[Len(Tail(w))] = r[Len(w) - 1]
    BY <1>3
  <1>5. Head(h) \in Arguments /\ Tail(h) \in Lists
    BY <1>3, SplitHead
  <1>6. PICK p : IsLeft(p, u) /\ p[Len(Tail(w)) + 1] = Tail(h) \o q[Len(Tail(w))]
    BY <1>3, <1>4, <1>5, LeftDeeper
  <1>7. u \in Seq(Lists) /\ Len(u) = Len(Tail(w)) + 1
    BY <1>3, <1>5, ConsIs
  <1>8. r[Len(w) - 1] \in Lists
    <2>1. Len(w) - 1 \in 0 .. Len(w)
      BY <1>2, EmptySeq
    <2> QED
      BY <1>2, <2>1 DEF IsLeft
  <1>9. more \in Lists /\ more \o (Tail(h) \o r[Len(w) - 1]) = pushed \o (h \o r[Len(w) - 1])
    BY <1>2, <1>3, <1>8, PushedOne
  <1>10. Textual(more)
    <2>1. Len(more) = Len(pushed) + 1 /\ Len(pushed) \in Nat
          /\ (\A i \in 1 .. Len(pushed) : more[i] = pushed[i])
          /\ more[Len(pushed) + 1] = Head(h)
      BY <1>2, <1>5, AppendProperties DEF Lists
    <2> HIDE DEF more
    <2> QED
      BY <1>2, <2>1 DEF Textual
  <1>11. Inlinings(v)[n] = more \o p[Len(u)]
    BY <1>2, <1>3, <1>4, <1>6, <1>7, <1>9
  <1> HIDE DEF h, u, more
  <1>12. Halfway(v, u, more, n, p)
    BY <1>2, <1>6, <1>7, <1>9, <1>10, <1>11 DEF Halfway
  <1> QED
    BY <1>12 DEF Walking, u, more, h

LEMMA FileWalked ==
  ASSUME NEW v \in CommandLines, NEW w, NEW pushed, Walking(v, w, pushed), w # <<>>,
         Head(w) # <<>>, IsFile(Head(Head(w)))
  PROVE  Walking(v, <<Head(Head(w)).file>> \o (<<Tail(Head(w))>> \o Tail(w)), pushed)
  <1> DEFINE h == Head(w)
             x == Head(h).file
             u == <<Tail(h)>> \o Tail(w)
             z == <<x>> \o u
  <1>1. PICK n, r : Halfway(v, w, pushed, n, r)
    BY DEF Walking
  <1>2. /\ w \in Seq(Lists) /\ pushed \in Lists /\ Textual(pushed)
        /\ n \in 0 .. MaxFiles /\ IsLeft(r, w) /\ Inlinings(v)[n] = pushed \o r[Len(w)]
    BY <1>1 DEF Halfway
  <1>3. /\ h \in Lists /\ Tail(w) \in Seq(Lists) /\ Len(Tail(w)) = Len(w) - 1
        /\ r[Len(w)] = h \o r[Len(w) - 1]
        /\ \E q : IsLeft(q, Tail(w)) /\ q[Len(Tail(w))] = r[Len(w) - 1]
    BY <1>2, LeftTail
  <1>4. PICK q : IsLeft(q, Tail(w)) /\ q[Len(Tail(w))] = r[Len(w) - 1]
    BY <1>3
  <1>5. Head(h) \in Arguments /\ Tail(h) \in Lists
    BY <1>3, SplitHead
  <1>6. PICK p : IsLeft(p, u) /\ p[Len(Tail(w)) + 1] = Tail(h) \o q[Len(Tail(w))]
    BY <1>3, <1>4, <1>5, LeftDeeper
  <1>7. u \in Seq(Lists) /\ Len(u) = Len(Tail(w)) + 1
    BY <1>3, <1>5, ConsIs
  <1>8. x \in Lists
    BY <1>5, FileOrText
  <1> HIDE DEF x
  <1>9. PICK o : IsLeft(o, z) /\ o[Len(u) + 1] = x \o p[Len(u)]
    <2>1. u \in Seq(Lists) /\ IsLeft(p, u)
      BY <1>6, <1>7
    <2> HIDE DEF u
    <2> QED
      BY <2>1, <1>8, LeftDeeper
  <1>10. z \in Seq(Lists) /\ Len(z) = Len(u) + 1
    <2> HIDE DEF u
    <2> QED
      BY <1>7, <1>8, ConsIs
  <1>11. r[Len(w) - 1] \in Lists
    <2>1. Len(w) - 1 \in 0 .. Len(w)
      BY <1>2, EmptySeq
    <2> QED
      BY <1>2, <2>1 DEF IsLeft
  <1>12. /\ HasFile(Inlinings(v)[n])
         /\ Inlined(Inlinings(v)[n]) = pushed \o (x \o (Tail(h) \o r[Len(w) - 1]))
    <2> DEFINE b == r[Len(w) - 1]
    <2>1. Inlinings(v)[n] = pushed \o (h \o b)
      BY <1>2, <1>3
    <2>2. b \in Lists /\ h # <<>> /\ IsFile(Head(h))
      BY <1>11
    <2> HIDE DEF h, b
    <2>3. HasFile(pushed \o (h \o b)) /\ Inlined(pushed \o (h \o b)) = pushed \o (x \o (Tail(h) \o b))
      BY <1>2, <1>3, <2>2, EnteredFile DEF x
    <2>4. HasFile(Inlinings(v)[n]) /\ Inlined(Inlinings(v)[n]) = pushed \o (x \o (Tail(h) \o b))
      BY <2>1, <2>3
    <2> QED
      BY <2>4 DEF b
  <1>13. n + 1 \in 0 .. MaxFiles /\ Inlinings(v)[n + 1] = Inlined(Inlinings(v)[n])
    <2>1. n # MaxFiles
      BY <1>12, FilesAssumption
    <2>2. v \in Lists
      BY ArgumentsAssumption DEF Lists
    <2>3. n \in 0 .. MaxFiles - 1
      BY <1>2, <2>1, FilesAssumption
    <2> QED
      BY <2>2, <2>3, InliningsAre, FilesAssumption
  <1>14. Inlinings(v)[n + 1] = pushed \o o[Len(z)]
    BY <1>4, <1>6, <1>7, <1>9, <1>10, <1>12, <1>13
  <1> HIDE DEF h, u, z
  <1>15. Halfway(v, z, pushed, n + 1, o)
    BY <1>2, <1>9, <1>10, <1>13, <1>14 DEF Halfway
  <1> QED
    BY <1>15 DEF Walking, z, u, x, h

LEMMA ReturnWalked ==
  ASSUME NEW v, NEW w, NEW pushed, Walking(v, w, pushed), w # <<>>, Head(w) = <<>>
  PROVE  Walking(v, Tail(w), pushed)
  <1>1. PICK n, r : Halfway(v, w, pushed, n, r)
    BY DEF Walking
  <1>2. /\ w \in Seq(Lists) /\ pushed \in Lists /\ Textual(pushed)
        /\ n \in 0 .. MaxFiles /\ IsLeft(r, w) /\ Inlinings(v)[n] = pushed \o r[Len(w)]
    BY <1>1 DEF Halfway
  <1>3. /\ Tail(w) \in Seq(Lists)
        /\ r[Len(w)] = <<>> \o r[Len(w) - 1]
        /\ \E q : IsLeft(q, Tail(w)) /\ q[Len(Tail(w))] = r[Len(w) - 1]
    BY <1>2, LeftTail
  <1>4. PICK q : IsLeft(q, Tail(w)) /\ q[Len(Tail(w))] = r[Len(w) - 1]
    BY <1>3
  <1>5. r[Len(w) - 1] \in Lists
    <2>1. Len(w) - 1 \in 0 .. Len(w)
      BY <1>2, EmptySeq
    <2> QED
      BY <1>2, <2>1 DEF IsLeft
  <1>6. r[Len(w)] = r[Len(w) - 1]
    BY <1>3, <1>5, ConcatEmptySeq DEF Lists
  <1>7. Halfway(v, Tail(w), pushed, n, q)
    BY <1>2, <1>3, <1>4, <1>6 DEF Halfway
  <1> QED
    BY <1>7 DEF Walking

(* What a walk has pushed by its end is what there is to read, and before  *)
(* it is no more than that.                                                *)
LEMMA WalkEnds ==
  ASSUME NEW v \in CommandLines, NEW pushed, Walking(v, <<>>, pushed)
  PROVE  Inlinings(v)[MaxFiles] = pushed
  <1>1. PICK n, r : Halfway(v, <<>>, pushed, n, r)
    BY DEF Walking
  <1>2. /\ pushed \in Lists /\ Textual(pushed)
        /\ n \in 0 .. MaxFiles /\ r[0] = <<>> /\ Inlinings(v)[n] = pushed \o r[0]
    BY <1>1 DEF Halfway, IsLeft
  <1>3. Inlinings(v)[n] = pushed
    BY <1>2, ConcatEmptySeq DEF Lists
  <1>4. ~HasFile(Inlinings(v)[n])
    BY <1>2, <1>3 DEF HasFile, Textual
  <1>5. v \in Lists
    BY ArgumentsAssumption DEF Lists
  <1> QED
    BY <1>2, <1>3, <1>4, <1>5, ReadWithoutFiles

LEMMA WalkBounded ==
  ASSUME NEW v \in CommandLines, NEW w, NEW pushed, Walking(v, w, pushed)
  PROVE  Len(pushed) <= Len(Inlinings(v)[MaxFiles])
  <1>1. PICK n, r : Halfway(v, w, pushed, n, r)
    BY DEF Walking
  <1>2. /\ w \in Seq(Lists) /\ pushed \in Lists /\ Textual(pushed)
        /\ n \in 0 .. MaxFiles /\ IsLeft(r, w) /\ Inlinings(v)[n] = pushed \o r[Len(w)]
    BY <1>1 DEF Halfway
  <1> DEFINE s == Inlinings(v)[n]
             b == r[Len(w)]
  <1>3. b \in Lists /\ v \in Lists
    <2>1. v \in Lists
      BY ArgumentsAssumption DEF Lists
    <2>2. Len(w) \in 0 .. Len(w)
      BY <1>2
    <2> QED
      BY <1>2, <2>1, <2>2 DEF IsLeft
  <1>4. s = pushed \o b
    BY <1>2
  <1> HIDE DEF s, b
  <1>5. Len(pushed) \in 0 .. Len(s) /\ \A i \in 1 .. Len(pushed) : s[i] = pushed[i]
    BY <1>2, <1>3, <1>4 DEF Lists
  <1>6. \A i \in 1 .. Len(pushed) : ~IsFile(s[i])
    BY <1>2, <1>5 DEF Textual
  <1> DEFINE k == Len(pushed)
  <1>7. k \in 0 .. Len(s) /\ \A i \in 1 .. k : ~IsFile(s[i])
    BY <1>5, <1>6
  <1>8. k <= Len(Inlinings(v)[MaxFiles])
    <2> HIDE DEF k
    <2> QED
      BY <1>2, <1>3, <1>7, LeadingStay DEF s
  <1> QED
    BY <1>8


-----------------------------------------------------------------------------
(* Selections.                                                             *)
Chosen(s, T, n) == {i \in 1 .. n : s[i] \in T}

LEMMA ChosenFinite ==
  ASSUME NEW s, NEW T, NEW n \in Nat
  PROVE  IsFiniteSet(Chosen(s, T, n)) /\ Cardinality(Chosen(s, T, n)) \in Nat
  <1>1. IsFiniteSet(1 .. n)
    BY FS_Interval
  <1>2. Chosen(s, T, n) \subseteq 1 .. n
    BY DEF Chosen
  <1> QED
    BY <1>1, <1>2, FS_Subset, FS_CardinalityType

LEMMA SelectionIs ==
  ASSUME NEW t, NEW s, NEW T
  PROVE  IsSelection(t, s, T) <=>
           /\ Len(t) = Cardinality(Chosen(s, T, Len(s)))
           /\ \A i \in Chosen(s, T, Len(s)) : t[Cardinality(Chosen(s, T, i))] = s[i]
  BY DEF IsSelection, Chosen

LEMMA SelectNothing == ASSUME NEW T PROVE IsSelection(<<>>, <<>>, T)
  <1>1. Chosen(<<>>, T, 0) = {}
    BY DEF Chosen
  <1>2. Len(<<>>) = 0 /\ Cardinality({}) = 0
    BY FS_EmptySet
  <1> QED
    BY <1>1, <1>2, SelectionIs

(* One more entry joins the selection if it is a member of the set.        *)
LEMMA SelectOneMore ==
  ASSUME NEW S, NEW s \in Seq(S), NEW t \in Seq(S), NEW T, IsSelection(t, s, T),
         NEW x \in S
  PROVE  IsSelection(IF x \in T THEN Append(t, x) ELSE t, Append(s, x), T)
  <1> DEFINE N == Len(s)
             M == Len(t)
             u == Append(s, x)
             q == IF x \in T THEN Append(t, x) ELSE t
  <1>1. /\ N \in Nat /\ M \in Nat /\ Len(u) = N + 1 /\ u[N + 1] = x
        /\ \A i \in 1 .. N : u[i] = s[i]
    BY AppendProperties
  <1>2. /\ M = Cardinality(Chosen(s, T, N))
        /\ \A i \in Chosen(s, T, N) : t[Cardinality(Chosen(s, T, i))] = s[i]
    BY SelectionIs
  <1>3. /\ x \in T => Len(q) = M + 1 /\ q[M + 1] = x
        /\ x \notin T => Len(q) = M
        /\ \A i \in 1 .. M : q[i] = t[i]
    BY AppendProperties
  <1> HIDE DEF N, M, u, q
  <1>4. \A n \in 0 .. N : Chosen(u, T, n) = Chosen(s, T, n)
    BY <1>1 DEF Chosen
  <1>5. ASSUME NEW i \in Chosen(s, T, N) PROVE Cardinality(Chosen(s, T, i)) \in 1 .. M
    <2>1. i \in 1 .. N /\ i \in Chosen(s, T, i)
      BY <1>1 DEF Chosen
    <2>2. Chosen(s, T, i) \subseteq Chosen(s, T, N)
      BY <1>1, <2>1 DEF Chosen
    <2>3. IsFiniteSet(Chosen(s, T, N)) /\ IsFiniteSet(Chosen(s, T, i))
          /\ Cardinality(Chosen(s, T, i)) \in Nat
      BY <1>1, <2>1, ChosenFinite
    <2>4. Cardinality(Chosen(s, T, i)) <= M
      BY <1>2, <2>2, <2>3, FS_Subset
    <2>5. Cardinality(Chosen(s, T, i)) # 0
      BY <2>1, <2>3, FS_EmptySet
    <2> QED
      BY <1>1, <2>3, <2>4, <2>5
  <1>6. ASSUME NEW i \in Chosen(s, T, N)
        PROVE  q[Cardinality(Chosen(u, T, i))] = u[i]
    <2>1. i \in 1 .. N /\ i \in 0 .. N
      BY <1>1 DEF Chosen
    <2> QED
      BY <1>1, <1>2, <1>3, <1>4, <1>5, <2>1
  <1>7. N + 1 \notin Chosen(s, T, N) /\ N \in 0 .. N
    BY <1>1 DEF Chosen
  <1>8. CASE x \in T
    <2>1. Chosen(u, T, N + 1) = Chosen(s, T, N) \cup {N + 1}
      <3>1. \A i : i \in 1 .. N + 1 <=> i \in 1 .. N \/ i = N + 1
        BY <1>1
      <3>2. \A i : i \in Chosen(u, T, N + 1) <=> i \in Chosen(s, T, N) \cup {N + 1}
        BY <1>1, <1>8, <3>1 DEF Chosen
      <3> QED
        BY <3>2
    <2>2. Cardinality(Chosen(u, T, N + 1)) = M + 1
      BY <1>1, <1>2, <1>7, <2>1, ChosenFinite, FS_AddElement
    <2>3. \A i \in Chosen(u, T, N + 1) : q[Cardinality(Chosen(u, T, i))] = u[i]
      BY <1>1, <1>3, <1>6, <1>8, <2>1, <2>2
    <2>4. Len(q) = Cardinality(Chosen(u, T, Len(u)))
      BY <1>1, <1>3, <1>8, <2>2
    <2>5. IsSelection(q, u, T)
      BY <1>1, <2>3, <2>4, SelectionIs
    <2> QED
      BY <2>5 DEF q, u
  <1>9. CASE x \notin T
    <2>1. Chosen(u, T, N + 1) = Chosen(s, T, N)
      <3>1. \A i : i \in 1 .. N + 1 <=> i \in 1 .. N \/ i = N + 1
        BY <1>1
      <3>2. \A i : i \in Chosen(u, T, N + 1) <=> i \in Chosen(s, T, N)
        BY <1>1, <1>9, <3>1 DEF Chosen
      <3> QED
        BY <3>2
    <2>2. Len(q) = Cardinality(Chosen(u, T, Len(u)))
      BY <1>1, <1>2, <1>3, <1>9, <2>1
    <2>3. IsSelection(q, u, T)
      BY <1>1, <1>6, <2>1, <2>2, SelectionIs
    <2> QED
      BY <2>3 DEF q, u
  <1> QED
    BY <1>8, <1>9


-----------------------------------------------------------------------------
(* The texts of a list.                                                    *)
LEMMA TextsAre ==
  ASSUME NEW args \in Lists, Textual(args)
  PROVE  TextsOf(args) \in Seq(ArgTexts) /\ Len(TextsOf(args)) = Len(args)
  <1>1. Len(args) \in Nat /\ \A i \in 1 .. Len(args) : args[i].text \in STRING
    BY FileOrText DEF Lists, Textual
  <1> QED
    BY <1>1 DEF TextsOf, ArgTexts

LEMMA TextsAppend ==
  ASSUME NEW args \in Lists, NEW a \in Arguments
  PROVE  TextsOf(Append(args, a)) = Append(TextsOf(args), a.text)
  <1> DEFINE more == Append(args, a)
             N == Len(args)
             t == a.text
  <1>1. /\ N \in Nat /\ Len(more) = N + 1 /\ more[N + 1] = a
        /\ \A i \in 1 .. N : more[i] = args[i]
    BY AppendProperties DEF Lists
  <1> HIDE DEF more, t
  <1>2. TextsOf(more) = [i \in 1 .. N + 1 |-> IF i <= N THEN args[i].text ELSE t]
    <2>1. \A i \in 1 .. N + 1 : more[i].text = IF i <= N THEN args[i].text ELSE t
      <3>1. \A i \in 1 .. N + 1 : i \in 1 .. N \/ (i = N + 1 /\ ~(i <= N))
        BY <1>1
      <3>2. \A i \in 1 .. N : i <= N
        BY <1>1
      <3> QED
        BY <1>1, <3>1, <3>2 DEF t
    <2> QED
      BY <1>1, <2>1 DEF TextsOf
  <1>3. Append([i \in 1 .. N |-> args[i].text], t)
          = [i \in 1 .. N + 1 |-> IF i <= N THEN args[i].text ELSE t]
    BY <1>1
  <1>4. TextsOf(more) = Append(TextsOf(args), t)
    BY <1>2, <1>3 DEF TextsOf
  <1> QED
    BY <1>4 DEF more, t

LEMMA WalkFacts ==
  ASSUME NEW v, NEW w, NEW pushed, Walking(v, w, pushed)
  PROVE  w \in Seq(Lists) /\ pushed \in Lists /\ Textual(pushed)
  BY DEF Walking, Halfway

(* There is nothing but texts in the reading of a command line.            *)
LEMMA ReadingIs ==
  ASSUME NEW v \in CommandLines
  PROVE  Reading(v) \in Seq(ArgTexts) /\ Len(Reading(v)) = Len(Inlinings(v)[MaxFiles])
  <1> DEFINE s == Inlinings(v)[MaxFiles]
  <1>1. s \in Lists
    BY InliningsAre, ArgumentsAssumption, FilesAssumption DEF Lists
  <1>2. Textual(s)
    BY FilesAssumption DEF HasFile, Textual
  <1> HIDE DEF s
  <1>3. TextsOf(s) \in Seq(ArgTexts) /\ Len(TextsOf(s)) = Len(s)
    BY <1>1, <1>2, TextsAre
  <1> QED
    BY <1>3 DEF s, Reading

-----------------------------------------------------------------------------
(* The inductive invariant: what each phase of a construction has done.    *)
Counting ==
  cmd = "count" =>
    /\ walk # <<>> /\ argv_stack = <<>>
    /\ \E pushed : Walking(argv, walk, pushed) /\ Len(pushed) = argc_total
Storing ==
  cmd = "store" =>
    /\ walk # <<>> /\ argc_total = Len(Reading(argv))
    /\ \E pushed : Walking(argv, walk, pushed) /\ TextsOf(pushed) = argv_stack
NothingYet ==
  cmd \in {"count", "store"} => m_argv = <<>> /\ m_plus_argv = <<>> /\ m_uvm_argv = <<>>
Collected ==
  /\ idx \in 0 .. Len(Reading(argv)) /\ Len(m_argv) = idx
  /\ m_argv \in Seq(ArgTexts) /\ m_plus_argv \in Seq(ArgTexts) /\ m_uvm_argv \in Seq(ArgTexts)
  /\ \A i \in 1 .. idx : m_argv[i] = Reading(argv)[i] /\ m_argv[i] # NoText
  /\ IsSelection(m_plus_argv, m_argv, PlusTexts)
  /\ IsSelection(m_uvm_argv, m_argv, UvmTexts)
Stored ==
  cmd = "hand_out" =>
    argv_stack = Reading(argv) /\ argc_total = Len(Reading(argv)) /\ Collected
Ended == cmd = "idle" => Len(argv_stack) <= argc_total
CmdInv ==
  /\ argv \in CommandLines /\ processors \in Nat
  /\ cmd \in {"idle", "count", "store", "hand_out"}
  /\ Counting /\ Storing /\ NothingYet /\ Stored /\ Ended /\ ArgumentsCollected

LEMMA CmdInit_Inv == CmdInit => CmdInv
  <1> SUFFICES ASSUME CmdInit PROVE CmdInv
    OBVIOUS
  <1>1. /\ argv \in CommandLines /\ cmd = "idle" /\ processors = 0
        /\ argc_total = 0 /\ argv_stack = <<>>
    BY DEF CmdInit, CmdIdle
  <1>2. Ended
    BY <1>1 DEF Ended
  <1> QED
    BY <1>1, <1>2 DEF CmdInv, Counting, Storing, NothingYet, Stored, ArgumentsCollected

LEMMA NewInv == CmdInv /\ New => CmdInv'
  <1> SUFFICES ASSUME CmdInv, New PROVE CmdInv'
    OBVIOUS
  <1>1. /\ argv \in CommandLines /\ processors \in Nat
        /\ argv' = argv /\ cmd' = "count" /\ walk' = <<argv>>
        /\ argc_total' = 0 /\ argv_stack' = <<>> /\ processors' = processors + 1
        /\ m_argv' = <<>> /\ m_plus_argv' = <<>> /\ m_uvm_argv' = <<>>
    BY DEF CmdInv, New
  <1>2. Walking(argv, <<argv>>, <<>>)
    BY <1>1, WalkStarts
  <1>3. walk' # <<>> /\ Len(<<>>) = 0
    BY <1>1
  <1>4. \E pushed : Walking(argv, <<argv>>, pushed) /\ Len(pushed) = 0
    BY <1>2, <1>3
  <1>5. Counting'
    BY <1>1, <1>3, <1>4 DEF Counting
  <1> QED
    BY <1>1, <1>5 DEF CmdInv, Storing, NothingYet, Stored, Ended, ArgumentsCollected

LEMMA WalkArgumentInv == CmdInv /\ WalkArgument => CmdInv'
  <1> SUFFICES ASSUME CmdInv, WalkArgument PROVE CmdInv'
    OBVIOUS
  <1> DEFINE h == Head(walk)
             a == Head(h)
             rest == <<Tail(h)>> \o Tail(walk)
  <1>1. /\ argv \in CommandLines /\ processors \in Nat /\ cmd \in {"count", "store"}
        /\ Counting /\ Storing /\ NothingYet
        /\ walk # <<>> /\ h # <<>>
        /\ argv' = argv /\ cmd' = cmd /\ processors' = processors
        /\ m_argv' = m_argv /\ m_plus_argv' = m_plus_argv /\ m_uvm_argv' = m_uvm_argv
    BY DEF CmdInv, WalkArgument
  <1>2. /\ IsFile(a) => walk' = <<a.file>> \o rest /\ argc_total' = argc_total
                        /\ argv_stack' = argv_stack
        /\ ~IsFile(a) => walk' = rest /\ PushData(a.text)
    BY DEF WalkArgument
  <1>3. PICK pushed : /\ Walking(argv, walk, pushed)
                      /\ cmd = "count" => Len(pushed) = argc_total
                      /\ cmd = "store" => TextsOf(pushed) = argv_stack
    BY <1>1 DEF Counting, Storing
  <1>4. walk \in Seq(Lists) /\ pushed \in Lists /\ Textual(pushed)
    BY <1>3, WalkFacts
  <1>5. h \in Lists /\ Tail(walk) \in Seq(Lists)
    BY <1>1, <1>4, HeadTailProperties
  <1>6. a \in Arguments /\ Tail(h) \in Lists
    BY <1>1, <1>5, SplitHead
  <1>7. rest \in Seq(Lists) /\ rest # <<>>
    BY <1>5, <1>6, ConsIs, EmptySeq
  <1>8. \E more : /\ Walking(argv, walk', more) /\ walk' # <<>>
                  /\ cmd = "count" => Len(more) = argc_total' /\ argv_stack' = argv_stack
                  /\ cmd = "store" => TextsOf(more) = argv_stack' /\ argc_total' = argc_total
    <2>1. CASE IsFile(a)
      <3> DEFINE f == a.file
      <3>1. f \in Lists /\ walk' = <<f>> \o rest
        BY <1>2, <1>6, <2>1, FileOrText
      <3>2. Walking(argv, <<f>> \o rest, pushed)
        BY <1>1, <1>3, <2>1, FileWalked
      <3> HIDE DEF f, rest
      <3>3. <<f>> \o rest # <<>>
        <4>1. Len(<<f>> \o rest) = Len(rest) + 1 /\ Len(rest) \in Nat
          BY <1>7, <3>1, ConsIs
        <4>2. Len(<<>>) = 0
          OBVIOUS
        <4> QED
          BY <4>1, <4>2
      <3> QED
        BY <1>2, <1>3, <2>1, <3>1, <3>2, <3>3
    <2>2. CASE ~IsFile(a)
      <3> DEFINE more == Append(pushed, a)
      <3>1. Walking(argv, rest, more)
        BY <1>1, <1>3, <2>2, TextWalked
      <3>2. TextsOf(more) = Append(TextsOf(pushed), a.text)
        BY <1>4, <1>6, TextsAppend
      <3>3. Len(more) = Len(pushed) + 1
        BY <1>4, <1>6, AppendProperties DEF Lists
      <3> HIDE DEF more, rest
      <3>4. CASE cmd = "count"
        <4>1. argc_total' = argc_total + 1 /\ argv_stack' = argv_stack
          BY <1>2, <2>2, <3>4 DEF PushData
        <4> QED
          BY <1>2, <1>3, <1>7, <2>2, <3>1, <3>3, <3>4, <4>1
      <3>5. CASE cmd = "store"
        <4>1. argv_stack' = Append(argv_stack, a.text) /\ argc_total' = argc_total
          BY <1>2, <2>2, <3>5 DEF PushData
        <4> QED
          BY <1>2, <1>3, <1>7, <2>2, <3>1, <3>2, <3>5, <4>1
      <3> QED
        BY <1>1, <3>4, <3>5
    <2> QED
      BY <2>1, <2>2
  <1> HIDE DEF h, a, rest
  <1>9. Counting'
    BY <1>1, <1>8 DEF Counting
  <1>10. Storing'
    BY <1>1, <1>8 DEF Storing
  <1>11. NothingYet'
    BY <1>1 DEF NothingYet
  <1> QED
    BY <1>1, <1>9, <1>10, <1>11 DEF CmdInv, Stored, Ended, ArgumentsCollected

LEMMA WalkReturnInv == CmdInv /\ WalkReturn => CmdInv'
  <1> SUFFICES ASSUME CmdInv, WalkReturn PROVE CmdInv'
    OBVIOUS
  <1>1. /\ argv \in CommandLines /\ processors \in Nat /\ cmd \in {"count", "store"}
        /\ Counting /\ Storing /\ NothingYet
        /\ walk # <<>> /\ Head(walk) = <<>>
        /\ argv' = argv /\ processors' = processors
        /\ argc_total' = argc_total /\ argv_stack' = argv_stack
        /\ m_argv' = m_argv /\ m_plus_argv' = m_plus_argv /\ m_uvm_argv' = m_uvm_argv
    BY DEF CmdInv, WalkReturn
  <1>2. PICK pushed : /\ Walking(argv, walk, pushed)
                      /\ cmd = "count" => Len(pushed) = argc_total /\ argv_stack = <<>>
                      /\ cmd = "store" => TextsOf(pushed) = argv_stack
    BY <1>1 DEF Counting, Storing
  <1>3. walk \in Seq(Lists) /\ Len(walk) \in Nat /\ Len(walk) >= 1
    BY <1>1, <1>2, WalkFacts, EmptySeq
  <1>4. Tail(walk) \in Seq(Lists) /\ Len(Tail(walk)) = Len(walk) - 1
    BY <1>1, <1>3, HeadTailProperties
  <1>5. Walking(argv, Tail(walk), pushed)
    BY <1>1, <1>2, ReturnWalked
  <1>6. CASE Len(walk) > 1
    <2>1. walk' = Tail(walk) /\ cmd' = cmd
      BY <1>6 DEF WalkReturn
    <2>2. Tail(walk) # <<>>
      <3> DEFINE t == Tail(walk)
      <3>1. Len(t) = Len(walk) - 1
        BY <1>4
      <3> HIDE DEF t
      <3>2. t # <<>>
        BY <1>3, <1>6, <3>1
      <3> QED
        BY <3>2 DEF t
    <2>3. Counting'
      BY <1>1, <1>2, <1>5, <2>1, <2>2 DEF Counting
    <2>4. Storing'
      BY <1>1, <1>2, <1>5, <2>1, <2>2 DEF Storing
    <2>5. NothingYet'
      BY <1>1, <2>1 DEF NothingYet
    <2> QED
      BY <1>1, <2>1, <2>3, <2>4, <2>5 DEF CmdInv, Stored, Ended, ArgumentsCollected
  <1>7. CASE ~(Len(walk) > 1)
    <2>1. Tail(walk) = <<>>
      BY <1>3, <1>4, <1>7, EmptySeq
    <2>2. Inlinings(argv)[MaxFiles] = pushed
      BY <1>1, <1>5, <2>1, WalkEnds
    <2>3. /\ Reading(argv) = TextsOf(pushed) /\ Len(Reading(argv)) = Len(pushed)
          /\ Reading(argv) \in Seq(ArgTexts)
      BY <1>1, <2>2, ReadingIs DEF Reading
    <2>4. CASE cmd = "count"
      <3>1. cmd' = "store" /\ walk' = <<argv>>
        BY <1>7, <2>4 DEF WalkReturn
      <3>2. Walking(argv, <<argv>>, <<>>)
        BY <1>1, WalkStarts
      <3>3. TextsOf(<<>>) = <<>>
        BY DEF TextsOf
      <3>4. walk' # <<>>
        BY <3>1
      <3>5. \E q : Walking(argv, <<argv>>, q) /\ TextsOf(q) = argv_stack
        BY <1>2, <2>4, <3>2, <3>3
      <3>6. Storing'
        BY <1>1, <1>2, <2>3, <2>4, <3>1, <3>4, <3>5 DEF Storing
      <3>7. NothingYet'
        BY <1>1 DEF NothingYet
      <3> QED
        BY <1>1, <3>1, <3>6, <3>7 DEF CmdInv, Counting, Stored, Ended, ArgumentsCollected
    <2>5. CASE cmd = "store"
      <3>1. cmd' = "hand_out" /\ idx' = 0
        BY <1>7, <2>5 DEF WalkReturn
      <3>2. argv_stack = Reading(argv) /\ argc_total = Len(Reading(argv))
        BY <1>1, <1>2, <2>3, <2>5 DEF Storing
      <3>3. m_argv = <<>> /\ m_plus_argv = <<>> /\ m_uvm_argv = <<>>
        BY <1>1 DEF NothingYet
      <3>4. Collected'
        <4>1. Reading(argv)' = Reading(argv)
          BY <1>1
        <4>2. 0 \in 0 .. Len(Reading(argv)) /\ Len(<<>>) = 0 /\ <<>> \in Seq(ArgTexts)
          BY <2>3
        <4>3. \A T : IsSelection(<<>>, <<>>, T)
          BY SelectNothing
        <4> QED
          BY <1>1, <3>1, <3>3, <4>1, <4>2, <4>3 DEF Collected
      <3>5. Stored'
        BY <1>1, <3>2, <3>4 DEF Stored
      <3> QED
        BY <1>1, <3>1, <3>5 DEF CmdInv, Counting, Storing, NothingYet, Ended, ArgumentsCollected
    <2> QED
      BY <1>1, <2>4, <2>5
  <1> QED
    BY <1>6, <1>7

LEMMA CollectInv == CmdInv /\ Collect => CmdInv'
  <1> SUFFICES ASSUME CmdInv, Collect PROVE CmdInv'
    OBVIOUS
  <1> DEFINE R == Reading(argv)
             s == NextArg
  <1>1. /\ argv \in CommandLines /\ processors \in Nat /\ cmd = "hand_out"
        /\ Stored /\ Collected
        /\ argv' = argv /\ processors' = processors /\ idx' = idx + 1
        /\ argc_total' = argc_total /\ argv_stack' = argv_stack
    BY Zenon DEF CmdInv, Collect, Stored
  <1>2. argv_stack = R /\ argc_total = Len(R) /\ R \in Seq(ArgTexts) /\ Len(R) \in Nat
    BY <1>1, ReadingIs DEF Stored
  <1>3. s = IF idx >= Len(R) THEN NoText ELSE R[idx + 1]
    <2>1. s = IF idx >= argc_total THEN NoText ELSE argv_stack[idx + 1]
      BY Zenon DEF NextArg, NoText
    <2> QED
      BY <1>2, <2>1, Zenon
  <1>4. /\ s = NoText =>
             /\ cmd' = "idle" /\ m_argv' = m_argv
             /\ m_plus_argv' = m_plus_argv /\ m_uvm_argv' = m_uvm_argv
        /\ s # NoText =>
             /\ cmd' = cmd /\ m_argv' = Append(m_argv, s)
             /\ m_plus_argv' = IF s \in PlusTexts THEN Append(m_plus_argv, s) ELSE m_plus_argv
             /\ m_uvm_argv' = IF s \in UvmTexts THEN Append(m_uvm_argv, s) ELSE m_uvm_argv
    <2>1. IF s = NoText
          THEN cmd' = "idle" /\ UNCHANGED <<m_argv, m_plus_argv, m_uvm_argv>>
          ELSE /\ m_argv' = Append(m_argv, s)
               /\ m_plus_argv' = IF s \in PlusTexts THEN Append(m_plus_argv, s) ELSE m_plus_argv
               /\ m_uvm_argv' = IF s \in UvmTexts THEN Append(m_uvm_argv, s) ELSE m_uvm_argv
               /\ UNCHANGED cmd
      BY Zenon DEF Collect, NoText
    <2> HIDE DEF s
    <2> QED
      BY <2>1
  <1>5. R' = R
    BY <1>1
  <1>6. /\ idx \in 0 .. Len(R) /\ Len(m_argv) = idx
        /\ m_argv \in Seq(ArgTexts) /\ m_plus_argv \in Seq(ArgTexts) /\ m_uvm_argv \in Seq(ArgTexts)
        /\ \A i \in 1 .. idx : m_argv[i] = R[i] /\ m_argv[i] # NoText
    BY <1>1 DEF Collected
  <1>9. /\ IsSelection(m_plus_argv, m_argv, PlusTexts)
        /\ IsSelection(m_uvm_argv, m_argv, UvmTexts)
    BY <1>1 DEF Collected
  <1> HIDE DEF s, R
  <1>7. CASE s = NoText
    <2>1. IsUpToEmpty(m_argv, R)
      <3>1. Len(m_argv) < Len(R) => R[Len(m_argv) + 1] = NoText
        BY <1>2, <1>3, <1>6, <1>7
      <3>2. Len(m_argv) <= Len(R) /\ \A i \in 1 .. Len(m_argv) : m_argv[i] = R[i] /\ R[i] # NoText
        BY <1>2, <1>6
      <3> QED
        BY <3>1, <3>2, Zenon DEF IsUpToEmpty, NoText
    <2>2. ArgumentsCollected'
      BY <1>1, <1>4, <1>5, <1>7, <1>9, <2>1 DEF ArgumentsCollected, R
    <2>3. Ended'
      BY <1>1, <1>2 DEF Ended, R
    <2> QED
      BY <1>1, <1>4, <1>7, <2>2, <2>3 DEF CmdInv, Counting, Storing, NothingYet, Stored
  <1>8. CASE s # NoText
    <2>1. idx < Len(R) /\ s = R[idx + 1] /\ idx + 1 \in 1 .. Len(R) /\ idx \in Nat
      BY <1>2, <1>3, <1>6, <1>8
    <2>2. s \in ArgTexts
      BY <1>2, <2>1
    <2>3. IsSelection(m_plus_argv', m_argv', PlusTexts)
      <3>1. IsSelection(IF s \in PlusTexts THEN Append(m_plus_argv, s) ELSE m_plus_argv,
                        Append(m_argv, s), PlusTexts)
        BY <1>6, <1>9, <2>2, SelectOneMore
      <3> QED
        BY <1>4, <1>8, <3>1, Zenon
    <2>4. IsSelection(m_uvm_argv', m_argv', UvmTexts)
      <3>1. IsSelection(IF s \in UvmTexts THEN Append(m_uvm_argv, s) ELSE m_uvm_argv,
                        Append(m_argv, s), UvmTexts)
        BY <1>6, <1>9, <2>2, SelectOneMore
      <3> QED
        BY <1>4, <1>8, <3>1, Zenon
    <2>5. /\ m_argv' \in Seq(ArgTexts) /\ Len(m_argv') = idx + 1
          /\ m_plus_argv' \in Seq(ArgTexts) /\ m_uvm_argv' \in Seq(ArgTexts)
      <3>1. \A z \in Seq(ArgTexts) : Append(z, s) \in Seq(ArgTexts) /\ Len(Append(z, s)) = Len(z) + 1
        BY <2>2, AppendProperties
      <3>2. m_argv' \in Seq(ArgTexts) /\ Len(m_argv') = idx + 1
        BY <1>4, <1>6, <1>8, <3>1
      <3>3. m_plus_argv' \in Seq(ArgTexts)
        BY <1>4, <1>6, <1>8, <3>1
      <3>4. m_uvm_argv' \in Seq(ArgTexts)
        BY <1>4, <1>6, <1>8, <3>1
      <3> QED
        BY <3>2, <3>3, <3>4
    <2>6. \A i \in 1 .. idx + 1 : m_argv'[i] = R[i] /\ m_argv'[i] # NoText
      <3>1. m_argv'[idx + 1] = s /\ \A i \in 1 .. idx : m_argv'[i] = m_argv[i]
        <4>1. /\ Append(m_argv, s)[Len(m_argv) + 1] = s
              /\ \A i \in 1 .. Len(m_argv) : Append(m_argv, s)[i] = m_argv[i]
          BY <1>6, <2>2, AppendProperties
        <4>2. m_argv' = Append(m_argv, s) /\ Len(m_argv) = idx
          BY <1>4, <1>6, <1>8
        <4> QED
          BY <4>1, <4>2, Zenon
      <3>2. \A i \in 1 .. idx + 1 : i \in 1 .. idx \/ i = idx + 1
        BY <2>1
      <3> QED
        BY <1>6, <1>8, <2>1, <3>1, <3>2
    <2>7. idx' \in 0 .. Len(R)
      BY <1>1, <2>1
    <2>8. Collected'
      BY <1>1, <1>5, <2>3, <2>4, <2>5, <2>6, <2>7 DEF Collected, R
    <2>9. Stored'
      BY <1>1, <1>2, <1>5, <2>8 DEF Stored, R
    <2> QED
      BY <1>1, <1>4, <1>8, <2>9 DEF CmdInv, Counting, Storing, NothingYet, Ended, ArgumentsCollected
  <1> QED
    BY <1>7, <1>8

LEMMA CmdStep == CmdInv /\ [CmdNext]_cmdVars => CmdInv'
  <1> SUFFICES ASSUME CmdInv, [CmdNext]_cmdVars PROVE CmdInv'
    OBVIOUS
  <1>1. CASE New
    BY <1>1, NewInv
  <1>2. CASE WalkArgument
    BY <1>2, WalkArgumentInv
  <1>3. CASE WalkReturn
    BY <1>3, WalkReturnInv
  <1>4. CASE Collect
    BY <1>4, CollectInv
  <1>5. CASE UNCHANGED cmdVars
    BY <1>5 DEF cmdVars, CmdInv, Counting, Storing, NothingYet, Stored, Collected, Ended,
                ArgumentsCollected
  <1> QED
    BY <1>1, <1>2, <1>3, <1>4, <1>5 DEF CmdNext

LEMMA CmdSpecInv == CmdSpec => []CmdInv
  BY CmdInit_Inv, CmdStep, PTL DEF CmdSpec

LEMMA InvFits == CmdInv => ArrayFits
  <1> SUFFICES ASSUME CmdInv PROVE ArrayFits
    OBVIOUS
  <1>1. /\ argv \in CommandLines /\ cmd \in {"idle", "count", "store", "hand_out"}
        /\ Counting /\ Storing /\ Stored /\ Ended
    BY DEF CmdInv
  <1>2. CASE cmd = "idle"
    BY <1>1, <1>2 DEF Ended, ArrayFits
  <1>3. CASE cmd = "count"
    <2>1. PICK pushed : Walking(argv, walk, pushed) /\ Len(pushed) = argc_total
      BY <1>1, <1>3 DEF Counting
    <2>2. Len(pushed) \in Nat
      BY <2>1, WalkFacts DEF Lists
    <2>3. argv_stack = <<>> /\ Len(<<>>) = 0
      BY <1>1, <1>3 DEF Counting
    <2> QED
      BY <1>3, <2>1, <2>2, <2>3 DEF ArrayFits
  <1>4. CASE cmd = "store"
    <2>1. PICK pushed : Walking(argv, walk, pushed) /\ TextsOf(pushed) = argv_stack
      BY <1>1, <1>4 DEF Storing
    <2>2. pushed \in Lists /\ Textual(pushed)
      BY <2>1, WalkFacts
    <2>3. Len(argv_stack) = Len(pushed)
      BY <2>1, <2>2, TextsAre
    <2>4. Len(pushed) <= Len(Inlinings(argv)[MaxFiles])
      BY <1>1, <2>1, WalkBounded
    <2>5. argc_total = Len(Inlinings(argv)[MaxFiles])
      BY <1>1, <1>4, ReadingIs DEF Storing
    <2> QED
      BY <1>4, <2>3, <2>4, <2>5 DEF ArrayFits
  <1>5. CASE cmd = "hand_out"
    <2>1. argv_stack = Reading(argv) /\ argc_total = Len(Reading(argv))
      BY <1>1, <1>5 DEF Stored
    <2>2. Len(Reading(argv)) \in Nat
      BY <1>1, ReadingIs
    <2> QED
      BY <2>1, <2>2 DEF ArrayFits
  <1> QED
    BY <1>1, <1>2, <1>3, <1>4, <1>5

(* Whatever the command line, and however often a processor is built, the  *)
(* second walk stores no more arguments than the first one counted, and by *)
(* its end exactly as many: the array of push_data is neither overrun nor  *)
(* read where nothing was stored.                                          *)
THEOREM ArrayHolds == CmdSpec => []ArrayFits
  BY CmdSpecInv, InvFits, PTL

(* A constructed processor has every argument of every file, in the order  *)
(* in which one would read them replacing each file by what is in it, up   *)
(* to an empty one, and its plus and UVM arguments are those of them that  *)
(* begin with "+", and with "+UVM" or "-UVM".                              *)
THEOREM CollectsTheReading == CmdSpec => []ArgumentsCollected
  <1>1. CmdInv => ArgumentsCollected
    BY DEF CmdInv
  <1> QED
    BY <1>1, CmdSpecInv, PTL

=============================================================================
