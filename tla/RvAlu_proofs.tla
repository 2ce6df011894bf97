---------------------------- MODULE RvAlu_proofs -----------------------------
(***************************************************************************)
(* Theorems about the combinational units.  For words of any width whose   *)
(* shift amounts are as wide as RV32I has them, the ALU and the branch     *)
(* comparator compute what the reference says bit by bit; the immediate    *)
(* generator gathers the immediate of every instruction word.              *)
(***************************************************************************)
EXTENDS MCRvAlu, SequenceTheorems, WellFoundedInduction, TLAPS

-----------------------------------------------------------------------------
(* Induction over the naturals, as a least counterexample.                 *)
LEMMA LeastNat ==
  ASSUME NEW T, T \subseteq Nat, T # {} PROVE \E x \in T : \A y \in T : x <= y
  <1> DEFINE R == OpToRel(<, Nat)
  <1>1. IsWellFoundedOn(R, Nat)
    BY NatLessThanWellFounded
  <1>2. \A x, y \in Nat : x < y => <<x, y>> \in R
    BY DEF OpToRel
  <1> HIDE DEF R
  <1>3. PICK x \in T : \A y \in T : ~(<<y, x>> \in R)
    BY <1>1, WFMin
  <1>4. ASSUME NEW y \in T PROVE x <= y
    <2>1. ~(y < x)
      BY <1>2, <1>3
    <2> QED
      BY <2>1
  <1> QED
    BY <1>4

LEMMA UpTo ==
  ASSUME NEW a \in Nat, NEW N \in Nat, NEW T, a \in T,
         \A k \in a .. N : k \in T /\ k < N => k + 1 \in T
  PROVE  \A k \in a .. N : k \in T
  <1> DEFINE Out == {k \in a .. N : k \notin T}
  <1> SUFFICES ASSUME Out # {} PROVE FALSE
    OBVIOUS
  <1>0. Out \subseteq Nat
    OBVIOUS
  <1>1. PICK k \in Out : \A m \in Out : k <= m
    <2> HIDE DEF Out
    <2> QED
      BY <1>0, LeastNat
  <1>2. k # a /\ k \in a .. N /\ k \notin T
    OBVIOUS
  <1>3. k - 1 \in a .. N /\ k - 1 \notin Out /\ (k - 1) + 1 = k /\ k - 1 < N
    BY <1>1, <1>2
  <1> QED
    BY <1>2, <1>3

-----------------------------------------------------------------------------
(* Quotients and remainders.                                               *)
LEMMA Division ==
  ASSUME NEW b \in Nat \ {0}, NEW x \in Int
  PROVE  /\ x \div b \in Int /\ x % b \in 0 .. b - 1
         /\ x = b * (x \div b) + (x % b)
  OBVIOUS

LEMMA Quotient ==
  ASSUME NEW b \in Nat \ {0}, NEW q \in Int, NEW r \in Nat, r < b
  PROVE  (b * q + r) \div b = q /\ (b * q + r) % b = r
  OBVIOUS

LEMMA NatQuotient ==
  ASSUME NEW b \in Nat \ {0}, NEW x \in Nat
  PROVE  x \div b \in Nat
  OBVIOUS

LEMMA TimesMonotone ==
  ASSUME NEW a \in Nat, NEW x \in Int, NEW y \in Int, x <= y
  PROVE  a * x <= a * y
  OBVIOUS

LEMMA NestedQuotient ==
  ASSUME NEW a \in Nat \ {0}, NEW b \in Nat \ {0}, NEW x \in Int
  PROVE  (x \div a) \div b = x \div (a * b)
  <1> DEFINE q == x \div a
             r == x % a
             p == q \div b
             t == q % b
             c == a * b
  <1>1. q \in Int /\ r \in 0 .. a - 1 /\ x = a * q + r
    BY Division
  <1>2. p \in Int /\ t \in 0 .. b - 1 /\ q = b * p + t
    <2> HIDE DEF q
    <2> QED
      BY <1>1, Division
  <1> HIDE DEF q, r, p, t
  <1>3. a * t \in Nat /\ a * t <= a * (b - 1) /\ a * (b - 1) = a * b - a
    BY <1>2, TimesMonotone
  <1>4. c \in Nat \ {0}
    OBVIOUS
  <1>5. a * t + r \in Nat /\ a * t + r < c
    BY <1>1, <1>3, <1>4
  <1>6. x = c * p + (a * t + r)
    BY <1>1, <1>2
  <1>7. x \div c = p
    <2> DEFINE m == a * t + r
    <2> HIDE DEF c, m
    <2>1. m \in Nat /\ m < c /\ x = c * p + m
      BY <1>5, <1>6 DEF m
    <2> QED
      BY <1>2, <1>4, <2>1, Quotient
  <1> QED
    BY <1>7 DEF p, q

-----------------------------------------------------------------------------
(* The powers of two.                                                      *)
Top == DW + ShiftBits

LEMMA TopIs == Top \in Nat /\ DW \in Nat /\ DW >= 1 /\ DW <= Top /\ ShiftBits <= Top /\ DW < Top
  BY WidthsAssumption DEF Top

LEMMA PowersExist ==
  \E f : f = [n \in 0 .. Top |-> IF n = 0 THEN 1 ELSE 2 * f[n - 1]]
  <1> DEFINE Powers(n, f) == /\ f \in [0 .. n -> Nat] /\ f[0] = 1
                             /\ \A j \in 1 .. n : f[j] = 2 * f[j - 1]
             T == {n \in 0 .. Top : \E f : Powers(n, f)}
  <1>1. ASSUME NEW n \in Nat, NEW f, Powers(n, f) PROVE \E g : Powers(n + 1, g)
    <2> DEFINE g == [j \in 0 .. n + 1 |-> IF j = n + 1 THEN 2 * f[n] ELSE f[j]]
    <2>1. f \in [0 .. n -> Nat] /\ n \in 0 .. n /\ 2 * f[n] \in Nat
      BY <1>1
    <2>2. g \in [0 .. n + 1 -> Nat] /\ g[0] = 1
      BY <1>1, <2>1
    <2>3. ASSUME NEW j \in 1 .. n + 1 PROVE g[j] = 2 * g[j - 1]
      <3>1. j - 1 \in 0 .. n + 1 /\ j \in 0 .. n + 1 /\ j - 1 # n + 1 /\ (j # n + 1 => j \in 1 .. n)
            /\ (j = n + 1 => j - 1 = n)
        OBVIOUS
      <3>2. g[j - 1] = f[j - 1]
        BY <3>1
      <3>3. g[j] = IF j = n + 1 THEN 2 * f[n] ELSE f[j]
        BY <3>1
      <3> HIDE DEF g
      <3>4. j \in 1 .. n => f[j] = 2 * f[j - 1]
        BY <1>1
      <3> QED
        BY <3>1, <3>2, <3>3, <3>4
    <2> QED
      BY <2>2, <2>3
  <1>2. Powers(0, [j \in 0 .. 0 |-> 1])
    OBVIOUS
  <1>3. PICK f : Powers(Top, f)
    <2> HIDE DEF Powers
    <2>1. 0 \in T
      BY <1>2, TopIs
    <2>2. \A k \in 0 .. Top : k \in T /\ k < Top => k + 1 \in T
      BY <1>1, TopIs
    <2> HIDE DEF T
    <2>3. \A k \in 0 .. Top : k \in T
      BY <2>1, <2>2, TopIs, UpTo
    <2>4. Top \in T
      BY <2>3, TopIs
    <2> QED
      BY <2>4 DEF T
  <1>4. f = [n \in 0 .. Top |-> IF n = 0 THEN 1 ELSE 2 * f[n - 1]]
    BY <1>3, TopIs
  <1> QED
    BY <1>4

LEMMA PowerSteps ==
  Pow2[0] = 1 /\ \A n \in 0 .. Top - 1 : Pow2[n + 1] = 2 * Pow2[n]
  <1> DEFINE f == CHOOSE f : f = [n \in 0 .. Top |-> IF n = 0 THEN 1 ELSE 2 * f[n - 1]]
  <1>1. f = [n \in 0 .. Top |-> IF n = 0 THEN 1 ELSE 2 * f[n - 1]]
    BY PowersExist
  <1>2. Pow2 = f
    BY DEF Pow2, Top
  <1> HIDE DEF f
  <1>3. f[0] = 1 /\ \A n \in 0 .. Top - 1 : f[n + 1] = 2 * f[n]
    BY <1>1, TopIs
  <1> QED
    BY <1>2, <1>3

LEMMA PowerNat == \A n \in 0 .. Top : Pow2[n] \in Nat \ {0}
  <1> DEFINE T == {n \in 0 .. Top : Pow2[n] \in Nat \ {0}}
  <1>1. 0 \in T
    BY PowerSteps, TopIs
  <1>2. \A n \in 0 .. Top : n \in T /\ n < Top => n + 1 \in T
    BY PowerSteps, TopIs
  <1> HIDE DEF T
  <1>3. \A n \in 0 .. Top : n \in T
    BY <1>1, <1>2, TopIs, UpTo
  <1> QED
    BY <1>3 DEF T

LEMMA PowerSum ==
  ASSUME NEW a \in Nat, NEW b \in Nat, a + b <= Top
  PROVE  Pow2[a + b] = Pow2[a] * Pow2[b]
  <1> DEFINE N == Top - a
             T == {n \in 0 .. N : Pow2[a + n] = Pow2[a] * Pow2[n]}
  <1>0. N \in Nat /\ a \in 0 .. Top /\ Pow2[a] \in Nat /\ b \in 0 .. N
    BY TopIs, PowerNat
  <1>1. 0 \in T
    BY <1>0, PowerSteps
  <1>2. ASSUME NEW n \in 0 .. N, n \in T, n < N PROVE n + 1 \in T
    <2>1. /\ a + n \in 0 .. Top - 1 /\ n \in 0 .. Top - 1 /\ a + (n + 1) = (a + n) + 1
          /\ n \in 0 .. Top /\ n + 1 \in 0 .. N
      BY <1>0, <1>2, TopIs
    <2>2. Pow2[a + (n + 1)] = 2 * Pow2[a + n] /\ Pow2[n + 1] = 2 * Pow2[n]
      BY <2>1, PowerSteps
    <2>3. Pow2[n] \in Nat /\ Pow2[a + n] = Pow2[a] * Pow2[n]
      BY <1>2, <2>1, PowerNat
    <2>4. 2 * (Pow2[a] * Pow2[n]) = Pow2[a] * (2 * Pow2[n])
      BY <1>0, <2>3
    <2> QED
      BY <2>1, <2>2, <2>3, <2>4
  <1> HIDE DEF T, N
  <1>3. \A n \in 0 .. N : n \in T
    BY <1>0, <1>1, <1>2, UpTo
  <1> QED
    BY <1>0, <1>3 DEF T

LEMMA PowerGrows ==
  ASSUME NEW a \in Nat, NEW b \in Nat, a <= b, b <= Top
  PROVE  Pow2[a] <= Pow2[b]
  <1>1. b - a \in 0 .. Top /\ a \in 0 .. Top /\ b - a \in Nat /\ a + (b - a) = b
    BY TopIs
  <1> DEFINE p == Pow2[a]
             q == Pow2[b - a]
  <1>2. p \in Nat \ {0} /\ q \in Nat \ {0}
    BY <1>1, PowerNat
  <1>3. Pow2[b] = p * q
    BY <1>1, PowerSum
  <1> HIDE DEF p, q
  <1>4. p * 1 <= p * q
    BY <1>2, TimesMonotone
  <1> QED
    BY <1>2, <1>3, <1>4 DEF p

-----------------------------------------------------------------------------
(* The bits of a number, which may be negative or longer than a word.      *)
LEMMA BitIs ==
  ASSUME NEW x \in Int, NEW i \in 0 .. Top
  PROVE  /\ x \div Pow2[i] \in Int
         /\ Bit(x, i) \in {0, 1}
  <1>1. Pow2[i] \in Nat \ {0}
    BY PowerNat
  <1> DEFINE q == x \div Pow2[i]
  <1>2. q \in Int
    BY <1>1, Division
  <1>3. q % 2 \in {0, 1}
    <2> HIDE DEF q
    <2> QED
      BY <1>2
  <1> QED
    BY <1>2, <1>3 DEF Bit

LEMMA Halves ==
  ASSUME NEW x \in Int, NEW i \in 0 .. Top - 1
  PROVE  x \div Pow2[i] = 2 * (x \div Pow2[i + 1]) + Bit(x, i)
  <1> DEFINE a == Pow2[i]
             q == x \div a
  <1>0. i \in 0 .. Top
    BY TopIs
  <1>1. a \in Nat \ {0} /\ Pow2[i + 1] = a * 2
    BY <1>0, PowerSteps, PowerNat
  <1> HIDE DEF a
  <1>2. q \div 2 = x \div (a * 2)
    <2>1. \A b \in Nat \ {0} : (x \div a) \div b = x \div (a * b)
      BY <1>1, NestedQuotient
    <2>2. 2 \in Nat \ {0}
      OBVIOUS
    <2> QED
      BY <2>1, <2>2, Zenon
  <1>3. q \in Int
    BY <1>1, Division
  <1> HIDE DEF q
  <1>4. q = 2 * (q \div 2) + (q % 2)
    BY <1>3
  <1>5. q = 2 * (x \div Pow2[i + 1]) + (q % 2)
    BY <1>1, <1>2, <1>4, Zenon
  <1> QED
    BY <1>5, Zenon DEF q, a, Bit

LEMMA BitOfQuotient ==
  ASSUME NEW x \in Int, NEW a \in Nat, NEW i \in Nat, a + i <= Top
  PROVE  /\ (x \div Pow2[a]) \div Pow2[i] = x \div Pow2[a + i]
         /\ Bit(x \div Pow2[a], i) = Bit(x, a + i)
  <1>1. a \in 0 .. Top /\ i \in 0 .. Top
    BY TopIs
  <1>2. Pow2[a] \in Nat \ {0} /\ Pow2[i] \in Nat \ {0} /\ Pow2[a + i] = Pow2[a] * Pow2[i]
    BY <1>1, PowerNat, PowerSum
  <1>3. (x \div Pow2[a]) \div Pow2[i] = x \div Pow2[a + i]
    BY <1>2, NestedQuotient
  <1> QED
    BY <1>3, Zenon DEF Bit

(* A number c above the m low bits of y.                                   *)
LEMMA BitsBelow ==
  ASSUME NEW m \in 0 .. Top, NEW c \in Int, NEW y \in 0 .. Pow2[m] - 1, NEW i \in 0 .. m - 1
  PROVE  Bit(Pow2[m] * c + y, i) = Bit(y, i)
  <1>0. i \in 0 .. Top /\ m - i - 1 \in 0 .. Top - 1 /\ i \in Nat /\ m - i \in 0 .. Top /\ i + (m - i) = m
        /\ (m - i - 1) + 1 = m - i /\ m - i - 1 \in 0 .. Top /\ m - i \in Nat /\ m <= Top
    BY TopIs
  <1> DEFINE p == Pow2[i]
             h == Pow2[m - i - 1]
             q == y \div p
             r == y % p
  <1>1. p \in Nat \ {0} /\ h \in Nat \ {0} /\ Pow2[m - i] = 2 * h /\ Pow2[m] \in Nat
    BY <1>0, PowerNat, PowerSteps
  <1>2. Pow2[m] = p * (2 * h)
    <2>1. Pow2[i + (m - i)] = Pow2[i] * Pow2[m - i]
      BY <1>0, PowerSum
    <2> QED
      BY <1>0, <1>1, <2>1
  <1>3. y \in Int
    BY <1>1
  <1> HIDE DEF p, h
  <1>4. q \in Int /\ r \in 0 .. p - 1 /\ y = p * q + r
    BY <1>1, <1>3, Division
  <1> HIDE DEF q, r
  <1>5. Pow2[m] * c + y = p * (2 * (h * c) + q) + r
    <2>1. (p * (2 * h)) * c = p * (2 * (h * c))
      BY <1>1
    <2> DEFINE k == 2 * (h * c)
    <2>2. k \in Int
      BY <1>1
    <2> HIDE DEF k
    <2>3. p * k + (p * q + r) = p * (k + q) + r
      BY <1>1, <1>4, <2>2
    <2> QED
      BY <1>2, <1>4, <2>1, <2>3 DEF k
  <1> DEFINE k == h * c
  <1>6. k \in Int
    BY <1>1
  <1> HIDE DEF k
  <1>7. (p * (2 * k + q) + r) \div p = 2 * k + q
    <2> DEFINE n == 2 * k + q
    <2>1. n \in Int /\ r \in Nat /\ r < p
      BY <1>1, <1>4, <1>6
    <2> HIDE DEF n
    <2>2. (p * n + r) \div p = n
      BY <1>1, <2>1, Quotient
    <2> QED
      BY <2>2 DEF n
  <1>8. (2 * k + q) % 2 = q % 2
    BY <1>4, <1>6
  <1>9. Bit(Pow2[m] * c + y, i) = (2 * k + q) % 2
    BY <1>5, <1>7 DEF Bit, p, k
  <1> QED
    BY <1>8, <1>9 DEF Bit, q, p

LEMMA BitsAbove ==
  ASSUME NEW m \in Nat, NEW j \in Nat, m + j <= Top, NEW c \in Int, NEW y \in 0 .. Pow2[m] - 1
  PROVE  Bit(Pow2[m] * c + y, m + j) = Bit(c, j)
  <1>0. m \in 0 .. Top
    BY TopIs
  <1> DEFINE p == Pow2[m]
             z == p * c + y
  <1>1. p \in Nat \ {0}
    BY <1>0, PowerNat
  <1>2. y \in Nat /\ y < p
    BY <1>1
  <1> HIDE DEF p
  <1>3. z \div p = c /\ z \in Int
    <2>1. (p * c + y) \div p = c
      BY <1>1, <1>2, Quotient
    <2>2. p * c + y \in Int
      BY <1>1, <1>2
    <2> QED
      BY <2>1, <2>2, Zenon
  <1> HIDE DEF z
  <1>4. Bit(z \div p, j) = Bit(z, m + j)
    BY <1>3, BitOfQuotient DEF p
  <1>5. Bit(z, m + j) = Bit(c, j)
    BY <1>3, <1>4
  <1> QED
    BY <1>5 DEF z, p

(* A number has no bits beyond its width.                                  *)
LEMMA Beyond ==
  ASSUME NEW m \in 0 .. Top, NEW x \in 0 .. Pow2[m] - 1, NEW n \in m .. Top
  PROVE  x \div Pow2[n] = 0 /\ Bit(x, n) = 0
  <1>1. m \in Nat /\ n \in 0 .. Top /\ n \in Nat /\ m <= n /\ n <= Top
    BY TopIs
  <1> DEFINE p == Pow2[n]
  <1>2. Pow2[m] \in Nat \ {0} /\ p \in Nat \ {0} /\ Pow2[m] <= p
    BY <1>1, PowerNat, PowerGrows
  <1> HIDE DEF p
  <1>3. x \in Nat /\ x < p
    BY <1>2
  <1>4. x = p * 0 + x
    BY <1>2, <1>3
  <1>5. (p * 0 + x) \div p = 0
    BY <1>2, <1>3, Quotient
  <1>6. x \div p = 0
    BY <1>4, <1>5
  <1>7. (x \div p) % 2 = 0
    BY <1>6
  <1> QED
    BY <1>6, <1>7 DEF p, Bit

LEMMA BeyondWord ==
  ASSUME NEW x \in AluWord, NEW n \in DW .. Top
  PROVE  x \div Pow2[n] = 0 /\ Bit(x, n) = 0
  BY Beyond, TopIs DEF AluWord

-----------------------------------------------------------------------------
(* The word with given ones.                                               *)
LEMMA OfOnesExist ==
  ASSUME NEW S
  PROVE  \E f : f = [n \in 0 .. DW |->
                       IF n = 0 THEN 0
                       ELSE f[n - 1] + (IF n - 1 \in S THEN Pow2[n - 1] ELSE 0)]
  <1> DEFINE v(n) == IF n \in S THEN Pow2[n] ELSE 0
             Sums(n, f) == /\ DOMAIN f = 0 .. n /\ f[0] = 0 /\ f = [j \in 0 .. n |-> f[j]]
                           /\ \A j \in 1 .. n : f[j] = f[j - 1] + v(j - 1)
             T == {n \in 0 .. DW : \E f : Sums(n, f)}
  <1> HIDE DEF v
  <1>1. ASSUME NEW n \in Nat, NEW f, Sums(n, f) PROVE \E g : Sums(n + 1, g)
    <2> DEFINE g == [j \in 0 .. n + 1 |-> IF j = n + 1 THEN f[n] + v(n) ELSE f[j]]
    <2>1. DOMAIN g = 0 .. n + 1 /\ g = [j \in 0 .. n + 1 |-> g[j]]
      OBVIOUS
    <2>2. g[0] = 0
      BY <1>1
    <2>3. ASSUME NEW j \in 1 .. n + 1 PROVE g[j] = g[j - 1] + v(j - 1)
      <3>1. j - 1 \in 0 .. n + 1 /\ j \in 0 .. n + 1 /\ j - 1 # n + 1 /\ (j # n + 1 => j \in 1 .. n)
            /\ (j = n + 1 => j - 1 = n)
        OBVIOUS
      <3>2. g[j - 1] = f[j - 1]
        BY <3>1
      <3>3. g[j] = IF j = n + 1 THEN f[n] + v(n) ELSE f[j]
        BY <3>1
      <3> HIDE DEF g
      <3>4. j \in 1 .. n => f[j] = f[j - 1] + v(j - 1)
        BY <1>1
      <3> QED
        BY <3>1, <3>2, <3>3, <3>4
    <2> HIDE DEF g
    <2>4. Sums(n + 1, g)
      BY <2>1, <2>2, <2>3
    <2> QED
      BY <2>4
  <1>2. Sums(0, [j \in 0 .. 0 |-> 0])
    OBVIOUS
  <1>3. PICK f : Sums(DW, f)
    <2> HIDE DEF Sums
    <2>1. 0 \in T
      BY <1>2, TopIs
    <2>2. \A k \in 0 .. DW : k \in T /\ k < DW => k + 1 \in T
      BY <1>1, TopIs
    <2> HIDE DEF T
    <2>3. \A k \in 0 .. DW : k \in T
      BY <2>1, <2>2, TopIs, UpTo
    <2>4. DW \in T
      BY <2>3, TopIs
    <2> QED
      BY <2>4 DEF T
  <1>4. f = [n \in 0 .. DW |-> IF n = 0 THEN 0 ELSE f[n - 1] + v(n - 1)]
    <2>1. f = [n \in 0 .. DW |-> f[n]]
      BY <1>3
    <2>2. ASSUME NEW n \in 0 .. DW PROVE f[n] = IF n = 0 THEN 0 ELSE f[n - 1] + v(n - 1)
      <3>1. f[0] = 0 /\ \A j \in 1 .. DW : f[j] = f[j - 1] + v(j - 1)
        BY <1>3
      <3>2. n = 0 \/ (n # 0 /\ n \in 1 .. DW)
        BY TopIs
      <3> QED
        BY <3>1, <3>2
    <2> DEFINE w(n) == IF n = 0 THEN 0 ELSE f[n - 1] + v(n - 1)
    <2>3. \A n \in 0 .. DW : f[n] = w(n)
      BY <2>2
    <2> HIDE DEF w
    <2>4. f = [n \in 0 .. DW |-> w(n)]
      BY <2>1, <2>3
    <2> QED
      BY <2>4 DEF w
  <1> QED
    BY <1>4 DEF v

LEMMA OfOnesIs ==
  ASSUME NEW S
  PROVE  /\ OfOnes(S) \in AluWord
         /\ \A i \in Bits : Bit(OfOnes(S), i) = IF i \in S THEN 1 ELSE 0
  <1> DEFINE f == CHOOSE f : f = [n \in 0 .. DW |->
                       IF n = 0 THEN 0
                       ELSE f[n - 1] + (IF n - 1 \in S THEN Pow2[n - 1] ELSE 0)]
             good(n) == /\ f[n] \in 0 .. Pow2[n] - 1
                        /\ \A i \in 0 .. n - 1 : Bit(f[n], i) = IF i \in S THEN 1 ELSE 0
             T == {n \in 0 .. DW : good(n)}
  <1>1. f = [n \in 0 .. DW |-> IF n = 0 THEN 0
                               ELSE f[n - 1] + (IF n - 1 \in S THEN Pow2[n - 1] ELSE 0)]
    BY OfOnesExist
  <1>2. OfOnes(S) = f[DW]
    BY DEF OfOnes
  <1> HIDE DEF f
  <1>3. f[0] = 0 /\ \A n \in 0 .. DW - 1 : f[n + 1] = f[n] + (IF n \in S THEN Pow2[n] ELSE 0)
    <2> DEFINE v(n) == IF n \in S THEN Pow2[n] ELSE 0
               w(n) == IF n = 0 THEN 0 ELSE f[n - 1] + v(n - 1)
    <2>1. f = [n \in 0 .. DW |-> w(n)]
      BY <1>1
    <2> HIDE DEF w
    <2>2. \A n \in 0 .. DW : f[n] = w(n)
      BY <2>1
    <2>3. w(0) = 0 /\ \A n \in 0 .. DW - 1 : w(n + 1) = f[n] + v(n)
      <3> HIDE DEF v
      <3>1. \A n \in 0 .. DW - 1 : n + 1 # 0 /\ (n + 1) - 1 = n
        BY TopIs
      <3> QED
        BY <3>1 DEF w
    <2>4. f[0] = 0 /\ \A n \in 0 .. DW - 1 : f[n + 1] = f[n] + v(n)
      <3> HIDE DEF v
      <3> QED
        BY <2>2, <2>3, TopIs
    <2> QED
      BY <2>4
  <1>4. good(0)
    BY <1>3, PowerSteps
  <1>5. ASSUME NEW n \in 0 .. DW, good(n), n < DW PROVE good(n + 1)
    <2> DEFINE c == IF n \in S THEN 1 ELSE 0
               p == Pow2[n]
               y == f[n]
    <2>0. n \in 0 .. Top - 1 /\ n \in 0 .. Top /\ n + 1 \in 0 .. Top /\ n \in 0 .. DW - 1 /\ n \in Nat
          /\ n + 0 = n
      BY <1>5, TopIs
    <2>1. p \in Nat \ {0} /\ Pow2[n + 1] = 2 * p /\ y \in 0 .. p - 1 /\ c \in {0, 1}
      BY <1>5, <2>0, PowerSteps, PowerNat
    <2>2. f[n + 1] = p * c + y
      <3>1. f[n + 1] = y + (IF n \in S THEN p ELSE 0)
        BY <1>3, <2>0
      <3> HIDE DEF p, y
      <3>2. CASE n \in S
        BY <2>1, <3>1, <3>2
      <3>3. CASE n \notin S
        BY <2>1, <3>1, <3>3
      <3> QED
        BY <3>2, <3>3
    <2>3. f[n + 1] \in 0 .. Pow2[n + 1] - 1
      <3> HIDE DEF c, p, y
      <3>1. p * c \in Nat /\ p * c <= p
        <4>1. c = 0 \/ c = 1
          BY <2>1
        <4> QED
          BY <2>1, <4>1
      <3> QED
        BY <2>1, <2>2, <3>1
    <2>4. Bit(f[n + 1], n) = c
      <3>1. Bit(p * c + y, n + 0) = Bit(c, 0)
        <4>1. c \in Int /\ y \in 0 .. Pow2[n] - 1 /\ 0 \in Nat /\ n + 0 <= Top
          BY <2>0, <2>1, TopIs
        <4> HIDE DEF c, y
        <4> QED
          BY <2>0, <4>1, BitsAbove
      <3>2. Bit(c, 0) = c
        <4> HIDE DEF c
        <4>1. (c \div 1) % 2 = c
          BY <2>1
        <4> QED
          BY <4>1, PowerSteps DEF Bit
      <3> QED
        BY <2>0, <2>2, <3>1, <3>2
    <2>5. \A i \in 0 .. n - 1 : Bit(f[n + 1], i) = Bit(y, i)
      <3>1. c \in Int /\ y \in 0 .. Pow2[n] - 1
        BY <2>1
      <3> HIDE DEF c, y
      <3>2. \A i \in 0 .. n - 1 : Bit(p * c + y, i) = Bit(y, i)
        BY <2>0, <3>1, BitsBelow
      <3> QED
        BY <2>2, <3>2
    <2>6. \A i \in 0 .. n : Bit(f[n + 1], i) = IF i \in S THEN 1 ELSE 0
      <3>1. \A i \in 0 .. n : i = n \/ i \in 0 .. n - 1
        BY <2>0
      <3> QED
        BY <1>5, <2>4, <2>5, <3>1
    <2> QED
      BY <2>0, <2>3, <2>6
  <1>6. \A n \in 0 .. DW : n \in T
    <2> HIDE DEF good
    <2>1. 0 \in T
      BY <1>4, TopIs
    <2>2. \A n \in 0 .. DW : n \in T /\ n < DW => n + 1 \in T
      BY <1>5, TopIs
    <2> HIDE DEF T
    <2> QED
      BY <2>1, <2>2, TopIs, UpTo
  <1>7. good(DW)
    <2> HIDE DEF good
    <2> QED
      BY <1>6, TopIs
  <1> QED
    BY <1>2, <1>7 DEF AluWord, Bits

-----------------------------------------------------------------------------
(* Comparing words is comparing bits.                                      *)
LEMMA WordIs ==
  ASSUME NEW x \in AluWord
  PROVE  x \in Nat /\ x \in Int /\ x < Pow2[DW]
  <1>1. Pow2[DW] \in Nat
    BY PowerNat, TopIs
  <1> QED
    BY <1>1 DEF AluWord

LEMMA LeastQuotient ==
  ASSUME NEW x \in Int PROVE x \div Pow2[0] = x
  <1>1. x \div 1 = x
    OBVIOUS
  <1> QED
    BY <1>1, PowerSteps

LEMMA LessIsBelow ==
  ASSUME NEW x \in AluWord, NEW y \in AluWord, x < y PROVE Below(x, y)
  <1> DEFINE T == {n \in 0 .. DW : x \div Pow2[n] = y \div Pow2[n]}
  <1>0. x \in Int /\ y \in Int
    BY WordIs
  <1>1. DW \in T
    BY BeyondWord, TopIs
  <1>2. PICK n \in T : \A m \in T : n <= m
    <2>1. T \subseteq Nat /\ T # {}
      BY <1>1, TopIs
    <2> HIDE DEF T
    <2> QED
      BY <2>1, LeastNat
  <1>3. n # 0
    BY <1>0, LeastQuotient, <1>2
  <1> DEFINE i == n - 1
             q == x \div Pow2[i]
             r == y \div Pow2[i]
             h == x \div Pow2[n]
  <1>4. n \in 1 .. DW /\ i \in Bits /\ i \in 0 .. Top - 1 /\ i \in 0 .. Top /\ i + 1 = n /\ n \in 0 .. Top
        /\ i \in 0 .. DW /\ i < n /\ i \in Nat
    BY <1>2, <1>3, TopIs DEF Bits
  <1>5. q = 2 * h + Bit(x, i) /\ r = 2 * h + Bit(y, i)
    <2>1. q = 2 * (x \div Pow2[i + 1]) + Bit(x, i) /\ r = 2 * (y \div Pow2[i + 1]) + Bit(y, i)
      BY <1>0, <1>4, Halves
    <2>2. x \div Pow2[n] = y \div Pow2[n]
      BY <1>2
    <2> QED
      BY <1>4, <2>1, <2>2
  <1>6. q # r
    <2>1. i \notin T
      BY <1>2, <1>4
    <2> QED
      BY <1>4, <2>1
  <1>7. q <= r
    <2>1. Pow2[i] \in Nat \ {0}
      BY <1>4, PowerNat
    <2> QED
      BY <1>0, <2>1
  <1>8. Bit(x, i) \in {0, 1} /\ Bit(y, i) \in {0, 1} /\ h \in Int /\ q \in Int /\ r \in Int
    BY <1>0, <1>4, BitIs
  <1>9. Bit(x, i) < Bit(y, i)
    <2> HIDE DEF q, r, h, i
    <2> QED
      BY <1>5, <1>6, <1>7, <1>8
  <1>10. ASSUME NEW j \in Bits, j > i PROVE Bit(x, j) = Bit(y, j)
    <2>1. n \in Nat /\ j - n \in Nat /\ n + (j - n) = j /\ n + (j - n) <= Top
      BY <1>4, <1>10, TopIs DEF Bits
    <2>2. Bit(x, n + (j - n)) = Bit(x \div Pow2[n], j - n)
          /\ Bit(y, n + (j - n)) = Bit(y \div Pow2[n], j - n)
      BY <1>0, <2>1, BitOfQuotient
    <2>3. x \div Pow2[n] = y \div Pow2[n]
      BY <1>2
    <2> QED
      BY <2>1, <2>2, <2>3
  <1> HIDE DEF i
  <1> QED
    BY <1>4, <1>9, <1>10 DEF Below

LEMMA BelowIsLess ==
  ASSUME NEW x \in AluWord, NEW y \in AluWord, Below(x, y) PROVE x < y
  <1>0. x \in Int /\ y \in Int
    BY WordIs
  <1>1. PICK i \in Bits : /\ Bit(x, i) < Bit(y, i)
                          /\ \A j \in Bits : j > i => Bit(x, j) = Bit(y, j)
    BY DEF Below
  <1>2. i \in Nat /\ i + 1 \in 1 .. DW /\ i \in 0 .. Top - 1 /\ i \in 0 .. Top /\ i + 1 \in Nat
    BY TopIs DEF Bits
  <1> DEFINE same(n) == x \div Pow2[n] = y \div Pow2[n]
             N == DW - (i + 1)
             T == {k \in 0 .. N : same(DW - k)}
  <1>3. same(i + 1)
    <2>1. N \in Nat /\ DW - N = i + 1
      BY <1>2, TopIs
    <2>2. same(DW)
      BY BeyondWord, TopIs
    <2>3. ASSUME NEW k \in 0 .. N, same(DW - k), k < N PROVE same(DW - (k + 1))
      <3> DEFINE j == DW - (k + 1)
      <3>1. j \in Bits /\ j > i /\ j \in 0 .. Top - 1 /\ DW - k = j + 1
        BY <1>2, <2>3, TopIs DEF Bits
      <3>2. Bit(x, j) = Bit(y, j) /\ same(j + 1)
        BY <1>1, <2>3, <3>1
      <3> HIDE DEF j
      <3>3. x \div Pow2[j] = 2 * (x \div Pow2[j + 1]) + Bit(x, j)
            /\ y \div Pow2[j] = 2 * (y \div Pow2[j + 1]) + Bit(y, j)
        BY <1>0, <3>1, Halves
      <3>4. same(j)
        BY <3>2, <3>3
      <3> QED
        BY <3>4 DEF j
    <2>4. \A k \in 0 .. N : k \in T
      <3> HIDE DEF same
      <3>1. 0 \in T
        BY <2>1, <2>2, TopIs
      <3>2. \A k \in 0 .. N : k \in T /\ k < N => k + 1 \in T
        BY <2>1, <2>3
      <3> HIDE DEF T, N
      <3> QED
        BY <2>1, <3>1, <3>2, UpTo
    <2>5. N \in T
      <3> HIDE DEF T, N
      <3> QED
        BY <2>1, <2>4
    <2> HIDE DEF same, N
    <2> QED
      BY <2>1, <2>5
  <1>4. x \div Pow2[i] = 2 * (x \div Pow2[i + 1]) + Bit(x, i)
        /\ y \div Pow2[i] = 2 * (y \div Pow2[i + 1]) + Bit(y, i)
    BY <1>0, <1>2, Halves
  <1> DEFINE q == x \div Pow2[i]
             r == y \div Pow2[i]
             p == Pow2[i]
  <1>5. p \in Nat \ {0} /\ q \in Int /\ r \in Int
    BY <1>0, <1>2, PowerNat, BitIs
  <1>6. q < r
    <2> DEFINE h == x \div Pow2[i + 1]
    <2>1. h \in Int /\ Bit(x, i) \in {0, 1} /\ Bit(y, i) \in {0, 1}
      BY <1>0, <1>2, TopIs, BitIs
    <2>2. q = 2 * h + Bit(x, i) /\ r = 2 * h + Bit(y, i)
      BY <1>3, <1>4
    <2> HIDE DEF q, r, h
    <2> QED
      BY <1>1, <1>5, <2>1, <2>2
  <1>7. x < p * (q + 1) /\ p * r <= y
    <2>1. x = p * q + (x % p) /\ x % p \in 0 .. p - 1 /\ y = p * r + (y % p) /\ y % p \in 0 .. p - 1
      BY <1>0, <1>5, Division
    <2>2. p * (q + 1) = p * q + p /\ p * q \in Int /\ p * r \in Int
      BY <1>5
    <2> HIDE DEF p, q, r
    <2> QED
      BY <1>5, <2>1, <2>2
  <1> HIDE DEF p, q, r
  <1>8. p * (q + 1) <= p * r
    BY <1>5, <1>6, TimesMonotone
  <1>9. p * (q + 1) \in Int /\ p * r \in Int
    BY <1>5
  <1> QED
    BY <1>0, <1>7, <1>8, <1>9


-----------------------------------------------------------------------------
(* The sign of a word is its top bit.                                      *)
Half == Pow2[DW - 1]

LEMMA HalfIs ==
  Half \in Nat \ {0} /\ Pow2[DW] = 2 * Half /\ Pow2[DW] \in Nat \ {0}
  <1>1. DW - 1 \in 0 .. Top - 1 /\ DW - 1 \in 0 .. Top /\ (DW - 1) + 1 = DW /\ DW \in 0 .. Top
    BY TopIs
  <1> QED
    BY <1>1, PowerNat, PowerSteps DEF Half

LEMMA SignIs ==
  ASSUME NEW x \in AluWord
  PROVE  /\ Sign(x) \in {0, 1} /\ Sign(x) = (IF x < Half THEN 0 ELSE 1)
         /\ Signed(x) = x - Pow2[DW] * Sign(x)
  <1>1. DW - 1 \in 0 .. Top - 1 /\ DW - 1 \in 0 .. Top /\ (DW - 1) + 1 = DW
    BY TopIs
  <1>2. x \in Int /\ x \in Nat /\ x < Pow2[DW] /\ x \div Pow2[DW] = 0
    BY WordIs, BeyondWord, TopIs
  <1> DEFINE b == Bit(x, DW - 1)
             q == x \div Half
  <1>3. q = 2 * 0 + b
    BY <1>1, <1>2, Halves DEF Half
  <1>4. b \in {0, 1}
    BY <1>1, <1>2, BitIs
  <1>5. x = Half * q + (x % Half) /\ x % Half \in 0 .. Half - 1
    BY <1>2, HalfIs, Division
  <1> HIDE DEF b, q
  <1>6. b = IF x < Half THEN 0 ELSE 1
    <2>1. x = Half * b + (x % Half)
      BY <1>3, <1>4, <1>5
    <2> DEFINE r == x % Half
    <2> HIDE DEF r
    <2>2. CASE b = 0
      BY <1>5, <2>1, <2>2, HalfIs DEF r
    <2>3. CASE b = 1
      BY <1>5, <2>1, <2>3, HalfIs DEF r
    <2> QED
      BY <1>4, <2>2, <2>3
  <1>7. Signed(x) = x - Pow2[DW] * b
    <2>1. Signed(x) = IF x < Half THEN x ELSE x - Pow2[DW]
      BY DEF Signed, Half
    <2> QED
      BY <1>2, <1>6, <2>1, HalfIs
  <1> QED
    BY <1>4, <1>6, <1>7 DEF b, Sign

LEMMA SignedBelowIsLess ==
  ASSUME NEW x \in AluWord, NEW y \in AluWord
  PROVE  SignedBelow(x, y) <=> Signed(x) < Signed(y)
  <1> DEFINE a == Sign(x)
             b == Sign(y)
             M == Pow2[DW]
  <1>1. a \in {0, 1} /\ b \in {0, 1} /\ Signed(x) = x - M * a /\ Signed(y) = y - M * b
    BY SignIs
  <1>2. x \in Nat /\ y \in Nat /\ x < M /\ y < M /\ M \in Nat
    BY WordIs, HalfIs
  <1>3. Below(x, y) <=> x < y
    BY LessIsBelow, BelowIsLess
  <1>4. SignedBelow(x, y) <=> IF a # b THEN a = 1 ELSE Below(x, y)
    BY DEF SignedBelow
  <1> HIDE DEF a, b, M
  <1>5. CASE a = b
    <2>1. (x - M * a < y - M * b) <=> x < y
      BY <1>1, <1>2, <1>5
    <2> QED
      BY <1>1, <1>3, <1>4, <1>5, <2>1
  <1>6. CASE a = 0 /\ b = 1
    <2>1. ~(x - M * a < y - M * b)
      BY <1>2, <1>6
    <2> QED
      BY <1>1, <1>4, <1>6, <2>1
  <1>7. CASE a = 1 /\ b = 0
    <2>1. x - M * a < y - M * b
      BY <1>2, <1>7
    <2> QED
      BY <1>1, <1>4, <1>7, <2>1
  <1> QED
    BY <1>1, <1>5, <1>6, <1>7

-----------------------------------------------------------------------------
(* Shifts.                                                                 *)
LEMMA ShamtIs ==
  ASSUME NEW x \in AluWord, Bit(x, ShiftBits - 1) = 0
  PROVE  Shamt(x) = x % DW /\ x % DW \in 0 .. DW - 1
  <1> DEFINE k == ShiftBits - 1
             q == x \div Pow2[ShiftBits]
             r == x % DW
  <1>1. k \in 0 .. Top - 1 /\ k + 1 = ShiftBits /\ ShiftBits \in 0 .. Top /\ DW \in Nat \ {0}
    BY TopIs, WidthsAssumption
  <1>2. x \in Int /\ Pow2[k] = DW /\ Pow2[ShiftBits] = 2 * DW /\ Pow2[ShiftBits] \in Nat \ {0}
    BY <1>1, WordIs, ShiftAssumption, PowerSteps, PowerNat
  <1>3. x \div DW = 2 * q
    <2>1. x \div Pow2[k] = 2 * (x \div Pow2[k + 1]) + Bit(x, k)
      BY <1>1, <1>2, Halves
    <2>2. q \in Int
      BY <1>2, Division
    <2> HIDE DEF q
    <2>3. 2 * q + 0 = 2 * q
      BY <2>2
    <2> QED
      BY <1>1, <1>2, <2>1, <2>3 DEF q
  <1>4. x = DW * (x \div DW) + r /\ r \in 0 .. DW - 1 /\ q \in Int
    BY <1>1, <1>2, Division
  <1> HIDE DEF q, r, k
  <1>5. x = (2 * DW) * q + r /\ r \in Nat /\ r < 2 * DW
    <2>1. DW * (2 * q) = (2 * DW) * q
      BY <1>1, <1>4
    <2> QED
      BY <1>1, <1>3, <1>4, <2>1
  <1> DEFINE m == 2 * DW
  <1>6. m \in Nat \ {0}
    BY <1>1
  <1> HIDE DEF m
  <1>7. (m * q + r) % m = r
    BY <1>4, <1>5, <1>6, Quotient DEF m
  <1>8. x % Pow2[ShiftBits] = r
    BY <1>2, <1>5, <1>7 DEF m
  <1>9. r < DW
    BY <1>1, <1>4
  <1> QED
    BY <1>4, <1>8, <1>9 DEF Shamt, r

LEMMA BitOfZero ==
  ASSUME NEW i \in 0 .. Top PROVE Bit(0, i) = 0
  <1>1. 0 \in 0 .. Pow2[0] - 1
    BY PowerSteps
  <1> QED
    BY <1>1, Beyond, TopIs

LEMMA BitsOfWord ==
  ASSUME NEW x \in Int, NEW i \in Bits
  PROVE  x % Pow2[DW] \in AluWord /\ Bit(x % Pow2[DW], i) = Bit(x, i)
  <1> DEFINE q == x \div Pow2[DW]
             r == x % Pow2[DW]
  <1>1. q \in Int /\ r \in 0 .. Pow2[DW] - 1 /\ x = Pow2[DW] * q + r
    BY HalfIs, Division
  <1> HIDE DEF q, r
  <1>2. Bit(Pow2[DW] * q + r, i) = Bit(r, i)
    <2>1. DW \in 0 .. Top /\ i \in 0 .. DW - 1
      BY TopIs DEF Bits
    <2> QED
      BY <1>1, <2>1, BitsBelow
  <1>3. Bit(x, i) = Bit(r, i)
    BY <1>1, <1>2
  <1> QED
    BY <1>1, <1>3 DEF r, AluWord

LEMMA ShiftLeft ==
  ASSUME NEW x \in AluWord, NEW s \in 0 .. DW - 1
  PROVE  ShiftedLeft((x * Pow2[s]) % Pow2[DW], x, s)
  <1> DEFINE z == x * Pow2[s]
  <1>1. x \in Int /\ s \in 0 .. Top /\ s \in Nat
    BY WordIs, TopIs
  <1>2. Pow2[s] \in Nat \ {0}
    BY <1>1, PowerNat
  <1>3. 0 \in 0 .. Pow2[s] - 1 /\ z = Pow2[s] * x + 0 /\ z \in Int
    BY <1>1, <1>2
  <1>4. ASSUME NEW i \in Bits PROVE Bit(z % Pow2[DW], i) = IF i >= s THEN Bit(x, i - s) ELSE 0
    <2>0. Bit(z % Pow2[DW], i) = Bit(z, i) /\ i \in 0 .. Top /\ i \in Nat
      <3> HIDE DEF z
      <3> QED
        BY <1>3, BitsOfWord, TopIs DEF Bits
    <2>1. CASE i >= s
      <3>1. s + (i - s) = i /\ i - s \in Nat /\ s + (i - s) <= Top
        BY <1>1, <2>0, <2>1, TopIs
      <3>2. Bit(Pow2[s] * x + 0, s + (i - s)) = Bit(x, i - s)
        BY <1>1, <1>3, <3>1, BitsAbove
      <3> QED
        BY <1>3, <2>0, <2>1, <3>1, <3>2
    <2>2. CASE ~(i >= s)
      <3>1. i \in 0 .. s - 1
        BY <1>1, <2>0, <2>2
      <3>2. Bit(Pow2[s] * x + 0, i) = Bit(0, i)
        BY <1>1, <1>3, <3>1, BitsBelow
      <3> QED
        BY <1>3, <2>0, <2>2, <3>2, BitOfZero
    <2> QED
      BY <2>1, <2>2
  <1> HIDE DEF z
  <1>5. ShiftedLeft(z % Pow2[DW], x, s)
    BY <1>4 DEF ShiftedLeft
  <1> QED
    BY <1>5 DEF z


(* What is left of a word shifted right by s has the word's bits from s on *)
(* and none from DW - s on.                                                *)
LEMMA Shifted ==
  ASSUME NEW x \in AluWord, NEW s \in 0 .. DW - 1
  PROVE  /\ DW - s \in 1 .. DW /\ Pow2[s] \in Nat \ {0} /\ Pow2[DW - s] \in Nat \ {0}
         /\ Pow2[DW] = Pow2[s] * Pow2[DW - s]
         /\ x \div Pow2[s] \in 0 .. Pow2[DW - s] - 1
         /\ \A i \in 0 .. DW - s - 1 : Bit(x \div Pow2[s], i) = Bit(x, i + s)
  <1> DEFINE q == x \div Pow2[s]
             t == DW - s
             r == q % Pow2[t]
  <1>1. /\ s \in 0 .. Top /\ s \in Nat /\ t \in 1 .. DW /\ t \in 0 .. Top /\ t \in Nat /\ s + t = DW
        /\ s + t <= Top /\ x \in Int
    BY TopIs, WordIs
  <1>2. Pow2[s] \in Nat \ {0} /\ Pow2[t] \in Nat \ {0} /\ Pow2[s + t] = Pow2[s] * Pow2[t]
    <2> HIDE DEF t
    <2> QED
      BY <1>1, PowerNat, PowerSum
  <1>3. q \div Pow2[t] = 0
    <2>1. q \div Pow2[t] = x \div Pow2[s + t]
      <3> HIDE DEF t
      <3> QED
        BY <1>1, BitOfQuotient
    <2>2. x \div Pow2[DW] = 0
      BY BeyondWord, TopIs
    <2> QED
      BY <1>1, <2>1, <2>2
  <1>4. q \in Int
    BY <1>1, <1>2, Division
  <1>5. q = Pow2[t] * 0 + r /\ r \in 0 .. Pow2[t] - 1
    <2> HIDE DEF q, t
    <2>1. q = Pow2[t] * (q \div Pow2[t]) + r /\ r \in 0 .. Pow2[t] - 1
      BY <1>2, <1>4, Division
    <2> QED
      BY <1>3, <2>1
  <1>6. q \in 0 .. Pow2[t] - 1
    <2> HIDE DEF q, r, t
    <2> QED
      BY <1>2, <1>5
  <1>7. ASSUME NEW i \in 0 .. t - 1 PROVE Bit(q, i) = Bit(x, i + s)
    <2>1. i \in Nat /\ s + i <= Top /\ s + i = i + s
      BY <1>1, TopIs
    <2>2. Bit(x \div Pow2[s], i) = Bit(x, s + i)
      BY <1>1, <2>1, BitOfQuotient
    <2> QED
      BY <2>1, <2>2
  <1> QED
    BY <1>1, <1>2, <1>6, <1>7

LEMMA ShiftRight ==
  ASSUME NEW x \in AluWord, NEW s \in 0 .. DW - 1
  PROVE  x \div Pow2[s] \in AluWord /\ ShiftedRight(x \div Pow2[s], x, s, 0)
  <1> DEFINE q == x \div Pow2[s]
             t == DW - s
  <1>1. /\ t \in 1 .. DW /\ Pow2[t] \in Nat \ {0} /\ q \in 0 .. Pow2[t] - 1
        /\ \A i \in 0 .. t - 1 : Bit(q, i) = Bit(x, i + s)
    BY Shifted
  <1>2. /\ t \in 0 .. Top /\ t \in Nat /\ DW \in Nat /\ t <= DW /\ DW <= Top
    BY <1>1, TopIs
  <1> HIDE DEF q
  <1>3. ASSUME NEW i \in Bits PROVE Bit(q, i) = IF i + s < DW THEN Bit(x, i + s) ELSE 0
    <2>0. i \in Nat /\ i < DW
      BY TopIs DEF Bits
    <2>1. CASE i < t
      <3>1. i \in 0 .. t - 1 /\ i + s < DW
        BY <1>2, <2>0, <2>1
      <3> QED
        BY <1>1, <3>1
    <2>2. CASE ~(i < t)
      <3>0. s \in Nat /\ t + s = DW /\ i \in 0 .. Top
        BY <2>0, TopIs
      <3> HIDE DEF t
      <3>1. i \in t .. Top /\ ~(i + s < DW)
        BY <1>2, <2>0, <2>2, <3>0
      <3>2. Bit(q, i) = 0
        <4> HIDE DEF t
        <4> QED
          BY <1>1, <1>2, <3>1, Beyond
      <3> QED
        BY <3>1, <3>2
    <2> QED
      BY <2>1, <2>2
  <1>4. q \in AluWord
    <2> HIDE DEF t
    <2>1. Pow2[t] <= Pow2[DW]
      BY <1>2, PowerGrows
    <2> QED
      BY <1>1, <2>1, HalfIs DEF AluWord
  <1>5. ShiftedRight(q, x, s, 0)
    BY <1>3 DEF ShiftedRight
  <1> QED
    BY <1>4, <1>5 DEF q

(* A number that is one less than a power of two is all ones.              *)
LEMMA AllOnes ==
  ASSUME NEW s \in 0 .. Top, NEW j \in 0 .. s - 1
  PROVE  Bit(Pow2[s] - 1, j) = 1
  <1> DEFINE p == Pow2[j]
             h == Pow2[s - (j + 1)]
             z == p * 1 + (p - 1)
  <1>1. /\ j \in Nat /\ j \in 0 .. Top - 1 /\ j \in 0 .. Top /\ j + 1 \in 0 .. Top /\ j + 1 \in Nat
        /\ s - (j + 1) \in 0 .. Top /\ s - (j + 1) \in Nat /\ (j + 1) + (s - (j + 1)) = s /\ s <= Top
        /\ j + 0 = j /\ 0 \in Nat /\ j + 0 <= Top /\ j \in 0 .. (j + 1) - 1
    BY TopIs
  <1>2. p \in Nat \ {0} /\ h \in Nat \ {0} /\ Pow2[j + 1] = 2 * p /\ Pow2[s] = Pow2[j + 1] * h
    <2>1. Pow2[(j + 1) + (s - (j + 1))] = Pow2[j + 1] * Pow2[s - (j + 1)]
      BY <1>1, PowerSum
    <2> QED
      BY <1>1, <2>1, PowerNat, PowerSteps
  <1> HIDE DEF p, h
  <1>3. z \in 0 .. Pow2[j + 1] - 1 /\ h - 1 \in Int
    BY <1>2
  <1>4. Pow2[s] - 1 = Pow2[j + 1] * (h - 1) + z
    <2> DEFINE g == Pow2[j + 1]
    <2>1. g \in Nat /\ z = g - 1
      BY <1>2
    <2> HIDE DEF g, z
    <2>2. g * h - 1 = g * (h - 1) + z
      BY <1>2, <2>1
    <2> QED
      BY <1>2, <2>2 DEF g
  <1>5. Bit(z, j) = Bit(1, 0)
    <2>1. p - 1 \in 0 .. Pow2[j] - 1
      BY <1>2 DEF p
    <2>2. Bit(Pow2[j] * 1 + (p - 1), j + 0) = Bit(1, 0)
      <3> DEFINE y == p - 1
      <3>1. y \in 0 .. Pow2[j] - 1
        BY <2>1
      <3> DEFINE c == 1
                 k == 0
      <3>0. c \in Int /\ k \in Nat /\ j + k <= Top
        BY <1>1
      <3> HIDE DEF y, c, k
      <3>2. Bit(Pow2[j] * c + y, j + k) = Bit(c, k)
        BY <1>1, <3>0, <3>1, BitsAbove
      <3> QED
        BY <3>2 DEF y, c, k
    <2> QED
      BY <1>1, <2>2 DEF p
  <1>6. Bit(1, 0) = 1
    <2>1. (1 \div 1) % 2 = 1
      OBVIOUS
    <2> QED
      BY <2>1, PowerSteps DEF Bit
  <1>7. Bit(Pow2[j + 1] * (h - 1) + z, j) = Bit(z, j)
    <2> DEFINE c == h - 1
               n == j + 1
    <2>1. c \in Int /\ z \in 0 .. Pow2[n] - 1 /\ n \in 0 .. Top /\ j \in 0 .. n - 1
      BY <1>1, <1>3
    <2> HIDE DEF c, n, z
    <2>2. Bit(Pow2[n] * c + z, j) = Bit(z, j)
      BY <2>1, BitsBelow
    <2> QED
      BY <2>2 DEF c, n
  <1> QED
    BY <1>4, <1>5, <1>6, <1>7

LEMMA ShiftRightSigned ==
  ASSUME NEW x \in AluWord, NEW s \in 0 .. DW - 1
  PROVE  ShiftedRight((Signed(x) \div Pow2[s]) % Pow2[DW], x, s, Sign(x))
  <1> DEFINE M == Pow2[DW]
             P == Pow2[s]
             t == DW - s
             T == Pow2[t]
             q == x \div P
             z == T * (P - 1) + q
  <1>1. /\ t \in 1 .. DW /\ P \in Nat \ {0} /\ T \in Nat \ {0} /\ M = P * T
        /\ q \in 0 .. T - 1 /\ \A i \in 0 .. t - 1 : Bit(q, i) = Bit(x, i + s)
    BY Shifted
  <1>2. x \in Int /\ M \in Nat \ {0} /\ s \in Nat /\ s \in 0 .. Top /\ t \in 0 .. Top /\ t \in Nat /\ DW \in Nat
        /\ t + s = DW /\ DW <= Top /\ Top \in Nat
    BY <1>1, WordIs, HalfIs, TopIs
  <1>3. Sign(x) \in {0, 1} /\ Signed(x) = x - M * Sign(x)
    BY SignIs
  <1>4. CASE Sign(x) = 0
    <2>1. Signed(x) = x
      <3> HIDE DEF M
      <3> QED
        BY <1>2, <1>3, <1>4
    <2>2. q \in AluWord /\ ShiftedRight(q, x, s, 0)
      BY ShiftRight
    <2>3. q % M = q
      <3> HIDE DEF q
      <3> QED
        BY <1>2, <2>2 DEF AluWord
    <2> QED
      BY <1>4, <2>1, <2>2, <2>3
  <1>5. CASE Sign(x) = 1
    <2>1. Signed(x) \div P = q - T
      <3> DEFINE r == x % P
                 d == q - T
      <3>1. x = P * q + r /\ r \in 0 .. P - 1 /\ q \in Int
        BY <1>1, <1>2, Division
      <3> HIDE DEF r, q, P, T, M
      <3>2. Signed(x) = P * d + r
        <4>1. P * (q - T) = P * q - P * T
          BY <1>1, <3>1
        <4>2. M * 1 = P * T /\ P * q \in Int /\ P * T \in Int
          BY <1>1, <3>1
        <4> QED
          BY <1>2, <1>3, <1>5, <3>1, <4>1, <4>2
      <3>3. d \in Int /\ r \in Nat /\ r < P
        BY <1>1, <3>1
      <3> HIDE DEF d
      <3>4. (P * d + r) \div P = d
        BY <1>1, <3>3, Quotient
      <3> QED
        BY <3>2, <3>4 DEF d
    <2>2. z \in 0 .. M - 1 /\ q - T = M * (-1) + z
      <3> HIDE DEF q, P, T, M
      <3>1. T * (P - 1) = P * T - T /\ T * (P - 1) \in Nat
        BY <1>1
      <3> QED
        BY <1>1, <1>2, <3>1
    <2>3. (q - T) % M = z
      <3> HIDE DEF z, M
      <3>1. z \in Nat /\ z < M /\ -1 \in Int
        BY <1>2, <2>2
      <3>2. (M * (-1) + z) % M = z
        BY <1>2, <3>1, Quotient
      <3> QED
        BY <2>2, <3>2
    <2>4. ASSUME NEW i \in Bits PROVE Bit(z, i) = IF i + s < DW THEN Bit(x, i + s) ELSE 1
      <3>0. i \in Nat /\ i < DW
        BY TopIs DEF Bits
      <3> DEFINE c == P - 1
      <3>1. c \in Int
        BY <1>1
      <3>2. CASE i < t
        <4>1. i \in 0 .. t - 1 /\ i + s < DW
          BY <1>2, <3>0, <3>2
        <4>2. Bit(T * c + q, i) = Bit(q, i)
          <5> HIDE DEF c, q, t
          <5> QED
            BY <1>1, <1>2, <3>1, <4>1, BitsBelow
        <4> QED
          BY <1>1, <4>1, <4>2
      <3>3. CASE ~(i < t)
        <4> DEFINE j == i - t
        <4>1. j \in Nat /\ t + j = i /\ t + j <= Top /\ j \in 0 .. s - 1 /\ ~(i + s < DW)
          <5> HIDE DEF t
          <5> QED
            BY <1>2, <3>0, <3>3
        <4>2. Bit(T * c + q, t + j) = Bit(c, j)
          <5>1. q \in 0 .. Pow2[t] - 1
            BY <1>1
          <5> HIDE DEF c, q, t, j
          <5>2. Bit(Pow2[t] * c + q, t + j) = Bit(c, j)
            BY <1>2, <3>1, <4>1, <5>1, BitsAbove
          <5> QED
            BY <5>2
        <4>3. Bit(c, j) = 1
          <5> HIDE DEF j
          <5> QED
            BY <1>2, <4>1, AllOnes
        <4> QED
          BY <4>1, <4>2, <4>3
      <3> QED
        BY <3>2, <3>3
    <2> HIDE DEF z
    <2>5. ShiftedRight(z, x, s, 1)
      BY <2>4 DEF ShiftedRight
    <2> QED
      BY <1>5, <2>1, <2>3, <2>5
  <1> QED
    BY <1>3, <1>4, <1>5


-----------------------------------------------------------------------------
(* The other operations.                                                   *)
LEMMA BitOfWord ==
  ASSUME NEW x \in AluWord, NEW i \in Bits PROVE Bit(x, i) \in {0, 1}
  <1>1. i \in 0 .. Top
    BY TopIs DEF Bits
  <1> QED
    BY <1>1, BitIs, WordIs

LEMMA BitsOfAnd ==
  ASSUME NEW x \in AluWord, NEW y \in AluWord, NEW i \in Bits
  PROVE  Bit(AluFn("AND", x, y), i) = 1 <=> 0 \notin {Bit(x, i), Bit(y, i)}
  <1>1. AluFn("AND", x, y) = OfOnes(Ones(x) \cap Ones(y))
    BY DEF AluFn
  <1>2. Bit(AluFn("AND", x, y), i) = IF i \in Ones(x) \cap Ones(y) THEN 1 ELSE 0
    BY <1>1, OfOnesIs
  <1>3. Bit(x, i) \in {0, 1} /\ Bit(y, i) \in {0, 1}
    BY BitOfWord
  <1> QED
    BY <1>2, <1>3 DEF Ones

LEMMA BitsOfOr ==
  ASSUME NEW x \in AluWord, NEW y \in AluWord, NEW i \in Bits
  PROVE  Bit(AluFn("OR", x, y), i) = 1 <=> 1 \in {Bit(x, i), Bit(y, i)}
  <1>1. AluFn("OR", x, y) = OfOnes(Ones(x) \cup Ones(y))
    BY DEF AluFn
  <1>2. Bit(AluFn("OR", x, y), i) = IF i \in Ones(x) \cup Ones(y) THEN 1 ELSE 0
    BY <1>1, OfOnesIs
  <1> QED
    BY <1>2 DEF Ones

LEMMA BitsOfXor ==
  ASSUME NEW x \in AluWord, NEW y \in AluWord, NEW i \in Bits
  PROVE  (Bit(AluFn("XOR", x, y), i) = 1) <=> (Bit(x, i) # Bit(y, i))
  <1>1. AluFn("XOR", x, y) = OfOnes((Ones(x) \ Ones(y)) \cup (Ones(y) \ Ones(x)))
    BY DEF AluFn
  <1>2. Bit(AluFn("XOR", x, y), i)
          = IF i \in (Ones(x) \ Ones(y)) \cup (Ones(y) \ Ones(x)) THEN 1 ELSE 0
    BY <1>1, OfOnesIs
  <1>3. Bit(x, i) \in {0, 1} /\ Bit(y, i) \in {0, 1}
    BY BitOfWord
  <1> QED
    BY <1>2, <1>3 DEF Ones

LEMMA Difference ==
  ASSUME NEW x \in AluWord, NEW y \in AluWord
  PROVE  (((x - y) % Pow2[DW]) + y) % Pow2[DW] = x
  <1> DEFINE M == Pow2[DW]
  <1>1. x \in Nat /\ x < M /\ y \in Nat /\ y < M /\ M \in Nat \ {0}
    BY WordIs, HalfIs
  <1> HIDE DEF M
  <1>2. CASE y <= x
    <2>1. x - y \in Nat /\ x - y < M
      BY <1>1, <1>2
    <2>2. (x - y) % M = x - y
      BY <1>1, <2>1
    <2>3. (x - y) + y = x /\ x % M = x
      BY <1>1
    <2> QED
      BY <2>2, <2>3 DEF M
  <1>3. CASE x < y
    <2> DEFINE d == M + (x - y)
    <2>1. d \in Nat /\ d < M /\ x - y = M * (-1) + d /\ -1 \in Int
      BY <1>1, <1>3
    <2>2. d + y = M * 1 + x /\ 1 \in Int
      BY <1>1
    <2> HIDE DEF d
    <2>3. (M * (-1) + d) % M = d
      BY <1>1, <2>1, Quotient
    <2>4. (M * 1 + x) % M = x
      BY <1>1, <2>2, Quotient
    <2> QED
      BY <2>1, <2>2, <2>3, <2>4 DEF M
  <1> QED
    BY <1>1, <1>2, <1>3

-----------------------------------------------------------------------------
(* What rv_alu_ctrl selects.                                               *)
Presented ==
  /\ alu_op \in {0, 2, 3}
  /\ control \in (0 .. 1) \X (0 .. 7)
  /\ in1 \in AluWord /\ in2 \in AluWord

LEMMA PresentedIs ==
  ASSUME Presented PROVE bit30 \in 0 .. 1 /\ funct3 \in 0 .. 7
  BY DEF Presented, bit30, funct3

LEMMA Selected ==
  ASSUME Presented, alu_op # 3, alu_op = 2 /\ bit30 = 1 => funct3 \in {0, 5}
  PROVE  /\ funct3 = 0 => AluCtrl(alu_op, control) = IF alu_op = 2 /\ bit30 = 1 THEN "SUB" ELSE "ADD"
         /\ funct3 = 1 => AluCtrl(alu_op, control) = "SLL"
         /\ funct3 = 2 => AluCtrl(alu_op, control) = "SLT"
         /\ funct3 = 3 => AluCtrl(alu_op, control) = "SLTU"
         /\ funct3 = 4 => AluCtrl(alu_op, control) = "XOR"
         /\ funct3 = 5 => AluCtrl(alu_op, control) = IF bit30 = 1 THEN "SRA" ELSE "SRL"
         /\ funct3 = 6 => AluCtrl(alu_op, control) = "OR"
         /\ funct3 = 7 => AluCtrl(alu_op, control) = "AND"
  <1>1. alu_op \in {0, 2} /\ bit30 \in 0 .. 1 /\ funct3 \in 0 .. 7
    BY PresentedIs DEF Presented
  <1>2. AluCtrl(alu_op, control) =
          CASE alu_op = 3 -> "ADD"
            [] alu_op = 1 -> "SUB"
            [] alu_op \in {0, 2} /\ bit30 = 1 /\ funct3 = 5 -> "SRA"
            [] alu_op = 2 /\ bit30 = 1 /\ funct3 = 0 -> "SUB"
            [] alu_op = 2 /\ bit30 = 1 /\ funct3 \notin {0, 5} -> "X"
            [] OTHER -> ByFunct3[funct3 + 1]
    BY DEF AluCtrl, bit30, funct3
  <1>3. /\ ByFunct3[1] = "ADD" /\ ByFunct3[2] = "SLL" /\ ByFunct3[3] = "SLT"
        /\ ByFunct3[4] = "SLTU" /\ ByFunct3[5] = "XOR" /\ ByFunct3[6] = "SRL"
        /\ ByFunct3[7] = "OR" /\ ByFunct3[8] = "AND"
    BY DEF ByFunct3
  <1> DEFINE op == AluCtrl(alu_op, control)
  <1>4. CASE bit30 = 1 /\ (funct3 = 5 \/ (alu_op = 2 /\ funct3 = 0))
    BY <1>1, <1>2, <1>4
  <1>5. CASE ~(bit30 = 1 /\ (funct3 = 5 \/ (alu_op = 2 /\ funct3 = 0)))
    <2>1. op = ByFunct3[funct3 + 1]
      BY <1>1, <1>2, <1>5
    <2> HIDE DEF op
    <2>2. /\ funct3 = 0 => op = "ADD"
          /\ funct3 = 1 => op = "SLL"
          /\ funct3 = 2 => op = "SLT"
          /\ funct3 = 3 => op = "SLTU"
          /\ funct3 = 4 => op = "XOR"
          /\ funct3 = 5 => op = "SRL"
          /\ funct3 = 6 => op = "OR"
          /\ funct3 = 7 => op = "AND"
      BY <1>1, <1>3, <2>1
    <2> QED
      BY <1>5, <2>2 DEF op
  <1> QED
    BY <1>4, <1>5


-----------------------------------------------------------------------------
(* The result of the ALU is RV32I's.                                       *)
LEMMA ResultIsRv32i ==
  ASSUME Presented, out = AluOutput(alu_op, control, in1, in2), IsRv32i, PlainShift
  PROVE  Rv32iResult
  <1> DEFINE op == AluCtrl(alu_op, control)
             s == in2 % DW
             M == Pow2[DW]
             subtracts == alu_op = 2 /\ bit30 = 1
             Goal0 == IF subtracts THEN (out + in2) % M = in1 ELSE out = (in1 + in2) % M
             Goal1 == ShiftedLeft(out, in1, s)
             Goal2 == out = Flag(SignedBelow(in1, in2))
             Goal3 == out = Flag(Below(in1, in2))
             Goal4 == \A i \in Bits : (Bit(out, i) = 1) <=> (Bit(in1, i) # Bit(in2, i))
             Goal5 == ShiftedRight(out, in1, s, IF bit30 = 1 THEN Sign(in1) ELSE 0)
             Goal6 == \A i \in Bits : Bit(out, i) = 1 <=> 1 \in {Bit(in1, i), Bit(in2, i)}
             Goal7 == \A i \in Bits : Bit(out, i) = 1 <=> 0 \notin {Bit(in1, i), Bit(in2, i)}
  <1>1. in1 \in AluWord /\ in2 \in AluWord /\ bit30 \in 0 .. 1 /\ funct3 \in 0 .. 7 /\ alu_op \in {0, 2, 3}
    BY PresentedIs DEF Presented
  <1>2. out = AluFn(op, in1, in2)
    BY DEF AluOutput
  <1>3. CASE alu_op = 3
    <2>1. op = "ADD"
      BY <1>3 DEF AluCtrl
    <2>2. out = (in1 + in2) % M
      BY <1>2, <2>1 DEF AluFn
    <2> QED
      BY <1>3, <2>2 DEF Rv32iResult
  <1>4. CASE alu_op # 3
    <2>0. subtracts => funct3 \in {0, 5}
      BY <1>4 DEF IsRv32i
    <2>1. /\ funct3 = 0 => op = IF subtracts THEN "SUB" ELSE "ADD"
          /\ funct3 = 1 => op = "SLL"
          /\ funct3 = 2 => op = "SLT"
          /\ funct3 = 3 => op = "SLTU"
          /\ funct3 = 4 => op = "XOR"
          /\ funct3 = 5 => op = IF bit30 = 1 THEN "SRA" ELSE "SRL"
          /\ funct3 = 6 => op = "OR"
          /\ funct3 = 7 => op = "AND"
      BY <1>4, <2>0, Selected
    <2> HIDE DEF op
    <2>2. ASSUME funct3 = 0 PROVE Goal0
      <3>1. CASE subtracts
        <4>1. out = (in1 - in2) % M
          BY <1>2, <2>1, <2>2, <3>1 DEF AluFn
        <4> QED
          BY <1>1, <3>1, <4>1, Difference
      <3>2. CASE ~subtracts
        BY <1>2, <2>1, <2>2, <3>2 DEF AluFn
      <3> QED
        BY <3>1, <3>2
    <2>3. ASSUME funct3 \in {1, 5} PROVE Shamt(in2) = s /\ s \in 0 .. DW - 1
      <3>1. Bit(in2, ShiftBits - 1) = 0
        BY <1>1, <1>4, <2>3 DEF PlainShift, IsShift
      <3> QED
        BY <1>1, <3>1, ShamtIs
    <2>4. ASSUME funct3 = 1 PROVE Goal1
      <3>1. out = (in1 * Pow2[s]) % M
        BY <1>2, <2>1, <2>3, <2>4 DEF AluFn
      <3>2. s \in 0 .. DW - 1
        BY <2>3, <2>4
      <3> HIDE DEF s
      <3> QED
        BY <1>1, <3>1, <3>2, ShiftLeft
    <2>5. ASSUME funct3 = 5 PROVE Goal5
      <3>2. s \in 0 .. DW - 1 /\ Shamt(in2) = s
        BY <2>3, <2>5
      <3> HIDE DEF s
      <3>3. CASE bit30 = 1
        <4>1. out = (Signed(in1) \div Pow2[s]) % M
          BY <1>2, <2>1, <2>5, <3>2, <3>3 DEF AluFn
        <4> QED
          BY <1>1, <3>2, <3>3, <4>1, ShiftRightSigned
      <3>4. CASE bit30 # 1
        <4>1. out = in1 \div Pow2[s]
          BY <1>2, <2>1, <2>5, <3>2, <3>4 DEF AluFn
        <4> QED
          BY <1>1, <3>2, <3>4, <4>1, ShiftRight
      <3> QED
        BY <3>3, <3>4
    <2>6. ASSUME funct3 = 2 PROVE Goal2
      <3>1. out = IF Signed(in1) < Signed(in2) THEN 1 ELSE 0
        BY <1>2, <2>1, <2>6 DEF AluFn
      <3> QED
        BY <1>1, <3>1, SignedBelowIsLess DEF Flag
    <2>7. ASSUME funct3 = 3 PROVE Goal3
      <3>1. out = IF in1 < in2 THEN 1 ELSE 0
        BY <1>2, <2>1, <2>7 DEF AluFn
      <3> QED
        BY <1>1, <3>1, LessIsBelow, BelowIsLess DEF Flag
    <2>8. ASSUME funct3 = 4 PROVE Goal4
      BY <1>1, <1>2, <2>1, <2>8, BitsOfXor
    <2>9. ASSUME funct3 = 6 PROVE Goal6
      BY <1>1, <1>2, <2>1, <2>9, BitsOfOr
    <2>10. ASSUME funct3 = 7 PROVE Goal7
      BY <1>1, <1>2, <2>1, <2>10, BitsOfAnd
    <2>11. /\ funct3 = 0 => (Rv32iResult <=> Goal0)
           /\ funct3 = 1 => (Rv32iResult <=> Goal1)
           /\ funct3 = 2 => (Rv32iResult <=> Goal2)
           /\ funct3 = 3 => (Rv32iResult <=> Goal3)
           /\ funct3 = 4 => (Rv32iResult <=> Goal4)
           /\ funct3 = 5 => (Rv32iResult <=> Goal5)
           /\ funct3 = 6 => (Rv32iResult <=> Goal6)
           /\ funct3 = 7 => (Rv32iResult <=> Goal7)
      <3> HIDE DEF ShiftedLeft, ShiftedRight
      <3>1. funct3 = 0 => (Rv32iResult <=> Goal0)
        BY <1>4 DEF Rv32iResult
      <3>2. funct3 = 1 => (Rv32iResult <=> Goal1)
        BY <1>4 DEF Rv32iResult
      <3>3. funct3 = 2 => (Rv32iResult <=> Goal2)
        BY <1>4 DEF Rv32iResult
      <3>4. funct3 = 3 => (Rv32iResult <=> Goal3)
        BY <1>4 DEF Rv32iResult
      <3>5. funct3 = 4 => (Rv32iResult <=> Goal4)
        BY <1>4 DEF Rv32iResult
      <3>6. funct3 = 5 => (Rv32iResult <=> Goal5)
        BY <1>4 DEF Rv32iResult
      <3>7. funct3 = 6 => (Rv32iResult <=> Goal6)
        BY <1>4 DEF Rv32iResult
      <3>8. funct3 = 7 => (Rv32iResult <=> Goal7)
        BY <1>4 DEF Rv32iResult
      <3> HIDE DEF Goal0, Goal1, Goal2, Goal3, Goal4, Goal5, Goal6, Goal7
      <3> QED
        BY <3>1, <3>2, <3>3, <3>4, <3>5, <3>6, <3>7, <3>8
    <2> HIDE DEF Goal0, Goal1, Goal2, Goal3, Goal4, Goal5, Goal6, Goal7
    <2>12. \/ funct3 = 0 \/ funct3 = 1 \/ funct3 = 2 \/ funct3 = 3
           \/ funct3 = 4 \/ funct3 = 5 \/ funct3 = 6 \/ funct3 = 7
      BY <1>1
    <2> QED
      BY <2>2, <2>4, <2>5, <2>6, <2>7, <2>8, <2>9, <2>10, <2>11, <2>12, Zenon
  <1> QED
    BY <1>3, <1>4

LEMMA TakenIsRv32i ==
  ASSUME Presented, branch_taken = Taken(control[2], in1, in2), settled PROVE BranchAgrees
  <1>1. in1 \in AluWord /\ in2 \in AluWord /\ bit30 \in 0 .. 1 /\ funct3 \in 0 .. 7
    BY PresentedIs DEF Presented
  <1>2. in1 \in Nat /\ in2 \in Nat
    BY <1>1, WordIs
  <1>3. SignedBelow(in1, in2) <=> Signed(in1) < Signed(in2)
    BY <1>1, SignedBelowIsLess
  <1>4. Below(in1, in2) <=> in1 < in2
    BY <1>1, LessIsBelow, BelowIsLess
  <1>5. Signed(in1) \in Int /\ Signed(in2) \in Int
    BY <1>2, HalfIs DEF Signed
  <1>6. branch_taken = Taken(funct3, in1, in2)
    BY DEF funct3
  <1> DEFINE e == CASE funct3 = 0 -> in1 = in2
                    [] funct3 = 1 -> in1 # in2
                    [] funct3 = 4 -> SignedBelow(in1, in2)
                    [] funct3 = 5 -> ~SignedBelow(in1, in2)
                    [] funct3 = 6 -> Below(in1, in2)
                    [] funct3 = 7 -> ~Below(in1, in2)
                    [] OTHER -> FALSE
  <1>7. e <=> Taken(funct3, in1, in2)
    <2>1. CASE funct3 \in {0, 1}
      BY <2>1 DEF Taken
    <2>2. CASE funct3 \in {2, 3}
      BY <2>2 DEF Taken
    <2>3. CASE funct3 = 4
      BY <1>3, <2>3 DEF Taken
    <2>4. CASE funct3 = 5
      <3>1. ~(Signed(in1) < Signed(in2)) <=> Signed(in1) >= Signed(in2)
        BY <1>5
      <3> QED
        BY <1>3, <2>4, <3>1 DEF Taken
    <2>5. CASE funct3 = 6
      BY <1>4, <2>5 DEF Taken
    <2>6. CASE funct3 = 7
      <3>1. ~(in1 < in2) <=> in1 >= in2
        BY <1>2
      <3> QED
        BY <1>4, <2>6, <3>1 DEF Taken
    <2> QED
      BY <1>1, <2>1, <2>2, <2>3, <2>4, <2>5, <2>6
  <1>8. branch_taken <=> e
    <2> HIDE DEF e
    <2> QED
      BY <1>6, <1>7, Zenon
  <1> QED
    BY <1>8 DEF BranchAgrees


-----------------------------------------------------------------------------
(* The concatenations of the immediate generator, field by field.          *)
IsSlice(s, hi, lo) ==
  s \in Seq(Int) /\ Len(s) = hi - lo + 1 /\ \A i \in 1 .. hi - lo + 1 : s[i] = hi - i + 1
IsZeros(s, n) == s \in Seq(Int) /\ Len(s) = n /\ \A i \in 1 .. n : s[i] = -1
IsOneBit(s, k) == s \in Seq(Int) /\ Len(s) = 1 /\ s[1] = k

(* s has m positions, t has n, and r is s followed by t.                   *)
Follows(r, s, t, m, n) ==
  /\ r \in Seq(Int) /\ Len(r) = m + n
  /\ \A i \in 1 .. m : r[i] = s[i]
  /\ \A i \in m + 1 .. m + n : r[i] = t[i - m]

LEMMA SliceIs ==
  ASSUME NEW hi \in Nat, NEW lo \in Nat, lo <= hi PROVE IsSlice(Slice(hi, lo), hi, lo)
  <1> DEFINE n == hi - lo + 1
             f(i) == hi - i + 1
             s == [i \in 1 .. n |-> f(i)]
  <1>1. n \in Nat /\ \A i \in 1 .. n : f(i) \in Int
    OBVIOUS
  <1> HIDE DEF n, f
  <1>2. s \in Seq(Int) /\ Len(s) = n /\ \A i \in 1 .. n : s[i] = f(i)
    BY <1>1
  <1> QED
    BY <1>2 DEF Slice, IsSlice, n, f

LEMMA ZerosIs ==
  ASSUME NEW n \in Nat PROVE IsZeros(Zeros(n), n)
  <1> DEFINE z == -1
             s == [i \in 1 .. n |-> z]
  <1>1. z \in Int
    OBVIOUS
  <1> HIDE DEF z
  <1>2. s \in Seq(Int) /\ Len(s) = n /\ \A i \in 1 .. n : s[i] = z
    BY <1>1
  <1> QED
    BY <1>2 DEF Zeros, ZeroBit, IsZeros, z

LEMMA OneBitIs ==
  ASSUME NEW k \in Int PROVE IsOneBit(OneBit(k), k)
  BY DEF OneBit, IsOneBit

LEMMA Joined ==
  ASSUME NEW s \in Seq(Int), NEW t \in Seq(Int), NEW m \in Nat, NEW n \in Nat,
         Len(s) = m, Len(t) = n
  PROVE  Follows(s \o t, s, t, m, n)
  <1> DEFINE r == s \o t
  <1>1. /\ r \in Seq(Int) /\ Len(r) = m + n
        /\ \A i \in 1 .. m + n : r[i] = IF i <= m THEN s[i] ELSE t[i - m]
    BY ConcatProperties
  <1> HIDE DEF r
  <1>2. ASSUME NEW i \in 1 .. m PROVE r[i] = s[i]
    <2>1. i \in 1 .. m + n /\ i <= m
      OBVIOUS
    <2> QED
      BY <1>1, <2>1
  <1>3. ASSUME NEW i \in m + 1 .. m + n PROVE r[i] = t[i - m]
    <2>1. i \in 1 .. m + n /\ ~(i <= m)
      OBVIOUS
    <2> QED
      BY <1>1, <2>1
  <1>4. Follows(r, s, t, m, n)
    BY <1>1, <1>2, <1>3 DEF Follows
  <1> QED
    BY <1>4 DEF r

LEMMA ITypeIs == Len(IType) = 12 /\ \A i \in 1 .. 12 : IType[i] = 32 - i
  <1>1. IsSlice(IType, 31, 20)
    BY SliceIs DEF IType
  <1> HIDE DEF IType
  <1> QED
    BY <1>1 DEF IsSlice

LEMMA STypeIs ==
  /\ Len(SType) = 12
  /\ \A i \in 1 .. 12 : SType[i] =
       IF i <= 7 THEN 32 - i ELSE 19 - i
  <1> DEFINE a == Slice(31, 25)
             b == Slice(11, 7)
             ab == a \o b
  <1>1. IsSlice(a, 31, 25)
    BY SliceIs
  <1>2. IsSlice(b, 11, 7)
    BY SliceIs
  <1>3. SType = ab
    BY DEF SType
  <1> HIDE DEF a, b
  <1>4. \A i \in 1 .. 7 : a[i] = 32 - i
    BY <1>1 DEF IsSlice
  <1>5. \A i \in 1 .. 5 : b[i] = 12 - i
    BY <1>2 DEF IsSlice
  <1>6. a \in Seq(Int) /\ Len(a) = 7 /\ b \in Seq(Int) /\ Len(b) = 5
    BY <1>1, <1>2 DEF IsSlice
  <1>7. Follows(ab, a, b, 7, 5)
    BY <1>6, Joined
  <1> HIDE DEF ab
  <1>8. /\ \A i \in 1 .. 7 : ab[i] = a[i]
        /\ \A i \in 8 .. 12 : ab[i] = b[i - 7]
    BY <1>7 DEF Follows
  <1>9. ASSUME NEW i \in 1 .. 12
         PROVE  ab[i] = IF i <= 7 THEN 32 - i ELSE 19 - i
    <2>1. i \in 1 .. 7 \/ i \in 8 .. 12
      OBVIOUS
    <2>2. CASE i \in 1 .. 7
      <3>1. i \in Int /\ i - 0 \in 1 .. 7 /\ ab[i] = a[i - 0]
        <4>1. i \in Int /\ i - 0 \in 1 .. 7 /\ i - 0 = i
          BY <2>2
        <4>2. ab[i] = a[i]
          BY <1>8, <2>2
        <4> QED
          BY <4>1, <4>2
      <3>2. a[i - 0] = 32 - i
        BY <1>4, <3>1
      <3> QED
        BY <2>2, <3>1, <3>2
    <2>3. CASE i \in 8 .. 12
      <3>1. i \in Int /\ i - 7 \in 1 .. 5 /\ ab[i] = b[i - 7]
        <4>1. i \in Int /\ i - 7 \in 1 .. 5 /\ i - 0 = i
          BY <2>3
        <4>2. ab[i] = b[i - 7]
          BY <1>8, <2>3
        <4> QED
          BY <4>1, <4>2
      <3>2. b[i - 7] = 19 - i
        BY <1>5, <3>1
      <3> QED
        BY <2>3, <3>1, <3>2
    <2> QED
      BY <2>1, <2>2, <2>3
  <1>10. Len(ab) = 12
    BY <1>7 DEF Follows
  <1> HIDE DEF SType
  <1> QED
    BY <1>3, <1>9, <1>10

LEMMA UTypeIs ==
  /\ Len(UType) = 32
  /\ \A i \in 1 .. 32 : UType[i] =
       IF i <= 20 THEN 32 - i ELSE -1
  <1> DEFINE a == Slice(31, 12)
             b == Zeros(12)
             ab == a \o b
  <1>1. IsSlice(a, 31, 12)
    BY SliceIs
  <1>2. IsZeros(b, 12)
    BY ZerosIs
  <1>3. UType = ab
    BY DEF UType
  <1> HIDE DEF a, b
  <1>4. \A i \in 1 .. 20 : a[i] = 32 - i
    <2>1. \A i \in 1 .. 31 - 12 + 1 : a[i] = 31 - i + 1
      BY <1>1 DEF IsSlice
    <2> QED
      BY <2>1
  <1>5. a \in Seq(Int) /\ Len(a) = 20 /\ b \in Seq(Int) /\ Len(b) = 12
    BY <1>1, <1>2 DEF IsSlice, IsZeros
  <1>6. Follows(ab, a, b, 20, 12)
    BY <1>5, Joined
  <1> HIDE DEF ab
  <1>7. /\ \A i \in 1 .. 20 : ab[i] = a[i]
        /\ \A i \in 21 .. 32 : ab[i] = b[i - 20]
    BY <1>6 DEF Follows
  <1>8. ASSUME NEW i \in 1 .. 32
         PROVE  ab[i] = IF i <= 20 THEN 32 - i ELSE -1
    <2>1. i \in 1 .. 20 \/ i \in 21 .. 32
      OBVIOUS
    <2>2. CASE i \in 1 .. 20
      <3>1. i \in Int /\ i - 0 \in 1 .. 20 /\ ab[i] = a[i - 0]
        <4>1. i \in Int /\ i - 0 \in 1 .. 20 /\ i - 0 = i
          BY <2>2
        <4>2. ab[i] = a[i]
          BY <1>7, <2>2
        <4> QED
          BY <4>1, <4>2
      <3>2. a[i - 0] = 32 - i
        BY <1>4, <3>1
      <3> QED
        BY <2>2, <3>1, <3>2
    <2>3. CASE i \in 21 .. 32
      <3>1. i \in Int /\ i - 20 \in 1 .. 12 /\ ab[i] = b[i - 20]
        <4>1. i \in Int /\ i - 20 \in 1 .. 12 /\ i - 0 = i
          BY <2>3
        <4>2. ab[i] = b[i - 20]
          BY <1>7, <2>3
        <4> QED
          BY <4>1, <4>2
      <3>2. b[i - 20] = -1
        BY <1>2, <2>3, <3>1 DEF IsZeros
      <3> QED
        BY <2>3, <3>1, <3>2
    <2> QED
      BY <2>1, <2>2, <2>3
  <1>9. Len(ab) = 32
    BY <1>6 DEF Follows
  <1> HIDE DEF UType
  <1> QED
    BY <1>3, <1>8, <1>9

LEMMA BTypeIs ==
  /\ Len(BType) = 13
  /\ \A i \in 1 .. 13 : BType[i] =
       IF i = 1 THEN 31 ELSE IF i = 2 THEN 7 ELSE IF i <= 8 THEN 33 - i ELSE IF i <= 12 THEN 20 - i ELSE -1
  <1> DEFINE a == OneBit(31)
             b == OneBit(7)
             c == Slice(30, 25)
             d == Slice(11, 8)
             e == Zeros(1)
             ab == a \o b
             abc == ab \o c
             abcd == abc \o d
             abcde == abcd \o e
  <1>1. IsOneBit(a, 31)
    BY OneBitIs
  <1>2. IsOneBit(b, 7)
    BY OneBitIs
  <1>3. IsSlice(c, 30, 25)
    BY SliceIs
  <1>4. IsSlice(d, 11, 8)
    BY SliceIs
  <1>5. IsZeros(e, 1)
    BY ZerosIs
  <1>6. BType = abcde
    BY DEF BType
  <1> HIDE DEF a, b, c, d, e
  <1>7. \A i \in 1 .. 6 : c[i] = 31 - i
    BY <1>3 DEF IsSlice
  <1>8. \A i \in 1 .. 4 : d[i] = 12 - i
    BY <1>4 DEF IsSlice
  <1>9. a \in Seq(Int) /\ Len(a) = 1 /\ b \in Seq(Int) /\ Len(b) = 1
        /\ c \in Seq(Int) /\ Len(c) = 6 /\ d \in Seq(Int) /\ Len(d) = 4
        /\ e \in Seq(Int) /\ Len(e) = 1
    BY <1>1, <1>2, <1>3, <1>4, <1>5 DEF IsOneBit, IsSlice, IsZeros
  <1>10. Follows(ab, a, b, 1, 1)
    BY <1>9, Joined
  <1>11. Follows(abc, ab, c, 2, 6)
    <2>1. ab \in Seq(Int) /\ Len(ab) = 2
      BY <1>10 DEF Follows
    <2> HIDE DEF ab
    <2> QED
      BY <1>9, <2>1, Joined
  <1>12. Follows(abcd, abc, d, 8, 4)
    <2>1. abc \in Seq(Int) /\ Len(abc) = 8
      BY <1>11 DEF Follows
    <2> HIDE DEF abc
    <2> QED
      BY <1>9, <2>1, Joined
  <1>13. Follows(abcde, abcd, e, 12, 1)
    <2>1. abcd \in Seq(Int) /\ Len(abcd) = 12
      BY <1>12 DEF Follows
    <2> HIDE DEF abcd
    <2> QED
      BY <1>9, <2>1, Joined
  <1> HIDE DEF ab, abc, abcd, abcde
  <1>14. /\ \A i \in 1 .. 1 : ab[i] = a[i]
         /\ \A i \in 2 .. 2 : ab[i] = b[i - 1]
    BY <1>10 DEF Follows
  <1>15. /\ \A i \in 1 .. 2 : abc[i] = ab[i]
         /\ \A i \in 3 .. 8 : abc[i] = c[i - 2]
    BY <1>11 DEF Follows
  <1>16. /\ \A i \in 1 .. 8 : abcd[i] = abc[i]
         /\ \A i \in 9 .. 12 : abcd[i] = d[i - 8]
    BY <1>12 DEF Follows
  <1>17. /\ \A i \in 1 .. 12 : abcde[i] = abcd[i]
         /\ \A i \in 13 .. 13 : abcde[i] = e[i - 12]
    BY <1>13 DEF Follows
  <1>18. ASSUME NEW i \in 1 .. 13
         PROVE  abcde[i] = IF i = 1 THEN 31 ELSE IF i = 2 THEN 7 ELSE IF i <= 8 THEN 33 - i ELSE IF i <= 12 THEN 20 - i ELSE -1
    <2>1. i = 1 \/ i = 2 \/ i \in 3 .. 8 \/ i \in 9 .. 12 \/ i = 13
      OBVIOUS
    <2>2. CASE i = 1
      <3>1. i \in Int /\ i - 0 \in 1 .. 1 /\ abcde[i] = a[i - 0]
        <4>1. i \in Int /\ i - 0 \in 1 .. 1 /\ i - 0 = i
          BY <2>2
        <4>2. abcde[i] = abcd[i]
          BY <1>17, <2>2
        <4>3. abcd[i] = abc[i]
          BY <1>16, <2>2
        <4>4. abc[i] = ab[i]
          BY <1>15, <2>2
        <4>5. ab[i] = a[i]
          BY <1>14, <2>2
        <4> QED
          BY <4>1, <4>2, <4>3, <4>4, <4>5
      <3>2. a[i - 0] = 31
        BY <1>1, <2>2, <3>1 DEF IsOneBit
      <3> QED
        BY <2>2, <3>1, <3>2
    <2>3. CASE i = 2
      <3>1. i \in Int /\ i - 1 \in 1 .. 1 /\ abcde[i] = b[i - 1]
        <4>1. i \in Int /\ i - 1 \in 1 .. 1 /\ i - 0 = i
          BY <2>3
        <4>2. abcde[i] = abcd[i]
          BY <1>17, <2>3
        <4>3. abcd[i] = abc[i]
          BY <1>16, <2>3
        <4>4. abc[i] = ab[i]
          BY <1>15, <2>3
        <4>5. ab[i] = b[i - 1]
          BY <1>14, <2>3
        <4> QED
          BY <4>1, <4>2, <4>3, <4>4, <4>5
      <3>2. b[i - 1] = 7
        BY <1>2, <2>3, <3>1 DEF IsOneBit
      <3> QED
        BY <2>3, <3>1, <3>2
    <2>4. CASE i \in 3 .. 8
      <3>1. i \in Int /\ i - 2 \in 1 .. 6 /\ abcde[i] = c[i - 2]
        <4>1. i \in Int /\ i - 2 \in 1 .. 6 /\ i - 0 = i
          BY <2>4
        <4>2. abcde[i] = abcd[i]
          BY <1>17, <2>4
        <4>3. abcd[i] = abc[i]
          BY <1>16, <2>4
        <4>4. abc[i] = c[i - 2]
          BY <1>15, <2>4
        <4> QED
          BY <4>1, <4>2, <4>3, <4>4
      <3>2. c[i - 2] = 33 - i
        BY <1>7, <3>1
      <3> QED
        BY <2>4, <3>1, <3>2
    <2>5. CASE i \in 9 .. 12
      <3>1. i \in Int /\ i - 8 \in 1 .. 4 /\ abcde[i] = d[i - 8]
        <4>1. i \in Int /\ i - 8 \in 1 .. 4 /\ i - 0 = i
          BY <2>5
        <4>2. abcde[i] = abcd[i]
          BY <1>17, <2>5
        <4>3. abcd[i] = d[i - 8]
          BY <1>16, <2>5
        <4> QED
          BY <4>1, <4>2, <4>3
      <3>2. d[i - 8] = 20 - i
        BY <1>8, <3>1
      <3> QED
        BY <2>5, <3>1, <3>2
    <2>6. CASE i = 13
      <3>1. i \in Int /\ i - 12 \in 1 .. 1 /\ abcde[i] = e[i - 12]
        <4>1. i \in Int /\ i - 12 \in 1 .. 1 /\ i - 0 = i
          BY <2>6
        <4>2. abcde[i] = e[i - 12]
          BY <1>17, <2>6
        <4> QED
          BY <4>1, <4>2
      <3>2. e[i - 12] = -1
        BY <1>5, <2>6, <3>1 DEF IsZeros
      <3> QED
        BY <2>6, <3>1, <3>2
    <2> QED
      BY <2>1, <2>2, <2>3, <2>4, <2>5, <2>6
  <1>19. Len(abcde) = 13
    BY <1>13 DEF Follows
  <1> HIDE DEF BType
  <1> QED
    BY <1>6, <1>18, <1>19

LEMMA JTypeIs ==
  /\ Len(JType) = 21
  /\ \A i \in 1 .. 21 : JType[i] =
       IF i = 1 THEN 31 ELSE IF i <= 9 THEN 21 - i ELSE IF i = 10 THEN 20 ELSE IF i <= 20 THEN 41 - i ELSE -1
  <1> DEFINE a == OneBit(31)
             b == Slice(19, 12)
             c == OneBit(20)
             d == Slice(30, 21)
             e == Zeros(1)
             ab == a \o b
             abc == ab \o c
             abcd == abc \o d
             abcde == abcd \o e
  <1>1. IsOneBit(a, 31)
    BY OneBitIs
  <1>2. IsSlice(b, 19, 12)
    BY SliceIs
  <1>3. IsOneBit(c, 20)
    BY OneBitIs
  <1>4. IsSlice(d, 30, 21)
    BY SliceIs
  <1>5. IsZeros(e, 1)
    BY ZerosIs
  <1>6. JType = abcde
    BY DEF JType
  <1> HIDE DEF a, b, c, d, e
  <1>7. \A i \in 1 .. 8 : b[i] = 20 - i
    BY <1>2 DEF IsSlice
  <1>8. \A i \in 1 .. 10 : d[i] = 31 - i
    BY <1>4 DEF IsSlice
  <1>9. a \in Seq(Int) /\ Len(a) = 1 /\ b \in Seq(Int) /\ Len(b) = 8
        /\ c \in Seq(Int) /\ Len(c) = 1 /\ d \in Seq(Int) /\ Len(d) = 10
        /\ e \in Seq(Int) /\ Len(e) = 1
    BY <1>1, <1>2, <1>3, <1>4, <1>5 DEF IsOneBit, IsSlice, IsZeros
  <1>10. Follows(ab, a, b, 1, 8)
    BY <1>9, Joined
  <1>11. Follows(abc, ab, c, 9, 1)
    <2>1. ab \in Seq(Int) /\ Len(ab) = 9
      BY <1>10 DEF Follows
    <2> HIDE DEF ab
    <2> QED
      BY <1>9, <2>1, Joined
  <1>12. Follows(abcd, abc, d, 10, 10)
    <2>1. abc \in Seq(Int) /\ Len(abc) = 10
      BY <1>11 DEF Follows
    <2> HIDE DEF abc
    <2> QED
      BY <1>9, <2>1, Joined
  <1>13. Follows(abcde, abcd, e, 20, 1)
    <2>1. abcd \in Seq(Int) /\ Len(abcd) = 20
      BY <1>12 DEF Follows
    <2> HIDE DEF abcd
    <2> QED
      BY <1>9, <2>1, Joined
  <1> HIDE DEF ab, abc, abcd, abcde
  <1>14. /\ \A i \in 1 .. 1 : ab[i] = a[i]
         /\ \A i \in 2 .. 9 : ab[i] = b[i - 1]
    BY <1>10 DEF Follows
  <1>15. /\ \A i \in 1 .. 9 : abc[i] = ab[i]
         /\ \A i \in 10 .. 10 : abc[i] = c[i - 9]
    BY <1>11 DEF Follows
  <1>16. /\ \A i \in 1 .. 10 : abcd[i] = abc[i]
         /\ \A i \in 11 .. 20 : abcd[i] = d[i - 10]
    BY <1>12 DEF Follows
  <1>17. /\ \A i \in 1 .. 20 : abcde[i] = abcd[i]
         /\ \A i \in 21 .. 21 : abcde[i] = e[i - 20]
    BY <1>13 DEF Follows
  <1>18. ASSUME NEW i \in 1 .. 21
         PROVE  abcde[i] = IF i = 1 THEN 31 ELSE IF i <= 9 THEN 21 - i ELSE IF i = 10 THEN 20 ELSE IF i <= 20 THEN 41 - i ELSE -1
    <2>1. i = 1 \/ i \in 2 .. 9 \/ i = 10 \/ i \in 11 .. 20 \/ i = 21
      OBVIOUS
    <2>2. CASE i = 1
      <3>1. i \in Int /\ i - 0 \in 1 .. 1 /\ abcde[i] = a[i - 0]
        <4>1. i \in Int /\ i - 0 \in 1 .. 1 /\ i - 0 = i
          BY <2>2
        <4>2. abcde[i] = abcd[i]
          BY <1>17, <2>2
        <4>3. abcd[i] = abc[i]
          BY <1>16, <2>2
        <4>4. abc[i] = ab[i]
          BY <1>15, <2>2
        <4>5. ab[i] = a[i]
          BY <1>14, <2>2
        <4> QED
          BY <4>1, <4>2, <4>3, <4>4, <4>5
      <3>2. a[i - 0] = 31
        BY <1>1, <2>2, <3>1 DEF IsOneBit
      <3> QED
        BY <2>2, <3>1, <3>2
    <2>3. CASE i \in 2 .. 9
      <3>1. i \in Int /\ i - 1 \in 1 .. 8 /\ abcde[i] = b[i - 1]
        <4>1. i \in Int /\ i - 1 \in 1 .. 8 /\ i - 0 = i
          BY <2>3
        <4>2. abcde[i] = abcd[i]
          BY <1>17, <2>3
        <4>3. abcd[i] = abc[i]
          BY <1>16, <2>3
        <4>4. abc[i] = ab[i]
          BY <1>15, <2>3
        <4>5. ab[i] = b[i - 1]
          BY <1>14, <2>3
        <4> QED
          BY <4>1, <4>2, <4>3, <4>4, <4>5
      <3>2. b[i - 1] = 21 - i
        BY <1>7, <3>1
      <3> QED
        BY <2>3, <3>1, <3>2
    <2>4. CASE i = 10
      <3>1. i \in Int /\ i - 9 \in 1 .. 1 /\ abcde[i] = c[i - 9]
        <4>1. i \in Int /\ i - 9 \in 1 .. 1 /\ i - 0 = i
          BY <2>4
        <4>2. abcde[i] = abcd[i]
          BY <1>17, <2>4
        <4>3. abcd[i] = abc[i]
          BY <1>16, <2>4
        <4>4. abc[i] = c[i - 9]
          BY <1>15, <2>4
        <4> QED
          BY <4>1, <4>2, <4>3, <4>4
      <3>2. c[i - 9] = 20
        BY <1>3, <2>4, <3>1 DEF IsOneBit
      <3> QED
        BY <2>4, <3>1, <3>2
    <2>5. CASE i \in 11 .. 20
      <3>1. i \in Int /\ i - 10 \in 1 .. 10 /\ abcde[i] = d[i - 10]
        <4>1. i \in Int /\ i - 10 \in 1 .. 10 /\ i - 0 = i
          BY <2>5
        <4>2. abcde[i] = abcd[i]
          BY <1>17, <2>5
        <4>3. abcd[i] = d[i - 10]
          BY <1>16, <2>5
        <4> QED
          BY <4>1, <4>2, <4>3
      <3>2. d[i - 10] = 41 - i
        BY <1>8, <3>1
      <3> QED
        BY <2>5, <3>1, <3>2
    <2>6. CASE i = 21
      <3>1. i \in Int /\ i - 20 \in 1 .. 1 /\ abcde[i] = e[i - 20]
        <4>1. i \in Int /\ i - 20 \in 1 .. 1 /\ i - 0 = i
          BY <2>6
        <4>2. abcde[i] = e[i - 20]
          BY <1>17, <2>6
        <4> QED
          BY <4>1, <4>2
      <3>2. e[i - 20] = -1
        BY <1>5, <2>6, <3>1 DEF IsZeros
      <3> QED
        BY <2>6, <3>1, <3>2
    <2> QED
      BY <2>1, <2>2, <2>3, <2>4, <2>5, <2>6
  <1>19. Len(abcde) = 21
    BY <1>13 DEF Follows
  <1> HIDE DEF JType
  <1> QED
    BY <1>6, <1>18, <1>19


-----------------------------------------------------------------------------
(* The immediate generator gathers every format from RV32I's positions.    *)
Gathered(format, in) ==
  [k \in Positions |-> LET home == HomeOf(format, k) IN IF home = -1 THEN 0 ELSE in[home]]

LEMMA SameBits ==
  ASSUME NEW in, NEW fields, NEW format, NEW n \in Nat, Len(fields) = n,
         \A k \in Positions : (IF k < n THEN fields[n - k] ELSE fields[1]) = HomeOf(format, k)
  PROVE  Extended(in, fields) = Gathered(format, in)
  <1> DEFINE home(k) == HomeOf(format, k)
             from(k) == IF k < Len(fields) THEN fields[Len(fields) - k] ELSE fields[1]
  <1>1. \A k \in Positions : from(k) = home(k)
    OBVIOUS
  <1> HIDE DEF home, from
  <1>2. [k \in Positions |-> IF from(k) = -1 THEN 0 ELSE in[from(k)]]
          = [k \in Positions |-> IF home(k) = -1 THEN 0 ELSE in[home(k)]]
    BY <1>1
  <1> QED
    BY <1>2 DEF Extended, Gathered, ZeroBit, home, from

LEMMA IImmediate == \A in : Extended(in, IType) = Gathered("I", in)
  <1>1. ASSUME NEW k \in Positions
        PROVE  (IF k < 12 THEN IType[12 - k] ELSE IType[1]) = HomeOf("I", k)
    <2>1. k \in Int /\ 1 \in 1 .. 12 /\ (k < 12 => 12 - k \in 1 .. 12) /\ k \in 0 .. 31
      BY DEF Positions
    <2>2. k < 12 => IType[12 - k] = HomeOf("I", k)
      BY <2>1, ITypeIs DEF HomeOf
    <2>3. ~(k < 12) => IType[1] = HomeOf("I", k)
      BY <2>1, ITypeIs DEF HomeOf
    <2> QED
      BY <2>2, <2>3
  <1>2. Len(IType) = 12 /\ 12 \in Nat
    BY ITypeIs
  <1> QED
    BY <1>1, <1>2, SameBits

LEMMA SImmediate == \A in : Extended(in, SType) = Gathered("S", in)
  <1>1. ASSUME NEW k \in Positions
        PROVE  (IF k < 12 THEN SType[12 - k] ELSE SType[1]) = HomeOf("S", k)
    <2>1. k \in Int /\ 1 \in 1 .. 12 /\ (k < 12 => 12 - k \in 1 .. 12) /\ k \in 0 .. 31
      BY DEF Positions
    <2>2. k < 12 => SType[12 - k] = HomeOf("S", k)
      BY <2>1, STypeIs DEF HomeOf
    <2>3. ~(k < 12) => SType[1] = HomeOf("S", k)
      BY <2>1, STypeIs DEF HomeOf
    <2> QED
      BY <2>2, <2>3
  <1>2. Len(SType) = 12 /\ 12 \in Nat
    BY STypeIs
  <1> QED
    BY <1>1, <1>2, SameBits

LEMMA BImmediate == \A in : Extended(in, BType) = Gathered("B", in)
  <1>1. ASSUME NEW k \in Positions
        PROVE  (IF k < 13 THEN BType[13 - k] ELSE BType[1]) = HomeOf("B", k)
    <2>1. k \in Int /\ 1 \in 1 .. 13 /\ (k < 13 => 13 - k \in 1 .. 13) /\ k \in 0 .. 31
      BY DEF Positions
    <2>2. k < 13 => BType[13 - k] = HomeOf("B", k)
      BY <2>1, BTypeIs DEF HomeOf
    <2>3. ~(k < 13) => BType[1] = HomeOf("B", k)
      BY <2>1, BTypeIs DEF HomeOf
    <2> QED
      BY <2>2, <2>3
  <1>2. Len(BType) = 13 /\ 13 \in Nat
    BY BTypeIs
  <1> QED
    BY <1>1, <1>2, SameBits

LEMMA UImmediate == \A in : Extended(in, UType) = Gathered("U", in)
  <1>1. ASSUME NEW k \in Positions
        PROVE  (IF k < 32 THEN UType[32 - k] ELSE UType[1]) = HomeOf("U", k)
    <2>1. k \in Int /\ 1 \in 1 .. 32 /\ (k < 32 => 32 - k \in 1 .. 32) /\ k \in 0 .. 31
      BY DEF Positions
    <2>2. k < 32 => UType[32 - k] = HomeOf("U", k)
      BY <2>1, UTypeIs DEF HomeOf
    <2>3. ~(k < 32) => UType[1] = HomeOf("U", k)
      BY <2>1, UTypeIs DEF HomeOf
    <2> QED
      BY <2>2, <2>3
  <1>2. Len(UType) = 32 /\ 32 \in Nat
    BY UTypeIs
  <1> QED
    BY <1>1, <1>2, SameBits

LEMMA JImmediate == \A in : Extended(in, JType) = Gathered("J", in)
  <1>1. ASSUME NEW k \in Positions
        PROVE  (IF k < 21 THEN JType[21 - k] ELSE JType[1]) = HomeOf("J", k)
    <2>1. k \in Int /\ 1 \in 1 .. 21 /\ (k < 21 => 21 - k \in 1 .. 21) /\ k \in 0 .. 31
      BY DEF Positions
    <2>2. k < 21 => JType[21 - k] = HomeOf("J", k)
      BY <2>1, JTypeIs DEF HomeOf
    <2>3. ~(k < 21) => JType[1] = HomeOf("J", k)
      BY <2>1, JTypeIs DEF HomeOf
    <2> QED
      BY <2>2, <2>3
  <1>2. Len(JType) = 21 /\ 21 \in Nat
    BY JTypeIs
  <1> QED
    BY <1>1, <1>2, SameBits

(* The opcodes of the formats, and what the generator's case selects.      *)
LEMMA Decoded ==
  ASSUME NEW in, NEW o \in Opcodes, Opcode(in) = o[2]
  PROVE  /\ o[1] = "J" => ImmOut(in) = Extended(in, JType)
         /\ o[1] = "I" => ImmOut(in) = Extended(in, IType)
         /\ o[1] = "S" => ImmOut(in) = Extended(in, SType)
         /\ o[1] = "B" => ImmOut(in) = Extended(in, BType)
         /\ o[1] = "U" => ImmOut(in) = Extended(in, UType)
         /\ o[1] = "R" => ImmOut(in) = [k \in Positions |-> 0]
         /\ o[1] \in {"J", "I", "S", "B", "U", "R"}
  <1> DEFINE op == Opcode(in)
             J == <<1,1,0,1,1,1,1>>
             I1 == <<1,1,0,0,1,1,1>>
             I2 == <<0,0,1,0,0,1,1>>
             I3 == <<0,0,0,0,0,1,1>>
             S == <<0,1,0,0,0,1,1>>
             B == <<1,1,0,0,0,1,1>>
             U1 == <<0,1,1,0,1,1,1>>
             U2 == <<0,0,1,0,1,1,1>>
             R == <<0,1,1,0,0,1,1>>
             j == Extended(in, JType)
             i == Extended(in, IType)
             s == Extended(in, SType)
             b == Extended(in, BType)
             u == Extended(in, UType)
             z == [k \in Positions |-> 0]
  <1>1. o \in {<<"J", J>>, <<"I", I1>>, <<"I", I2>>, <<"I", I3>>, <<"S", S>>, <<"B", B>>,
               <<"U", U1>>, <<"U", U2>>, <<"R", R>>}
    BY DEF Opcodes
  <1>2. ImmOut(in) = CASE op = J -> j [] op \in {I1, I2, I3} -> i [] op = S -> s [] op = B -> b
                       [] op \in {U1, U2} -> u [] OTHER -> z
    BY DEF ImmOut
  <1>3. /\ J \notin {I1, I2, I3, S, B, U1, U2, R} /\ I1 \notin {S, B, U1, U2, R}
        /\ I2 \notin {S, B, U1, U2, R} /\ I3 \notin {S, B, U1, U2, R}
        /\ S \notin {B, U1, U2, R} /\ B \notin {U1, U2, R} /\ R \notin {U1, U2}
    OBVIOUS
  <1>4. op = o[2]
    OBVIOUS
  <1> HIDE DEF op, J, I1, I2, I3, S, B, U1, U2, R, j, i, s, b, u, z
  <1>5. \/ o[1] = "J" /\ op = J
        \/ o[1] = "I" /\ op \in {I1, I2, I3}
        \/ o[1] = "S" /\ op = S
        \/ o[1] = "B" /\ op = B
        \/ o[1] = "U" /\ op \in {U1, U2}
        \/ o[1] = "R" /\ op = R
    BY <1>1, <1>4
  <1>6. /\ op = J => ImmOut(in) = j
        /\ op \in {I1, I2, I3} => ImmOut(in) = i
        /\ op = S => ImmOut(in) = s
        /\ op = B => ImmOut(in) = b
        /\ op \in {U1, U2} => ImmOut(in) = u
        /\ op = R => ImmOut(in) = z
    BY <1>2, <1>3
  <1> QED
    BY <1>5, <1>6 DEF j, i, s, b, u, z

(* Whatever the rest of an instruction word holds, its immediate is made   *)
(* of the bits at the positions RV32I gives its format, sign-extended;     *)
(* the model of rv_immgen's concatenations, for every word.                *)
THEOREM ImmediateGathered ==
  ASSUME NEW in, NEW o \in Opcodes, Opcode(in) = o[2]
  PROVE  ImmOut(in) = Gathered(o[1], in)
  <1>1. Gathered("R", in) = [k \in Positions |-> 0]
    BY DEF Gathered, HomeOf
  <1> QED
    BY <1>1, Decoded, JImmediate, IImmediate, SImmediate, BImmediate, UImmediate


(* The words the specification presents hold their format's immediate.     *)
LEMMA HomesAreAboveOpcode ==
  ASSUME NEW o \in Opcodes, NEW k \in Positions
  PROVE  HomeOf(o[1], k) = -1 \/ HomeOf(o[1], k) \in 7 .. 31
  <1>1. o[1] \in {"J", "I", "S", "B", "U", "R"} /\ k \in 0 .. 31
    BY DEF Opcodes, Positions
  <1>2. CASE o[1] = "J"
    BY <1>1, <1>2 DEF HomeOf
  <1>3. CASE o[1] = "I"
    BY <1>1, <1>3 DEF HomeOf
  <1>4. CASE o[1] = "S"
    BY <1>1, <1>4 DEF HomeOf
  <1>5. CASE o[1] = "B"
    BY <1>1, <1>5 DEF HomeOf
  <1>6. CASE o[1] = "U"
    BY <1>1, <1>6 DEF HomeOf
  <1>7. CASE o[1] = "R"
    BY <1>1, <1>7 DEF HomeOf
  <1> QED
    BY <1>1, <1>2, <1>3, <1>4, <1>5, <1>6, <1>7

LEMMA EncodedIs ==
  ASSUME NEW o \in Opcodes, NEW base \in {0, 1}, NEW flip \in 6 .. 31, NEW rest \in {0, 1}
  PROVE  /\ Opcode(Encoded(o[1], o[2], base, flip, rest)) = o[2]
         /\ Gathered(o[1], Encoded(o[1], o[2], base, flip, rest)) = Immediate(o[1], base, flip)
  <1> DEFINE f == o[1]
             op == o[2]
             w == Encoded(f, op, base, flip, rest)
             home(k) == HomeOf(f, k)
             lives(i) == \E k \in Positions : home(k) = i
  <1>1. \A i \in Positions : w[i] = IF i <= 6 THEN op[7 - i]
                                    ELSE IF lives(i) THEN IF i = flip THEN 1 - base ELSE base
                                    ELSE rest
    BY DEF Encoded
  <1>2. \A k \in Positions : home(k) = -1 \/ home(k) \in 7 .. 31
    BY HomesAreAboveOpcode
  <1>3. op = [i \in 1 .. 7 |-> op[i]]
    BY DEF Opcodes
  <1>4. Gathered(f, w) = [k \in Positions |-> IF home(k) = -1 THEN 0 ELSE w[home(k)]]
    BY DEF Gathered
  <1>5. Immediate(f, base, flip) =
          [k \in Positions |-> IF home(k) = -1 THEN 0 ELSE IF home(k) = flip THEN 1 - base ELSE base]
    BY DEF Immediate
  <1>6. Opcode(w) = [i \in 1 .. 7 |-> w[7 - i]]
    BY DEF Opcode
  <1> HIDE DEF w, f, op, home
  <1>7. ASSUME NEW i \in 1 .. 7 PROVE w[7 - i] = op[i]
    <2>1. 7 - i \in Positions /\ 7 - i <= 6 /\ 7 - (7 - i) = i
      BY DEF Positions
    <2> QED
      BY <1>1, <2>1
  <1>8. Opcode(w) = op
    BY <1>3, <1>6, <1>7
  <1>9. ASSUME NEW k \in Positions, home(k) # -1
        PROVE  w[home(k)] = IF home(k) = flip THEN 1 - base ELSE base
    <2> DEFINE i == home(k)
    <2>1. i \in Positions /\ ~(i <= 6) /\ lives(i)
      BY <1>2, <1>9 DEF Positions
    <2> HIDE DEF i, lives
    <2>2. w[i] = IF i = flip THEN 1 - base ELSE base
      BY <1>1, <2>1
    <2> QED
      BY <2>2 DEF i
  <1>10. Gathered(f, w) = Immediate(f, base, flip)
    BY <1>4, <1>5, <1>9
  <1> QED
    BY <1>8, <1>10 DEF w, f, op

LEMMA ImmediateIs ==
  ASSUME NEW i \in Instrs PROVE ImmOut(i.word) = i.imm
  <1>1. PICK o \in Opcodes, base \in {0, 1}, flip \in 6 .. 31, rest \in {0, 1} :
          i = [unit |-> "immgen", word |-> Encoded(o[1], o[2], base, flip, rest),
               imm |-> Immediate(o[1], base, flip)]
    BY DEF Instrs
  <1> DEFINE w == Encoded(o[1], o[2], base, flip, rest)
             m == Immediate(o[1], base, flip)
  <1>2. Opcode(w) = o[2] /\ Gathered(o[1], w) = m
    BY EncodedIs
  <1> HIDE DEF w, m
  <1>3. i.word = w /\ i.imm = m
    BY <1>1 DEF w, m
  <1>4. ImmOut(w) = Gathered(o[1], w)
    BY <1>2, ImmediateGathered
  <1> QED
    BY <1>2, <1>3, <1>4

-----------------------------------------------------------------------------
(* What is presented, and that settled logic shows its function of it.     *)
AluInv ==
  /\ Presented
  /\ instr # NoInstr => instr \in Instrs
  /\ settled => /\ out = AluOutput(alu_op, control, in1, in2)
                /\ branch_taken = Taken(control[2], in1, in2)
                /\ instr # NoInstr => imm_out = ImmOut(instr.word)

LEMMA Settles == Spec => []AluInv
  <1>1. Init => AluInv
    <2> SUFFICES ASSUME Init PROVE AluInv
      OBVIOUS
    <2>1. 0 \in AluWord
      BY HalfIs DEF AluWord
    <2>2. Presented
      BY <2>1 DEF Init, Presented
    <2>3. instr # NoInstr => instr \in Instrs
      BY DEF Init
    <2>4. ~settled
      BY DEF Init
    <2> QED
      BY <2>2, <2>3, <2>4 DEF AluInv
  <1>2. AluInv /\ [Next]_vars => AluInv'
    <2> SUFFICES ASSUME AluInv, [Next]_vars PROVE AluInv'
      OBVIOUS
    <2>1. CASE Evaluate
      <3>1. Presented'
        BY <2>1 DEF AluInv, Presented, Evaluate
      <3>2. (instr # NoInstr => instr \in Instrs)'
        BY <2>1 DEF AluInv, Evaluate
      <3>3. (out = AluOutput(alu_op, control, in1, in2))'
        BY <2>1 DEF Evaluate
      <3>4. (branch_taken = Taken(control[2], in1, in2))'
        BY <2>1, Zenon DEF Evaluate
      <3>5. (instr # NoInstr => imm_out = ImmOut(instr.word))'
        BY <2>1 DEF Evaluate
      <3> QED
        BY <3>1, <3>2, <3>3, <3>4, <3>5 DEF AluInv
    <2>2. CASE UNCHANGED vars
      <3>1. Presented'
        BY <2>2 DEF AluInv, Presented, vars
      <3>2. (instr # NoInstr => instr \in Instrs)'
        BY <2>2 DEF AluInv, vars
      <3>3. (settled => /\ out = AluOutput(alu_op, control, in1, in2)
                        /\ branch_taken = Taken(control[2], in1, in2)
                        /\ instr # NoInstr => imm_out = ImmOut(instr.word))'
        BY <2>2, Zenon DEF AluInv, vars
      <3> QED
        BY <3>1, <3>2, <3>3 DEF AluInv
    <2> QED
      BY <2>1, <2>2 DEF Next
  <1> QED
    BY <1>1, <1>2, PTL DEF Spec

(* Every ALU instruction computes RV32I's result, on words of every width  *)
(* that is a power of two: AluAgrees.                                      *)
THEOREM AluComputesRv32i == Spec => []AluAgrees
  <1>1. AluInv => AluAgrees
    BY ResultIsRv32i DEF AluInv, AluAgrees
  <1> QED
    BY <1>1, Settles, PTL

(* The six comparisons of rv_exu agree with comparing the operands bit by  *)
(* bit, on words of every such width: BranchAgrees.                        *)
THEOREM BranchesCompare == Spec => []BranchAgrees
  <1>1. ASSUME AluInv, settled PROVE BranchAgrees
    BY <1>1, TakenIsRv32i DEF AluInv
  <1>2. ~settled => BranchAgrees
    BY DEF BranchAgrees
  <1>3. AluInv => BranchAgrees
    BY <1>1, <1>2
  <1> QED
    BY <1>3, Settles, PTL

(* Every immediate comes out of the word its format scatters it over:      *)
(* ImmediateAgrees.                                                        *)
THEOREM ImmediatesComeOut == Spec => []ImmediateAgrees
  <1>1. AluInv => ImmediateAgrees
    BY ImmediateIs DEF AluInv, ImmediateAgrees
  <1> QED
    BY <1>1, Settles, PTL

=============================================================================
