---------------------------- MODULE NumberProofs ----------------------------
(***************************************************************************)
(* Facts about numbers for the proofs about positions, groups and orders:   *)
(* division with remainder, least and greatest elements, induction; and     *)
(* about sequences that are put together and numbers that are summed.       *)
(***************************************************************************)
EXTENDS Integers, FiniteSetsExt, SequencesExt, FiniteSetTheorems, FunctionTheorems,
        SequenceTheorems, WellFoundedInduction, TLAPS

-----------------------------------------------------------------------------
(* Division with remainder.                                                  *)
LEMMA QuotientUnique ==
  ASSUME NEW d \in Nat, NEW q1 \in Int, NEW q2 \in Int, NEW r1 \in Int, NEW r2 \in Int,
         0 <= r1, r1 < d, 0 <= r2, r2 < d,
         q1 * d + r1 = q2 * d + r2
  PROVE  q1 = q2 /\ r1 = r2
<1>1. ASSUME NEW a \in Int, NEW b \in Int, a < b PROVE a * d + d <= b * d
  <2>1. PICK k \in Nat : b = a + 1 + k
    <3>1. b - a - 1 \in Nat /\ b = a + 1 + (b - a - 1)
      BY <1>1
    <3> QED BY <3>1
  <2>2. k * d >= 0
    OBVIOUS
  <2>3. b * d = a * d + d + k * d
    BY <2>1
  <2>4. a * d \in Int /\ b * d \in Int /\ k * d \in Int
    OBVIOUS
  <2> QED BY <2>2, <2>3, <2>4
<1>2. q1 * d \in Int /\ q2 * d \in Int
  OBVIOUS
<1>3. ~(q1 < q2)
  <2> SUFFICES ASSUME q1 < q2 PROVE FALSE
    OBVIOUS
  <2>1. q1 * d + d <= q2 * d
    BY <1>1
  <2> QED BY <1>2, <2>1
<1>4. ~(q2 < q1)
  <2> SUFFICES ASSUME q2 < q1 PROVE FALSE
    OBVIOUS
  <2>1. q2 * d + d <= q1 * d
    BY <1>1
  <2> QED BY <1>2, <2>1
<1> QED BY <1>2, <1>3, <1>4

LEMMA Division ==
  ASSUME NEW n \in Nat, NEW d \in Nat \ {0}
  PROVE  \E q \in Nat, r \in 0..(d - 1) : n \div d = q /\ n % d = r /\ n = q * d + r
<1>1. n % d \in 0..(d - 1)
  OBVIOUS
<1>2. n \div d \in Nat
  OBVIOUS
<1>3. n = (n \div d) * d + (n % d)
  OBVIOUS
<1> QED BY <1>1, <1>2, <1>3

LEMMA DivisionOf ==
  ASSUME NEW d \in Nat \ {0}, NEW q \in Nat, NEW r \in 0..(d - 1)
  PROVE  (q * d + r) \div d = q /\ (q * d + r) % d = r
<1>1. q * d + r \in Nat
  OBVIOUS
<1>2. PICK a \in Nat, b \in 0..(d - 1) :
        (q * d + r) \div d = a /\ (q * d + r) % d = b /\ q * d + r = a * d + b
  BY <1>1, Division
<1>3. a = q /\ b = r
  BY <1>2, QuotientUnique
<1> QED BY <1>2, <1>3

(* Products of natural numbers.                                              *)
LEMMA ProductMonotone ==
  ASSUME NEW a \in Nat, NEW b \in Nat, NEW d \in Nat, a < b
  PROVE  a * d + d <= b * d /\ a * d \in Nat /\ b * d \in Nat
<1>1. PICK k \in Nat : b = a + 1 + k
  <2>1. b - a - 1 \in Nat /\ b = a + 1 + (b - a - 1)
    OBVIOUS
  <2> QED BY <2>1
<1>2. k * d >= 0 /\ k * d \in Nat /\ a * d \in Nat
  OBVIOUS
<1>3. b * d = a * d + d + k * d
  BY <1>1
<1> QED BY <1>2, <1>3

LEMMA ProductLeq ==
  ASSUME NEW a \in Nat, NEW b \in Nat, NEW d \in Nat, a <= b
  PROVE  a * d <= b * d
<1>1. a * d \in Nat /\ b * d \in Nat
  OBVIOUS
<1>2. CASE a = b
  BY <1>1, <1>2
<1>3. CASE a < b
  <2>1. a * d + d <= b * d
    BY <1>3, ProductMonotone
  <2> QED BY <1>1, <2>1
<1> QED BY <1>2, <1>3

(* Counting up by one.                                                       *)
LEMMA NextQuotient ==
  ASSUME NEW c \in Nat, NEW d \in Nat \ {0}
  PROVE  IF c % d = d - 1 THEN (c + 1) \div d = c \div d + 1 /\ (c + 1) % d = 0
         ELSE (c + 1) \div d = c \div d /\ (c + 1) % d = (c % d) + 1
<1>1. PICK q \in Nat, r \in 0..(d - 1) : c \div d = q /\ c % d = r /\ c = q * d + r
  BY Division
<1>2. q * d \in Nat /\ (q + 1) * d = q * d + d
  OBVIOUS
<1>3. CASE r = d - 1
  <2>1. PICK k \in Nat : k = q + 1
    OBVIOUS
  <2>2. c + 1 = k * d + 0 /\ 0 \in 0..(d - 1)
    BY <1>1, <1>2, <1>3, <2>1
  <2>3. (k * d + 0) \div d = k /\ (k * d + 0) % d = 0
    BY <2>2, DivisionOf
  <2> QED BY <1>1, <1>3, <2>1, <2>2, <2>3
<1>4. CASE r # d - 1
  <2>1. c + 1 = q * d + (r + 1) /\ r + 1 \in 0..(d - 1)
    BY <1>1, <1>2, <1>4
  <2>2. (c + 1) \div d = q /\ (c + 1) % d = r + 1
    BY <2>1, DivisionOf
  <2> QED BY <1>1, <1>4, <2>2
<1> QED BY <1>3, <1>4

-----------------------------------------------------------------------------
(* Min and Max of sets of natural numbers.                                   *)
LEMMA MinIsLeast ==
  ASSUME NEW S \in SUBSET Nat, S # {}
  PROVE  Min(S) \in S /\ \A y \in S : Min(S) <= y
<1>1. PICK x \in S : \A y \in S : ~(<<y, x>> \in OpToRel(<, Nat))
  BY NatLessThanWellFounded, WFMin
<1>2. ASSUME NEW y \in S PROVE x <= y
  <2>1. ~(<<y, x>> \in OpToRel(<, Nat))
    BY <1>1
  <2>2. ~(y < x)
    BY <2>1 DEF OpToRel
  <2> QED BY <2>2
<1> QED BY <1>2 DEF Min

LEMMA MaxIsGreatest ==
  ASSUME NEW S \in SUBSET Nat, S # {}, NEW n \in Nat, \A y \in S : y <= n
  PROVE  Max(S) \in S /\ \A y \in S : Max(S) >= y
<1> DEFINE B == {k \in Nat : \A y \in S : y <= k}
<1>1. PICK m \in B : \A k \in B : m <= k
  <2>1. B \in SUBSET Nat /\ n \in B
    OBVIOUS
  <2> QED BY <2>1, MinIsLeast
<1>2. m \in S
  <2> SUFFICES ASSUME m \notin S PROVE FALSE
    OBVIOUS
  <2>1. PICK y \in S : y \in Nat
    OBVIOUS
  <2>2. m \in Nat /\ \A z \in S : z <= m /\ z # m /\ z \in Nat
    BY <1>1
  <2>3. m - 1 \in Nat /\ \A z \in S : z <= m - 1
    BY <2>1, <2>2
  <2> QED BY <1>1, <2>2, <2>3
<1>3. \A y \in S : m >= y
  BY <1>1
<1> QED BY <1>2, <1>3 DEF Max

(* The function from 0..n has a greatest value; the least prefix without a   *)
(* bound would have a bound.                                                 *)
LEMMA Bounded ==
  ASSUME NEW n \in Nat, NEW f, \A i \in 0..n : f[i] \in Nat
  PROVE  \E m \in Nat : \A i \in 0..n : f[i] <= m
<1> DEFINE Unbounded == {k \in 0..n : \A m \in Nat : \E i \in 0..k : f[i] > m}
<1>1. CASE Unbounded = {}
  <2>1. n \notin Unbounded /\ n \in 0..n
    BY <1>1
  <2>2. PICK m \in Nat : \A i \in 0..n : ~(f[i] > m)
    BY <2>1
  <2> QED BY <2>2
<1>2. CASE Unbounded # {}
  <2>1. PICK k \in Unbounded : \A j \in Unbounded : k <= j
    <3>1. Unbounded \in SUBSET Nat
      OBVIOUS
    <3> HIDE DEF Unbounded
    <3> QED BY <1>2, <3>1, MinIsLeast
  <2>2. k \in 0..n /\ \A m \in Nat : \E i \in 0..k : f[i] > m
    OBVIOUS
  <2>3. k # 0
    <3>1. PICK m \in Nat : m = f[0]
      OBVIOUS
    <3>2. ASSUME k = 0 PROVE \E i \in 0..0 : f[i] > m
      BY <2>2, <3>2
    <3>3. ASSUME NEW i \in 0..0 PROVE ~(f[i] > m)
      BY <3>1
    <3> QED BY <3>2, <3>3
  <2>4. PICK j \in 0..n : k = j + 1
    <3>1. k - 1 \in 0..n /\ k = (k - 1) + 1
      BY <2>2, <2>3
    <3> QED BY <3>1
  <2>5. j \notin Unbounded
    <3>1. k \in Int /\ j \in Int
      BY <2>2
    <3> HIDE DEF Unbounded
    <3> QED BY <2>1, <2>4, <3>1
  <2>6. PICK m \in Nat : \A i \in 0..j : f[i] <= m
    <3>1. PICK m \in Nat : \A i \in 0..j : ~(f[i] > m)
      BY <2>4, <2>5
    <3>2. ASSUME NEW i \in 0..j PROVE f[i] <= m
      <4>1. f[i] \in Nat
        BY <2>4
      <4> QED BY <3>1, <4>1
    <3> HIDE DEF Unbounded
    <3> QED BY <3>1, <3>2
  <2>7. PICK v \in Nat : v = f[k]
    BY <2>2
  <2>8. \E b \in Nat : m <= b /\ v <= b
    <3>1. m + v \in Nat /\ m <= m + v /\ v <= m + v
      BY <2>6, <2>7
    <3> QED BY <3>1
  <2>9. PICK b \in Nat : m <= b /\ v <= b
    BY <2>8
  <2>10. PICK i \in 0..k : f[i] > b
    BY <2>2
  <2>11. i \in 0..j \/ i = k
    BY <2>4
  <2> QED BY <2>2, <2>6, <2>7, <2>9, <2>10, <2>11
<1> QED BY <1>1, <1>2

-----------------------------------------------------------------------------
(* Induction, over a set: what holds for 0 and for the number after one for  *)
(* which it holds, holds for all.                                            *)
LEMMA Inductive ==
  ASSUME NEW T \in SUBSET Nat, 0 \in T, \A m \in T : m + 1 \in T
  PROVE  T = Nat
<1> SUFFICES ASSUME Nat \ T # {} PROVE FALSE
  OBVIOUS
<1>1. PICK m \in Nat \ T : \A k \in Nat \ T : m <= k
  <2>1. Nat \ T \in SUBSET Nat
    OBVIOUS
  <2> QED BY <2>1, MinIsLeast
<1>2. m # 0
  BY <1>1
<1>3. PICK k \in Nat : m = k + 1
  <2>1. m - 1 \in Nat /\ m = (m - 1) + 1
    BY <1>2
  <2> QED BY <2>1
<1>4. ~(m <= k)
  BY <1>3
<1> QED BY <1>1, <1>3, <1>4

-----------------------------------------------------------------------------
(* The sequences of a sequence, put one behind the other: FlattenSeq is the   *)
(* last of the sequences f[1], f[2] ... of which each is the one before it    *)
(* and one more.                                                             *)
Chained(s, m, f) == f = [i \in 1..m |-> IF i = 1 THEN s[i] ELSE f[i - 1] \o s[i]]

Grows(s, n, f) == f[1] = s[1] /\ \A i \in 1..(n - 1) : f[i + 1] = f[i] \o s[i + 1]

LEMMA FlattenIs ==
  ASSUME NEW n \in Nat \ {0}, NEW s, Len(s) = n
  PROVE  \E f : FlattenSeq(s) = f[n] /\ Grows(s, n, f)
<1> DEFINE T == {m \in Nat : \E f : Chained(s, m, f)}
<1>1. 0 \in T
  <2>1. Chained(s, 0, [i \in 1..0 |-> 0])
    BY DEF Chained
  <2> QED BY <2>1
<1>2. ASSUME NEW m \in T PROVE m + 1 \in T
  <2>1. m \in Nat /\ \E f : Chained(s, m, f)
    OBVIOUS
  <2> HIDE DEF T
  <2>a. PICK f : Chained(s, m, f)
    BY <2>1
  <2> DEFINE g == [i \in 1..(m + 1) |-> IF i <= m THEN f[i] ELSE IF i = 1 THEN s[i] ELSE f[i - 1] \o s[i]]
  <2>2. ASSUME NEW i \in 1..(m + 1)
        PROVE  g[i] = IF i = 1 THEN s[i] ELSE g[i - 1] \o s[i]
    <3>1. m \in Nat /\ i \in Nat /\ (i # 1 => i - 1 \in 1..(m + 1) /\ i - 1 <= m)
      BY <2>1
    <3>2. ASSUME i <= m PROVE f[i] = IF i = 1 THEN s[i] ELSE f[i - 1] \o s[i]
      <4>1. i \in 1..m
        BY <3>1, <3>2
      <4> QED BY <2>a, <4>1 DEF Chained
    <3>3. i # 1 => g[i - 1] = f[i - 1]
      BY <3>1
    <3> QED BY <3>1, <3>2, <3>3
  <2>3. g = [i \in 1..(m + 1) |-> g[i]]
    OBVIOUS
  <2> HIDE DEF g
  <2>4. g = [i \in 1..(m + 1) |-> IF i = 1 THEN s[i] ELSE g[i - 1] \o s[i]]
    BY <2>2, <2>3
  <2>5. Chained(s, m + 1, g)
    BY <2>4 DEF Chained
  <2> QED BY <2>1, <2>5 DEF T
<1>3. \E f : Chained(s, n, f)
  <2>1. T \in SUBSET Nat
    OBVIOUS
  <2> HIDE DEF T
  <2>2. n \in T
    BY <1>1, <1>2, <2>1, Inductive
  <2> QED BY <2>2 DEF T
<1> DEFINE f == CHOOSE f : Chained(s, n, f)
<1>4. FlattenSeq(s) = f[n]
  BY DEF FlattenSeq, Chained
<1>5. Chained(s, n, f)
  BY <1>3
<1> HIDE DEF f
<1>6. f[1] = s[1]
  BY <1>5 DEF Chained
<1>7. ASSUME NEW i \in 1..(n - 1) PROVE f[i + 1] = f[i] \o s[i + 1]
  <2>1. i + 1 \in 1..n /\ i + 1 # 1 /\ (i + 1) - 1 = i
    OBVIOUS
  <2> QED BY <1>5, <2>1 DEF Chained
<1>8. Grows(s, n, f)
  BY <1>6, <1>7 DEF Grows
<1> QED BY <1>4, <1>8

(* The sequence q has each of the elements of Y, and no others, once.        *)
Lists(q, Y) ==
  /\ q \in Seq(Y)
  /\ \A y \in Y : \E k \in 1..Len(q) : q[k] = y
  /\ \A j, k \in 1..Len(q) : q[j] = q[k] => j = k

(* Nothing, one thing, and as many as there are.                             *)
LEMMA ListsNone == Lists(<<>>, {})
BY EmptySeq DEF Lists

LEMMA ListsOne ==
  ASSUME NEW y
  PROVE  Lists(<<y>>, {y})
BY DEF Lists

LEMMA ListsEmpty ==
  ASSUME NEW q, NEW Y, Lists(q, Y)
  PROVE  q = <<>> <=> Y = {}
<1>1. ASSUME q = <<>> PROVE Y = {}
  <2>1. Len(q) = 0
    BY <1>1
  <2> QED BY <2>1 DEF Lists
<1>2. ASSUME q # <<>> PROVE Y # {}
  <2>1. q \in Seq(Y) /\ Len(q) \in Nat \ {0}
    BY <1>2, EmptySeq DEF Lists
  <2>2. q[1] \in Y
    BY <2>1, ElementOfSeq
  <2> QED BY <2>2
<1> QED BY <1>1, <1>2

LEMMA ListsCount ==
  ASSUME NEW q, NEW Y, Lists(q, Y)
  PROVE  IsFiniteSet(Y) /\ Cardinality(Y) = Len(q)
<1>1. Len(q) \in Nat /\ q \in [1..Len(q) -> Y]
  BY LenProperties DEF Lists
<1>2. PICK n \in Nat : n = Len(q)
  BY <1>1
<1>3. IsFiniteSet(1..n) /\ Cardinality(1..n) = n
  <2>1. IsFiniteSet(1..n) /\ Cardinality(1..n) = IF 1 > n THEN 0 ELSE n - 1 + 1
    BY FS_Interval
  <2> QED BY <2>1
<1>4. q \in Bijection(1..n, Y)
  BY <1>1, <1>2 DEF Lists, Bijection, Injection, Surjection, IsInjective
<1> QED BY <1>2, <1>3, <1>4, FS_Bijection DEF ExistsBijection

(* Two lists that have nothing in common, put one behind the other.          *)
LEMMA ListsBoth ==
  ASSUME NEW p, NEW X, Lists(p, X), NEW q, NEW Y, Lists(q, Y), X \intersect Y = {}
  PROVE  Lists(p \o q, X \union Y)
<1>1. PICK m \in Nat, n \in Nat : m = Len(p) /\ n = Len(q)
  BY LenProperties DEF Lists
<1>2. p \in Seq(X \union Y) /\ q \in Seq(X \union Y)
  BY SeqMonotonic DEF Lists
<1>0. PICK w : w = p \o q
  OBVIOUS
<1>3. /\ w \in Seq(X \union Y) /\ Len(w) = m + n
      /\ \A i \in 1..(m + n) : w[i] = IF i <= m THEN p[i] ELSE q[i - m]
  BY <1>1, <1>2, <1>0, ConcatProperties
<1>4. /\ \A i \in 1..m : p[i] \in X /\ w[i] = p[i]
      /\ \A i \in 1..n : q[i] \in Y /\ w[m + i] = q[i] /\ m + i \in 1..(m + n)
  <2>1. ASSUME NEW i \in 1..m PROVE p[i] \in X /\ w[i] = p[i]
    <3>1. i \in 1..(m + n) /\ i <= m
      OBVIOUS
    <3> QED BY <1>1, <1>3, <3>1, ElementOfSeq DEF Lists
  <2>2. ASSUME NEW i \in 1..n PROVE q[i] \in Y /\ w[m + i] = q[i] /\ m + i \in 1..(m + n)
    <3>1. m + i \in 1..(m + n) /\ ~(m + i <= m) /\ m + i - m = i
      OBVIOUS
    <3>2. w[m + i] = q[m + i - m]
      BY <1>3, <3>1
    <3> QED BY <1>1, <3>1, <3>2, ElementOfSeq DEF Lists
  <2> QED BY <2>1, <2>2
<1>5. ASSUME NEW y \in X \union Y PROVE \E k \in 1..(m + n) : w[k] = y
  <2>1. CASE y \in X
    <3>1. PICK k \in 1..m : p[k] = y
      BY <1>1, <2>1 DEF Lists
    <3>2. k \in 1..(m + n) /\ w[k] = y
      BY <1>4, <3>1
    <3> QED BY <3>2
  <2>2. CASE y \in Y
    <3>1. PICK k \in 1..n : q[k] = y
      BY <1>1, <2>2 DEF Lists
    <3>2. m + k \in 1..(m + n) /\ w[m + k] = y
      BY <1>4, <3>1
    <3> QED BY <3>2
  <2> QED BY <2>1, <2>2
<1>6. ASSUME NEW j \in 1..(m + n), NEW k \in 1..(m + n), w[j] = w[k] PROVE j = k
  <2>1. ASSUME NEW i \in 1..(m + n)
        PROVE  (i \in 1..m) \/ (\E l \in 1..n : i = m + l)
    <3>1. i <= m \/ (i - m \in 1..n /\ i = m + (i - m))
      OBVIOUS
    <3> QED BY <3>1
  <2>2. CASE j \in 1..m /\ k \in 1..m
    BY <1>1, <1>4, <1>6, <2>2 DEF Lists
  <2>3. ASSUME NEW i \in 1..n, NEW l \in 1..n, j = m + i, k = m + l PROVE j = k
    <3>1. q[i] = q[l]
      BY <1>4, <1>6, <2>3
    <3>2. i = l
      BY <1>1, <3>1 DEF Lists
    <3> QED BY <2>3, <3>2
  <2>4. ASSUME j \in 1..m, NEW l \in 1..n, k = m + l PROVE FALSE
    <3>1. p[j] = q[l] /\ p[j] \in X /\ q[l] \in Y
      BY <1>4, <1>6, <2>4
    <3> QED BY <3>1
  <2>5. ASSUME k \in 1..m, NEW l \in 1..n, j = m + l PROVE FALSE
    <3>1. p[k] = q[l] /\ p[k] \in X /\ q[l] \in Y
      BY <1>4, <1>6, <2>5
    <3> QED BY <3>1
  <2> QED BY <2>1, <2>2, <2>3, <2>4, <2>5
<1> QED BY <1>1, <1>0, <1>3, <1>5, <1>6 DEF Lists

Joins(X, Y, Z) == Z = X \union Y /\ X \intersect Y = {}

LEMMA ListsConcat ==
  ASSUME NEW p, NEW X, Lists(p, X), NEW q, NEW Y, Lists(q, Y), NEW Z, Joins(X, Y, Z),
         NEW w, w = p \o q
  PROVE  Lists(w, Z)
BY ListsBoth DEF Joins

(* Elements that are told apart before and after they are changed.           *)
LEMMA ListsMap ==
  ASSUME NEW q, NEW Y, Lists(q, Y), NEW g, DOMAIN g = Y,
         \A x, y \in Y : g[x] = g[y] => x = y
  PROVE  /\ Lists([k \in DOMAIN q |-> g[q[k]]], {g[y] : y \in Y})
         /\ Len([k \in DOMAIN q |-> g[q[k]]]) = Len(q)
<1> DEFINE w == [k \in DOMAIN q |-> g[q[k]]]
           W == {g[y] : y \in Y}
<1>1. PICK n \in Nat : n = Len(q)
  BY LenProperties DEF Lists
<1>2. DOMAIN q = 1..n /\ \A k \in 1..n : q[k] \in Y
  BY <1>1, LenProperties DEF Lists
<1>3. DOMAIN w = 1..n /\ \A k \in 1..n : w[k] = g[q[k]] /\ w[k] \in W
  BY <1>2
<1>4. w = [k \in 1..n |-> w[k]]
  BY <1>2
<1>5. \A x \in Y : g[x] \in W
  OBVIOUS
<1>6. \A z \in W : \E x \in Y : z = g[x]
  OBVIOUS
<1> HIDE DEF w, W
<1>7. w \in [1..n -> W]
  BY <1>3, <1>4
<1>8. w \in Seq(W)
  BY <1>7
<1>9. Len(w) = n
  BY <1>3, <1>8, LenProperties
<1>10. ASSUME NEW z \in W PROVE \E k \in 1..n : w[k] = z
  <2>1. PICK x \in Y : z = g[x]
    BY <1>6
  <2>2. PICK k \in 1..n : q[k] = x
    BY <1>1 DEF Lists
  <2> QED BY <1>3, <2>1, <2>2
<1>11. ASSUME NEW j \in 1..n, NEW k \in 1..n, w[j] = w[k] PROVE j = k
  <2>1. q[j] = q[k]
    BY <1>2, <1>3, <1>11
  <2> QED BY <1>1, <2>1 DEF Lists
<1>12. Lists(w, W)
  BY <1>8, <1>9, <1>10, <1>11 DEF Lists
<1> QED BY <1>1, <1>9, <1>12 DEF w, W

Pieces(X, n) == UNION {X[i] : i \in 1..n}

(* Lists that have nothing in common, put one behind the other.              *)
LEMMA FlattenLists ==
  ASSUME NEW n \in Nat \ {0}, NEW s, Len(s) = n, NEW X,
         \A i \in 1..n : Lists(s[i], X[i]),
         \A i, j \in 1..n : i # j => X[i] \intersect X[j] = {}
  PROVE  Lists(FlattenSeq(s), Pieces(X, n))
<1>0. PICK f : FlattenSeq(s) = f[n] /\ Grows(s, n, f)
  BY FlattenIs
<1>1. /\ FlattenSeq(s) = f[n] /\ f[1] = s[1]
      /\ \A i \in 1..(n - 1) : f[i + 1] = f[i] \o s[i + 1]
  BY <1>0 DEF Grows
<1> DEFINE U(m) == UNION {X[i] : i \in 1..m}
           T == {m \in Nat : m + 1 \in 1..n => Lists(f[m + 1], U(m + 1))}
<1>2. 0 \in T
  <2>1. U(1) = X[1]
    OBVIOUS
  <2>2. 1 \in 1..n
    OBVIOUS
  <2>3. Lists(f[1], U(1))
    BY <1>1, <2>1, <2>2
  <2>4. 0 + 1 = 1
    OBVIOUS
  <2> HIDE DEF U
  <2> QED BY <2>3, <2>4
<1>3. ASSUME NEW m \in T PROVE m + 1 \in T
  <2>1. m \in Nat /\ (m + 1 \in 1..n => Lists(f[m + 1], U(m + 1)))
    OBVIOUS
  <2>2. ASSUME m + 2 \in 1..n PROVE Lists(f[m + 2], U(m + 2))
    <3>1. m + 1 \in 1..n /\ m + 1 \in 1..(n - 1) /\ (m + 1) + 1 = m + 2
      BY <2>1, <2>2
    <3>2. f[m + 2] = f[m + 1] \o s[m + 2]
      BY <1>1, <3>1
    <3>3. U(m + 2) = U(m + 1) \union X[m + 2]
      <4>1. 1..(m + 2) = 1..(m + 1) \union {m + 2}
        BY <2>1
      <4> QED BY <4>1
    <3>4. U(m + 1) \intersect X[m + 2] = {}
      <4>1. ASSUME NEW i \in 1..(m + 1) PROVE X[i] \intersect X[m + 2] = {}
        <5>1. i \in 1..n /\ i # m + 2
          BY <2>1, <2>2
        <5> QED BY <2>2, <5>1
      <4> QED BY <4>1
    <3>5. Lists(f[m + 1], U(m + 1)) /\ Lists(s[m + 2], X[m + 2])
      BY <2>1, <2>2, <3>1
    <3> HIDE DEF U
    <3>6. Joins(U(m + 1), X[m + 2], U(m + 2))
      BY <3>3, <3>4 DEF Joins
    <3> QED BY <3>2, <3>5, <3>6, ListsConcat
  <2>3. (m + 1) + 1 = m + 2
    BY <2>1
  <2> HIDE DEF U
  <2> QED BY <2>1, <2>2, <2>3
<1>4. n - 1 \in T
  <2>1. T \in SUBSET Nat /\ n - 1 \in Nat
    OBVIOUS
  <2> HIDE DEF T
  <2> QED BY <1>2, <1>3, <2>1, Inductive
<1>5. (n - 1) + 1 = n /\ n \in 1..n
  OBVIOUS
<1>6. Lists(f[n], U(n))
  <2> HIDE DEF U
  <2> QED BY <1>4, <1>5
<1> QED BY <1>1, <1>6 DEF Pieces

-----------------------------------------------------------------------------
(* A sum: FoldSeq takes out one element after the other, in an order that     *)
(* CHOOSE decides; f[u] is the sum of the elements at the places u.           *)
Some(u) == CHOOSE x \in u : TRUE
Without(u, x) == u \ {x}
SumAt(s, f, u) == IF u = {} THEN 0 ELSE s[Some(u)] + f[Without(u, Some(u))]
Summed(s, S, f) == f = [u \in SUBSET S |-> SumAt(s, f, u)]

(* Sets with an element less.                                                *)
LEMMA Smaller ==
  ASSUME NEW S, IsFiniteSet(S), NEW u \in SUBSET S, NEW x \in u, NEW m \in Nat,
         Cardinality(u) <= m + 1
  PROVE  Without(u, x) \in SUBSET S /\ Cardinality(Without(u, x)) <= m
<1>1. IsFiniteSet(u)
  BY FS_Subset
<1>2. Cardinality(u) \in Nat
  BY <1>1, FS_CardinalityType
<1>3. Cardinality(u \ {x}) = Cardinality(u) - 1
  BY <1>1, FS_RemoveElement
<1> QED BY <1>2, <1>3 DEF Without

LEMMA SmallerEmpty ==
  ASSUME NEW S, IsFiniteSet(S), NEW u \in SUBSET S, Cardinality(u) <= 0
  PROVE  u = {}
<1>1. IsFiniteSet(u) /\ Cardinality(u) \in Nat
  BY FS_Subset, FS_CardinalityType
<1>2. Cardinality(u) = 0
  BY <1>1
<1> QED BY <1>1, <1>2, FS_EmptySet

LEMMA SomeIn ==
  ASSUME NEW u, u # {}
  PROVE  Some(u) \in u
BY DEF Some

(* There is such a function f, for every finite set of places.               *)
LEMMA SummedExists ==
  ASSUME NEW S, IsFiniteSet(S), NEW s
  PROVE  \E f : Summed(s, S, f)
<1> DEFINE T == {m \in Nat : \E f : \A u \in SUBSET S : Cardinality(u) <= m => f[u] = SumAt(s, f, u)}
<1>1. 0 \in T
  <2> DEFINE f == [u \in SUBSET S |-> 0]
  <2>1. ASSUME NEW u \in SUBSET S, Cardinality(u) <= 0 PROVE f[u] = SumAt(s, f, u)
    <3>1. u = {}
      BY <2>1, SmallerEmpty
    <3> QED BY <3>1 DEF SumAt
  <2> HIDE DEF f
  <2> QED BY <2>1
<1>2. ASSUME NEW m \in T PROVE m + 1 \in T
  <2>1. m \in Nat /\ \E f : \A u \in SUBSET S : Cardinality(u) <= m => f[u] = SumAt(s, f, u)
    OBVIOUS
  <2> HIDE DEF T
  <2>2. PICK f : \A u \in SUBSET S : Cardinality(u) <= m => f[u] = SumAt(s, f, u)
    BY <2>1
  <2> DEFINE g == [u \in SUBSET S |-> SumAt(s, f, u)]
  <2>3. ASSUME NEW u \in SUBSET S, Cardinality(u) <= m + 1 PROVE g[u] = SumAt(s, g, u)
    <3>1. CASE u = {}
      BY <3>1 DEF SumAt
    <3>2. CASE u # {}
      <4>1. PICK x : x = Some(u)
        OBVIOUS
      <4>2. x \in u
        BY <3>2, <4>1, SomeIn
      <4>3. PICK w : w = Without(u, x)
        OBVIOUS
      <4>4. w \in SUBSET S /\ Cardinality(w) <= m
        BY <2>1, <2>3, <4>2, <4>3, Smaller
      <4>5. g[w] = f[w]
        BY <2>2, <4>4
      <4>6. SumAt(s, f, u) = s[x] + f[w] /\ SumAt(s, g, u) = s[x] + g[w]
        BY <3>2, <4>1, <4>3 DEF SumAt
      <4>7. g[u] = SumAt(s, f, u)
        OBVIOUS
      <4> HIDE DEF g
      <4> QED BY <4>5, <4>6, <4>7
    <3> QED BY <3>1, <3>2
  <2> HIDE DEF g
  <2>4. \E h : \A u \in SUBSET S : Cardinality(u) <= m + 1 => h[u] = SumAt(s, h, u)
    BY <2>3
  <2> QED BY <2>1, <2>4 DEF T
<1>3. PICK n \in Nat : n = Cardinality(S)
  BY FS_CardinalityType
<1>4. PICK f : \A u \in SUBSET S : Cardinality(u) <= n => f[u] = SumAt(s, f, u)
  <2>1. T \in SUBSET Nat
    OBVIOUS
  <2> HIDE DEF T
  <2>2. n \in T
    BY <1>1, <1>2, <2>1, Inductive
  <2> QED BY <2>2 DEF T
<1> DEFINE g == [u \in SUBSET S |-> f[u]]
<1>5. ASSUME NEW u \in SUBSET S PROVE g[u] = SumAt(s, g, u)
  <2>1. Cardinality(u) <= n
    BY <1>3, FS_Subset
  <2>2. f[u] = SumAt(s, f, u) /\ g[u] = f[u]
    BY <1>4, <2>1
  <2>3. Without(u, Some(u)) \in SUBSET S
    BY DEF Without
  <2>4. g[Without(u, Some(u))] = f[Without(u, Some(u))]
    BY <2>3
  <2> HIDE DEF g
  <2> QED BY <2>2, <2>4 DEF SumAt
<1>6. g = [u \in SUBSET S |-> g[u]]
  OBVIOUS
<1> HIDE DEF g
<1>7. Summed(s, S, g)
  BY <1>5, <1>6 DEF Summed
<1> QED BY <1>7

(* Any element may be taken out first.                                       *)
LEMMA SummedAnyOrder ==
  ASSUME NEW S, IsFiniteSet(S), NEW s, \A x \in S : s[x] \in Int, NEW f, Summed(s, S, f)
  PROVE  /\ \A u \in SUBSET S : f[u] \in Int
         /\ \A u \in SUBSET S : \A y \in u : f[u] = s[y] + f[Without(u, y)]
<1>1. PICK n \in Nat : n = Cardinality(S)
  BY FS_CardinalityType
<1>2. ASSUME NEW u \in SUBSET S PROVE Cardinality(u) <= n /\ f[u] = SumAt(s, f, u)
  BY <1>1, FS_Subset DEF Summed
<1> DEFINE T == {m \in Nat : \A u \in SUBSET S : Cardinality(u) <= m => f[u] \in Int}
<1>3. 0 \in T
  <2>1. ASSUME NEW u \in SUBSET S, Cardinality(u) <= 0 PROVE f[u] \in Int
    <3>1. u = {}
      BY <2>1, SmallerEmpty
    <3> QED BY <1>2, <3>1 DEF SumAt
  <2> QED BY <2>1
<1>4. ASSUME NEW m \in T PROVE m + 1 \in T
  <2>1. m \in Nat /\ \A u \in SUBSET S : Cardinality(u) <= m => f[u] \in Int
    OBVIOUS
  <2> HIDE DEF T
  <2>2. ASSUME NEW u \in SUBSET S, Cardinality(u) <= m + 1, u # {} PROVE f[u] \in Int
    <3>1. PICK x \in u : x = Some(u)
      BY <2>2, SomeIn
    <3>2. PICK w : w = Without(u, x)
      OBVIOUS
    <3>3. f[w] \in Int
      BY <2>1, <2>2, <3>2, Smaller
    <3>4. f[u] = s[x] + f[w]
      BY <1>2, <2>2, <3>1, <3>2 DEF SumAt
    <3>5. s[x] \in Int
      OBVIOUS
    <3> QED BY <3>3, <3>4, <3>5
  <2>3. f[{}] = 0
    BY <1>2 DEF SumAt
  <2>4. ASSUME NEW u \in SUBSET S, Cardinality(u) <= m + 1 PROVE f[u] \in Int
    <3>1. CASE u = {}
      <4>1. f[u] = 0
        BY <2>3, <3>1
      <4> QED BY <4>1
    <3>2. CASE u # {}
      BY <2>2, <2>4, <3>2
    <3> QED BY <3>1, <3>2
  <2> QED BY <2>1, <2>4 DEF T
<1>5. \A u \in SUBSET S : f[u] \in Int
  <2>1. T \in SUBSET Nat
    OBVIOUS
  <2> HIDE DEF T
  <2>2. n \in T
    BY <1>3, <1>4, <2>1, Inductive
  <2> QED BY <1>2, <2>2 DEF T
<1> DEFINE A(u) == \A y \in u : f[u] = s[y] + f[Without(u, y)]
           R == {m \in Nat : \A u \in SUBSET S : Cardinality(u) <= m => A(u)}
<1>6. 0 \in R
  <2>1. ASSUME NEW u \in SUBSET S, Cardinality(u) <= 0 PROVE A(u)
    BY <2>1, SmallerEmpty
  <2> QED BY <2>1
<1>7. ASSUME NEW m \in R PROVE m + 1 \in R
  <2>1. m \in Nat /\ \A u \in SUBSET S : Cardinality(u) <= m => A(u)
    OBVIOUS
  <2>2. ASSUME NEW u \in SUBSET S, Cardinality(u) <= m + 1, NEW y \in u
        PROVE  f[u] = s[y] + f[Without(u, y)]
    <3>1. PICK x \in u : x = Some(u)
      BY SomeIn
    <3>2. f[u] = s[x] + f[Without(u, x)]
      BY <1>2, <3>1 DEF SumAt
    <3>3. CASE x = y
      BY <3>2, <3>3
    <3>4. CASE x # y
      <4>1. PICK v, w : v = Without(u, x) /\ w = Without(u, y)
        OBVIOUS
      <4>2. v \in SUBSET S /\ w \in SUBSET S /\ Cardinality(v) <= m /\ Cardinality(w) <= m
        BY <2>1, <2>2, <4>1, Smaller
      <4>3. y \in v /\ x \in w
        BY <3>4, <4>1 DEF Without
      <4>4. f[v] = s[y] + f[Without(v, y)] /\ f[w] = s[x] + f[Without(w, x)]
        BY <2>1, <4>2, <4>3
      <4>5. PICK z : z = Without(v, y)
        OBVIOUS
      <4>6. z = Without(w, x) /\ z \in SUBSET S
        BY <4>1, <4>2, <4>5 DEF Without
      <4>7. f[z] \in Int /\ s[x] \in Int /\ s[y] \in Int
        BY <1>5, <4>6
      <4>8. f[v] = s[y] + f[z] /\ f[w] = s[x] + f[z] /\ f[u] = s[x] + f[v]
        BY <3>2, <4>1, <4>4, <4>5, <4>6
      <4>9. f[u] = s[y] + f[w]
        BY <4>7, <4>8
      <4> QED BY <4>1, <4>9
    <3> QED BY <3>3, <3>4
  <2>3. \A u \in SUBSET S : Cardinality(u) <= m + 1 => A(u)
    BY <2>2
  <2> HIDE DEF A
  <2> QED BY <2>1, <2>3
<1>8. \A u \in SUBSET S : A(u)
  <2>1. R \in SUBSET Nat
    OBVIOUS
  <2> HIDE DEF R, A
  <2>2. n \in R
    BY <1>6, <1>7, <2>1, Inductive
  <2> QED BY <1>2, <2>2 DEF R
<1> QED BY <1>5, <1>8

=============================================================================
