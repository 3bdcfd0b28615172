--------------------------- MODULE FlagFilesProofs ---------------------------
(***************************************************************************)
(* Proofs about FlagFiles, for any number of scans, baselines and gpuboxes, *)
(* any coarse channels in any bands and files that start at any times: the   *)
(* flags that are read are those that were written for the row.              *)
(***************************************************************************)
EXTENDS FlagFiles, NumberProofs, SequenceTheorems

(* The subbands, bands, gpuboxes and offsets of an observation, whichever is  *)
(* the current one: Subbands, Starts, SbStart, SbEnd, CurSubbands, FileOf and *)
(* NewHDUOffset in terms of the observation and the band.                    *)
Indices(o) == 0..(Len(o.numbers) - 1)
RangeStarts(o) == {sb \in Indices(o) : sb = 0 \/ o.numbers[sb + 1] # o.numbers[sb - 1 + 1] + 1}
First(o, k) == CHOOSE s \in RangeStarts(o) : Cardinality({r \in RangeStarts(o) : r <= s}) = k
End(o, k) == Min({s \in RangeStarts(o) : s > First(o, k)} \union {Len(o.numbers)})
Band(o, k) == First(o, k)..(End(o, k) - 1)
RightOf(o) == {s \in Indices(o) : \E r \in 0..s : o.numbers[r + 1] > 128}
Box(o, sb) == IF sb \in RightOf(o) THEN Len(o.numbers) - 1 - sb + Min(RightOf(o)) ELSE sb
Offset(o, k, sb) == Max({o.start[Box(o, s) + 1] : s \in Band(o, k)}) - o.start[Box(o, sb) + 1]

(* -noalign: the zeros handed to the writer fit, and are right, when there is *)
(* one band and the files start together.                                    *)
StartTogether == \A i, j \in DOMAIN obs.start : obs.start[i] = obs.start[j]
Alignable == obs.doAlign \/ (BandCount = 1 /\ StartTogether)

RowCount == NScans * NBaselines

(* How many rows of a band have been given to the writer, how many rows the   *)
(* file of a subband then has, and what is in them.                          *)
RowsGiven(k) ==
  IF run # "write" \/ k < band THEN RowCount
  ELSE IF k = band /\ rowsWritten # -1 THEN rowsWritten ELSE 0
RowsHeld(n, offset) ==
  IF n > offset * NBaselines + 1 THEN n - offset * NBaselines ELSE 0
Flags(i, sb) == <<Scan(i), Baseline(i), sb>>
Holds(rows, n, offset, sb) ==
  /\ Len(rows) = RowsHeld(n, offset)
  /\ \A r \in 2..RowsHeld(n, offset) : rows[r] = Flags(offset * NBaselines + r - 1, sb)

PlaceIs ==
  /\ obs \in Observations
  /\ run \in {"write", "read", "done"}
  /\ band \in 1..Cardinality(RangeStarts(obs))
  /\ rowsWritten \in -1..RowCount

OffsetsAre ==
  /\ rowsWritten = -1 => offsets = [g \in Indices(obs) |-> Unknown]
  /\ rowsWritten # -1 =>
       \A sb \in Band(obs, band) :
         /\ offsets[Box(obs, sb)] = Offset(obs, band, sb)
         /\ toWriter[Box(obs, sb) + 1] = Offset(obs, band, sb)

FilesAre ==
  /\ DOMAIN file = Indices(obs)
  /\ \A k \in 1..Cardinality(RangeStarts(obs)) : \A sb \in Band(obs, k) :
       Holds(file[Box(obs, sb)], RowsGiven(k), Offset(obs, k, sb), sb)

(* What has been read in this band, of the rows that the files hold: all but  *)
(* the first row of a file, which is never written.                          *)
Scans == 0..(NScans - 1)
Rows == 0..(NBaselines - 1)
InFile(t, b, sb) == t * NBaselines + b < rowsWritten /\ t >= Offset(obs, band, sb)
ReadIs ==
  /\ DOMAIN readBack = Scans \X Rows \X Indices(obs)
  /\ run = "read" =>
       \A t \in Scans, b \in Rows, sb \in Band(obs, band) :
         InFile(t, b, sb) => \/ t = Offset(obs, band, sb) /\ b = 0
                             \/ readBack[<<t, b, sb>>] = <<t, b, sb>>

IInv == PlaceIs /\ (Alignable => OffsetsAre /\ FilesAre /\ ReadIs)

-----------------------------------------------------------------------------
LEMMA ObservationFacts ==
  ASSUME NEW o \in Observations
  PROVE  /\ Len(o.numbers) \in Nat \ {0} /\ Len(o.start) = Len(o.numbers)
         /\ \A sb \in Indices(o) : o.numbers[sb + 1] \in Nat /\ o.start[sb + 1] \in Nat
         /\ NBaselines \in Nat \ {0} /\ NScans \in Nat \ {0}
<1>1. /\ o.numbers \in Seq(Nat) /\ o.numbers # <<>> /\ o.start \in Seq(Nat)
      /\ Len(o.start) = Len(o.numbers)
  BY FlagFilesAssumption DEF ObservationType
<1>2. Len(o.numbers) \in Nat /\ Len(o.numbers) # 0
  BY <1>1, EmptySeq, LenProperties
<1>3. ASSUME NEW sb \in Indices(o) PROVE o.numbers[sb + 1] \in Nat /\ o.start[sb + 1] \in Nat
  <2>1. sb + 1 \in 1..Len(o.numbers)
    BY <1>2 DEF Indices
  <2> QED BY <1>1, <2>1, ElementOfSeq
<1> QED BY <1>1, <1>2, <1>3, FlagFilesAssumption

(* The order of the subbands is its own inverse.                             *)
LEMMA OrderInvolution ==
  ASSUME NEW o \in Observations, NEW sb \in Indices(o)
  PROVE  Box(o, sb) \in Indices(o) /\ Box(o, Box(o, sb)) = sb
<1>1. PICK n \in Nat : n = Len(o.numbers)
  BY ObservationFacts
<1>2. CASE sb \in RightOf(o)
  <2>1. RightOf(o) \in SUBSET Nat
    BY <1>1 DEF RightOf, Indices
  <2>2. PICK m \in Nat : m = Min(RightOf(o)) /\ m \in RightOf(o) /\ m <= sb
    BY <1>2, <2>1, MinIsLeast
  <2>3. PICK r \in 0..m : o.numbers[r + 1] > 128
    BY <2>2 DEF RightOf
  <2>4. sb \in 0..(n - 1)
    BY <1>1 DEF Indices
  <2>5. PICK c \in Nat : c = n - 1 - sb + m
    BY <2>4
  <2>6. c \in m..(n - 1) /\ r \in 0..c
    BY <2>2, <2>3, <2>4, <2>5
  <2>7. c \in Indices(o)
    BY <1>1, <2>6 DEF Indices
  <2>8. c \in RightOf(o)
    BY <2>3, <2>6, <2>7 DEF RightOf
  <2>9. Box(o, sb) = c
    BY <1>1, <1>2, <2>2, <2>5 DEF Box
  <2>10. Box(o, c) = n - 1 - c + m
    BY <1>1, <2>2, <2>8 DEF Box
  <2>11. n - 1 - c + m = sb
    BY <2>4, <2>5
  <2> QED BY <2>7, <2>9, <2>10, <2>11
<1>3. CASE sb \notin RightOf(o)
  BY <1>3 DEF Box
<1> QED BY <1>2, <1>3

LEMMA BoxInjective ==
  ASSUME NEW o \in Observations, NEW a \in Indices(o), NEW b \in Indices(o), Box(o, a) = Box(o, b)
  PROVE  a = b
<1>1. Box(o, Box(o, a)) = a /\ Box(o, Box(o, b)) = b
  BY OrderInvolution
<1> QED BY <1>1

-----------------------------------------------------------------------------
(* The elements of a set of numbers, counted from the least one on.          *)
UpTo(S, s) == {r \in S : r <= s}
Nth(S, k) == CHOOSE s \in S : Cardinality(UpTo(S, s)) = k

LEMMA CountsUp ==
  ASSUME NEW S \in SUBSET Nat, IsFiniteSet(S), NEW s \in S
  PROVE  /\ Cardinality(UpTo(S, s)) \in 1..Cardinality(S)
         /\ \A t \in S : s < t => Cardinality(UpTo(S, s)) < Cardinality(UpTo(S, t))
<1>1. ASSUME NEW T \in SUBSET S PROVE IsFiniteSet(T) /\ Cardinality(T) \in Nat
  BY FS_Subset, FS_CardinalityType
<1>2. UpTo(S, s) \in SUBSET S /\ s \in UpTo(S, s)
  BY DEF UpTo
<1>3. PICK n \in Nat : n = Cardinality(S)
  BY FS_CardinalityType
<1>4. PICK p \in Nat : p = Cardinality(UpTo(S, s))
  BY <1>1, <1>2
<1>5. p # 0
  BY <1>1, <1>2, <1>4, FS_EmptySet
<1>6. p <= n
  BY <1>2, <1>3, <1>4, FS_Subset
<1>7. ASSUME NEW t \in S, s < t PROVE p < Cardinality(UpTo(S, t))
  <2>1. UpTo(S, t) \in SUBSET S /\ UpTo(S, s) \in SUBSET UpTo(S, t)
        /\ t \in UpTo(S, t) /\ t \notin UpTo(S, s)
    <3>1. s \in Nat /\ t \in Nat
      OBVIOUS
    <3>2. ASSUME NEW r \in UpTo(S, s) PROVE r \in UpTo(S, t)
      <4>1. r \in S /\ r \in Nat /\ r <= s
        BY DEF UpTo
      <4> QED BY <1>7, <3>1, <4>1 DEF UpTo
    <3>3. UpTo(S, t) \in SUBSET S /\ t \in UpTo(S, t) /\ t \notin UpTo(S, s)
      BY <1>7, <3>1 DEF UpTo
    <3> QED BY <3>2, <3>3
  <2>2. PICK q \in Nat : q = Cardinality(UpTo(S, t))
    BY <1>1, <2>1
  <2>3. p <= q /\ (p = q => UpTo(S, s) = UpTo(S, t))
    <3>1. IsFiniteSet(UpTo(S, t))
      BY <1>1, <2>1
    <3> QED BY <1>2, <1>4, <2>1, <2>2, <3>1, FS_Subset
  <2> QED BY <2>1, <2>2, <2>3
<1> QED BY <1>2, <1>3, <1>4, <1>5, <1>6, <1>7

LEMMA NthIs ==
  ASSUME NEW S \in SUBSET Nat, IsFiniteSet(S), NEW k \in 1..Cardinality(S)
  PROVE  Nth(S, k) \in S /\ Cardinality(UpTo(S, Nth(S, k))) = k
<1>1. PICK n \in Nat : n = Cardinality(S)
  BY FS_CardinalityType
<1> DEFINE R == [s \in S |-> Cardinality(UpTo(S, s))]
<1>2. ASSUME NEW s \in S PROVE R[s] = Cardinality(UpTo(S, s)) /\ R[s] \in 1..n
  BY <1>1, CountsUp
<1>3. R \in [S -> 1..n]
  BY <1>2
<1> HIDE DEF R
<1>4. ASSUME NEW s \in S, NEW t \in S, R[s] = R[t] PROVE s = t
  <2>1. s < t => Cardinality(UpTo(S, s)) < Cardinality(UpTo(S, t))
    BY CountsUp
  <2>2. t < s => Cardinality(UpTo(S, t)) < Cardinality(UpTo(S, s))
    BY CountsUp
  <2>3. s \in Nat /\ t \in Nat /\ R[s] \in Nat
    BY <1>2
  <2> QED BY <1>2, <1>4, <2>1, <2>2, <2>3
<1>5. R \in Surjection(S, 1..n)
  <2>1. IsFiniteSet(1..n) /\ Cardinality(1..n) = n
    <3>1. IsFiniteSet(1..n) /\ Cardinality(1..n) = IF 1 > n THEN 0 ELSE n - 1 + 1
      BY FS_Interval
    <3> QED BY <3>1
  <2>2. R \in Injection(S, 1..n)
    BY <1>3, <1>4 DEF Injection, IsInjective
  <2> QED BY <1>1, <2>1, <2>2, FS_Injection
<1>6. PICK s \in S : R[s] = k
  BY <1>1, <1>5 DEF Surjection
<1>7. Cardinality(UpTo(S, s)) = k
  BY <1>2, <1>6
<1> QED BY <1>6, <1>7 DEF Nth

LEMMA NthOrder ==
  ASSUME NEW S \in SUBSET Nat, IsFiniteSet(S),
         NEW j \in 1..Cardinality(S), NEW k \in 1..Cardinality(S)
  PROVE  Nth(S, j) < Nth(S, k) <=> j < k
<1>1. Cardinality(S) \in Nat
  BY FS_CardinalityType
<1>2. PICK s \in S : s = Nth(S, j) /\ Cardinality(UpTo(S, s)) = j
  BY NthIs
<1>3. PICK t \in S : t = Nth(S, k) /\ Cardinality(UpTo(S, t)) = k
  BY NthIs
<1>4. (s < t => j < k) /\ (t < s => k < j)
  BY <1>2, <1>3, CountsUp
<1>5. s = t => j = k
  BY <1>2, <1>3
<1> QED BY <1>1, <1>2, <1>3, <1>4, <1>5

(* The bands follow each other from the first subband to the last one.       *)
LEMMA BandsAre ==
  ASSUME NEW o \in Observations
  PROVE  /\ Cardinality(RangeStarts(o)) \in Nat \ {0}
         /\ First(o, 1) = 0
         /\ \A k \in 1..Cardinality(RangeStarts(o)) :
              /\ First(o, k) \in Nat /\ End(o, k) \in Nat
              /\ First(o, k) < End(o, k) /\ End(o, k) <= Len(o.numbers)
              /\ \A j \in 1..Cardinality(RangeStarts(o)) : j < k => End(o, j) <= First(o, k)
              /\ k < Cardinality(RangeStarts(o)) => End(o, k) = First(o, k + 1)
         /\ End(o, Cardinality(RangeStarts(o))) = Len(o.numbers)
<1>1. PICK n \in Nat \ {0} : n = Len(o.numbers)
  BY ObservationFacts
<1> DEFINE S == RangeStarts(o)
<1>2. S \in SUBSET Nat
  BY <1>1 DEF RangeStarts, Indices
<1>6. ASSUME NEW k PROVE First(o, k) = Nth(S, k)
  BY DEF First, Nth, UpTo
<1>a. ASSUME NEW k PROVE End(o, k) = Min({s \in S : s > First(o, k)} \union {n})
  BY <1>1 DEF End
<1>b. Cardinality(RangeStarts(o)) = Cardinality(S)
  OBVIOUS
<1>3. 0 \in S /\ \A s \in S : s < n
  BY <1>1, <1>2 DEF RangeStarts, Indices
<1>4. IsFiniteSet(S)
  <2>1. S \in SUBSET (0..(n - 1)) /\ n - 1 \in Int
    BY <1>1, <1>2 DEF RangeStarts, Indices
  <2>2. IsFiniteSet(0..(n - 1))
    BY <2>1, FS_Interval
  <2> HIDE DEF S
  <2> QED BY <2>1, <2>2, FS_Subset
<1>5. PICK c \in Nat : c = Cardinality(S)
  BY <1>4, FS_CardinalityType
<1> HIDE DEF S
<1>7. c # 0 /\ Nth(S, 1) = 0
  <2>1. c # 0
    BY <1>2, <1>3, <1>4, <1>5, FS_EmptySet
  <2>2. 1 \in 1..c
    BY <2>1
  <2>3. PICK p \in 1..c : p = Cardinality(UpTo(S, 0))
    BY <1>2, <1>3, <1>4, <1>5, CountsUp
  <2>4. PICK s \in S : s = Nth(S, 1) /\ Cardinality(UpTo(S, s)) = 1
    BY <1>2, <1>4, <1>5, <2>2, NthIs
  <2>5. 0 < s => p < 1
    BY <1>2, <1>3, <1>4, <2>3, <2>4, CountsUp
  <2>6. s \in Nat
    BY <1>2, <2>4
  <2> QED BY <2>1, <2>3, <2>4, <2>5, <2>6
<1>8. ASSUME NEW k \in 1..c
      PROVE  /\ First(o, k) \in S /\ First(o, k) < End(o, k)
             /\ First(o, k) \in Nat /\ End(o, k) \in Nat
             /\ End(o, k) \in {s \in S : s > First(o, k)} \union {n}
             /\ \A s \in S : s > First(o, k) => End(o, k) <= s
             /\ End(o, k) <= n
  <2>1. First(o, k) \in S
    BY <1>2, <1>4, <1>5, <1>6, NthIs
  <2> DEFINE T == {s \in S : s > First(o, k)} \union {n}
  <2>2. T \in SUBSET Nat /\ n \in T
    BY <1>1, <1>2
  <2>3. End(o, k) = Min(T)
    BY <1>a
  <2>4. End(o, k) \in T /\ \A y \in T : End(o, k) <= y
    <3> HIDE DEF T
    <3> QED BY <2>2, <2>3, MinIsLeast
  <2>5. First(o, k) \in Nat /\ End(o, k) \in Nat
    BY <1>2, <2>1, <2>2, <2>4
  <2>6. First(o, k) < n
    BY <1>3, <2>1
  <2>7. End(o, k) <= n
    BY <2>2, <2>4
  <2>8. \A s \in S : s > First(o, k) => End(o, k) <= s
    BY <2>4
  <2>9. First(o, k) < End(o, k)
    <3>1. CASE End(o, k) = n
      BY <2>6, <3>1
    <3>2. CASE End(o, k) # n
      BY <1>2, <2>4, <2>5, <3>2
    <3> QED BY <3>1, <3>2
  <2> QED BY <2>1, <2>4, <2>5, <2>7, <2>8, <2>9
<1>9. ASSUME NEW k \in 1..c, NEW j \in 1..c, j < k PROVE End(o, j) <= First(o, k)
  <2>1. First(o, j) < First(o, k) /\ First(o, k) \in S
    BY <1>2, <1>4, <1>5, <1>6, <1>8, <1>9, NthOrder
  <2> QED BY <1>8, <2>1
<1>10. ASSUME NEW k \in 1..c, k < c PROVE End(o, k) = First(o, k + 1)
  <2>1. PICK m \in 1..c : m = k + 1
    BY <1>10
  <2>2. End(o, k) <= First(o, m) /\ First(o, m) \in S /\ First(o, m) < n
    BY <1>3, <1>8, <1>9, <2>1
  <2>3. PICK s \in S : s = End(o, k) /\ s > First(o, k)
    BY <1>8, <2>2
  <2>4. PICK p \in 1..c : p = Cardinality(UpTo(S, s))
    BY <1>2, <1>4, <1>5, CountsUp
  <2>5. PICK f \in S : f = First(o, k) /\ Cardinality(UpTo(S, f)) = k
    BY <1>2, <1>4, <1>5, <1>6, NthIs
  <2>6. k < p
    BY <1>2, <1>4, <2>3, <2>4, <2>5, CountsUp
  <2>7. PICK g \in S : g = First(o, m) /\ Cardinality(UpTo(S, g)) = m
    BY <1>2, <1>4, <1>5, <1>6, NthIs
  <2>8. s < g => p < m
    BY <1>2, <1>4, <2>4, <2>7, CountsUp
  <2>9. s \in Nat /\ g \in Nat
    BY <1>2, <2>3, <2>7
  <2> QED BY <2>1, <2>2, <2>3, <2>4, <2>6, <2>7, <2>8, <2>9
<1>11. End(o, c) = n
  <2> SUFFICES ASSUME End(o, c) # n PROVE FALSE
    OBVIOUS
  <2>1. c \in 1..c
    BY <1>7
  <2>2. PICK s \in S : s = End(o, c) /\ s > First(o, c)
    BY <1>8, <2>1
  <2>3. PICK p \in 1..c : p = Cardinality(UpTo(S, s))
    BY <1>2, <1>4, <1>5, CountsUp
  <2>4. PICK f \in S : f = First(o, c) /\ Cardinality(UpTo(S, f)) = c
    BY <1>2, <1>4, <1>5, <1>6, <2>1, NthIs
  <2>5. c < p
    BY <1>2, <1>4, <2>2, <2>3, <2>4, CountsUp
  <2> QED BY <2>3, <2>5
<1>12. \A k \in 1..c : First(o, k) \in Nat /\ End(o, k) \in Nat
  BY <1>8
<1> QED BY <1>1, <1>b, <1>5, <1>6, <1>7, <1>8, <1>9, <1>10, <1>11, <1>12

-----------------------------------------------------------------------------
LEMMA BandOf ==
  ASSUME NEW o \in Observations, NEW k \in 1..Cardinality(RangeStarts(o)), NEW sb \in Band(o, k)
  PROVE  /\ sb \in Indices(o) /\ Box(o, sb) \in Indices(o)
         /\ First(o, k) <= sb /\ sb < End(o, k)
<1>1. /\ First(o, k) \in Nat /\ End(o, k) \in Nat /\ End(o, k) <= Len(o.numbers)
      /\ Len(o.numbers) \in Nat
  BY BandsAre, ObservationFacts
<1>2. sb \in Indices(o) /\ First(o, k) <= sb /\ sb < End(o, k)
  BY <1>1 DEF Band, Indices
<1> QED BY <1>2, OrderInvolution

(* No two subbands share a file, in one band or in two.                      *)
LEMMA BandsDisjoint ==
  ASSUME NEW o \in Observations,
         NEW j \in 1..Cardinality(RangeStarts(o)), NEW k \in 1..Cardinality(RangeStarts(o)),
         NEW a \in Band(o, j), NEW b \in Band(o, k), Box(o, a) = Box(o, b)
  PROVE  a = b /\ j = k
<1>1. a \in Indices(o) /\ b \in Indices(o)
  BY BandOf
<1>2. a = b
  BY <1>1, BoxInjective
<1>3. PICK c \in Nat : c = Cardinality(RangeStarts(o))
  BY BandsAre
<1>4. a \in Nat /\ b \in Nat /\ j \in 1..c /\ k \in 1..c
  BY <1>1, <1>3 DEF Indices
<1>5. First(o, j) <= a /\ a < End(o, j) /\ First(o, k) <= a /\ a < End(o, k)
  BY <1>2, BandOf
<1>6. /\ First(o, j) \in Nat /\ End(o, j) \in Nat /\ First(o, k) \in Nat /\ End(o, k) \in Nat
      /\ j < k => End(o, j) <= First(o, k)
      /\ k < j => End(o, k) <= First(o, j)
  BY BandsAre
<1> QED BY <1>2, <1>4, <1>5, <1>6

(* Files start no later than the last one of their band.                     *)
LEMMA OffsetIs ==
  ASSUME NEW o \in Observations, NEW k \in 1..Cardinality(RangeStarts(o)), NEW sb \in Band(o, k)
  PROVE  /\ Offset(o, k, sb) \in Nat
         /\ (\A i, j \in DOMAIN o.start : o.start[i] = o.start[j]) => Offset(o, k, sb) = 0
<1>1. PICK n \in Nat \ {0} : n = Len(o.numbers) /\ Len(o.start) = n
  BY ObservationFacts
<1> DEFINE start == [g \in 0..(n - 1) |-> o.start[g + 1]]
<1>2. ASSUME NEW s \in Band(o, k)
      PROVE  /\ Box(o, s) \in 0..(n - 1) /\ start[Box(o, s)] = o.start[Box(o, s) + 1]
             /\ start[Box(o, s)] \in Nat
  <2>1. Box(o, s) \in Indices(o)
    BY BandOf
  <2>2. o.start[Box(o, s) + 1] \in Nat
    BY <2>1, ObservationFacts
  <2> QED BY <1>1, <2>1, <2>2 DEF Indices
<1>3. \A g \in 0..(n - 1) : start[g] \in Nat
  BY <1>1, ObservationFacts DEF Indices
<1>4. PICK m \in Nat : \A g \in 0..(n - 1) : start[g] <= m
  <2>1. n - 1 \in Nat
    BY <1>1
  <2> HIDE DEF start
  <2> QED BY <1>3, <2>1, Bounded
<1> DEFINE T == {o.start[Box(o, s) + 1] : s \in Band(o, k)}
<1> HIDE DEF start
<1>5. T \in SUBSET Nat /\ (\A y \in T : y <= m) /\ o.start[Box(o, sb) + 1] \in T
  BY <1>2, <1>4
<1>6. Offset(o, k, sb) = Max(T) - o.start[Box(o, sb) + 1]
  BY DEF Offset
<1>7. Max(T) \in T /\ \A y \in T : Max(T) >= y
  <2> HIDE DEF T
  <2> QED BY <1>5, MaxIsGreatest
<1>8. ASSUME \A i, j \in DOMAIN o.start : o.start[i] = o.start[j]
      PROVE  Max(T) = o.start[Box(o, sb) + 1]
  <2>1. DOMAIN o.start = 1..n
    BY <1>1, FlagFilesAssumption, LenProperties DEF ObservationType
  <2>2. ASSUME NEW s \in Band(o, k) PROVE Box(o, s) + 1 \in DOMAIN o.start
    BY <1>1, <1>2, <2>1
  <2>3. PICK s \in Band(o, k) : Max(T) = o.start[Box(o, s) + 1]
    BY <1>7
  <2> HIDE DEF T
  <2> QED BY <1>8, <2>2, <2>3
<1>9. PICK v \in Nat, w \in Nat : v = Max(T) /\ w = o.start[Box(o, sb) + 1] /\ v >= w
  <2> HIDE DEF T
  <2> QED BY <1>5, <1>7
<1> HIDE DEF T
<1> QED BY <1>6, <1>8, <1>9

(* A row is put after the others, or, when it is the first of a file, after a *)
(* row that is left empty.                                                   *)
LEMMA PutIs ==
  ASSUME NEW rows, NEW m \in Nat, Len(rows) = m, NEW r \in Nat, m < r, NEW flags
  PROVE  /\ Len(Put(rows, r, flags)) = r /\ Put(rows, r, flags)[r] = flags
         /\ \A i \in 1..m : Put(rows, r, flags)[i] = rows[i]
<1>1. Max({r, Len(rows)}) = r
  <2>1. {r, Len(rows)} \in SUBSET Nat /\ r \in {r, Len(rows)} /\ \A y \in {r, Len(rows)} : y <= r
    OBVIOUS
  <2>2. Max({r, Len(rows)}) \in {r, Len(rows)} /\ \A y \in {r, Len(rows)} : Max({r, Len(rows)}) >= y
    BY <2>1, MaxIsGreatest
  <2> QED BY <2>2
<1> DEFINE p == Put(rows, r, flags)
<1>2. p = [i \in 1..r |-> IF i = r THEN flags ELSE IF i <= m THEN rows[i] ELSE Zero]
  BY <1>1 DEF Put
<1>3. DOMAIN p = 1..r /\ p[r] = flags /\ \A i \in 1..m : p[i] = rows[i]
  BY <1>2
<1> HIDE DEF p
<1>4. Len(p) = r
  <2> DEFINE S == {p[i] : i \in 1..r}
  <2>1. p = [i \in 1..r |-> p[i]]
    BY <1>2
  <2>2. p \in [1..r -> S]
    BY <2>1
  <2> HIDE DEF S
  <2>3. p \in Seq(S)
    BY <2>2
  <2>4. Len(p) \in Nat /\ DOMAIN p = 1..Len(p)
    BY <2>3, LenProperties
  <2> QED BY <1>3, <2>4
<1> QED BY <1>3, <1>4 DEF p

(* The state's definitions in these terms.                                   *)
LEMMA Current ==
  /\ SubbandCount = Len(obs.numbers) /\ Subbands = Indices(obs)
  /\ BandCount = Cardinality(RangeStarts(obs))
  /\ SbStart = First(obs, band) /\ SbEnd = End(obs, band)
  /\ CurSubbands = Band(obs, band)
  /\ \A sb : FileOf(sb) = Box(obs, sb) /\ SubbandOrder(sb) = Box(obs, sb)
  /\ \A sb : NewHDUOffset(sb) = Offset(obs, band, sb)
<1>1. SubbandCount = Len(obs.numbers) /\ Subbands = Indices(obs)
  BY DEF SubbandCount, Subbands, Indices
<1>2. Starts = RangeStarts(obs)
  BY <1>1 DEF Starts, RangeStarts, Number
<1>3. SbStart = First(obs, band)
  BY <1>2 DEF SbStart, First
<1>4. SbEnd = End(obs, band)
  BY <1>1, <1>2, <1>3 DEF SbEnd, End
<1>5. CurSubbands = Band(obs, band)
  BY <1>3, <1>4 DEF CurSubbands, Band
<1>6. ASSUME NEW sb PROVE SubbandOrder(sb) = Box(obs, sb)
  BY <1>1 DEF SubbandOrder, Box, RightOf, Number
<1>7. ASSUME NEW sb PROVE FileOf(sb) = Box(obs, sb)
  BY <1>6 DEF FileOf
<1>8. ASSUME NEW sb PROVE NewHDUOffset(sb) = Offset(obs, band, sb)
  BY <1>5, <1>7 DEF NewHDUOffset, Offset
<1>9. BandCount = Cardinality(RangeStarts(obs))
  BY <1>2 DEF BandCount
<1> QED BY <1>1, <1>3, <1>4, <1>5, <1>6, <1>7, <1>8, <1>9

LEMMA Counts ==
  ASSUME PlaceIs
  PROVE  /\ RowCount \in Nat /\ NScans \in Nat \ {0} /\ NBaselines \in Nat \ {0}
         /\ Cardinality(RangeStarts(obs)) \in Nat \ {0}
         /\ band \in 1..Cardinality(RangeStarts(obs)) /\ obs \in Observations
         /\ rowsWritten \in Int
<1>1. obs \in Observations /\ band \in 1..Cardinality(RangeStarts(obs)) /\ rowsWritten \in -1..RowCount
  BY DEF PlaceIs
<1>2. NScans \in Nat \ {0} /\ NBaselines \in Nat \ {0} /\ RowCount \in Nat
  BY FlagFilesAssumption DEF RowCount
<1> QED BY <1>1, <1>2, BandsAre

LEMMA AlignableSame == obs' = obs => (Alignable' <=> Alignable)
BY DEF Alignable, BandCount, StartTogether, Starts, Subbands, SubbandCount, Number

-----------------------------------------------------------------------------
LEMMA OpenFilesStep ==
  ASSUME IInv, OpenFiles
  PROVE  IInv'
<1>1. PlaceIs /\ (Alignable => OffsetsAre /\ FilesAre /\ ReadIs)
  BY DEF IInv
<1>2. /\ obs' = obs /\ run' = run /\ band' = band /\ file' = file /\ readBack' = readBack
      /\ rowsWritten = -1 /\ rowsWritten' = 0
  BY DEF OpenFiles
<1>3. PlaceIs'
  BY <1>1, <1>2, Counts DEF PlaceIs, RowCount
<1>4. ASSUME Alignable PROVE OffsetsAre'
  <2>1. ASSUME NEW sb \in Band(obs, band)
        PROVE  /\ offsets'[Box(obs, sb)] = Offset(obs, band, sb)
               /\ toWriter'[Box(obs, sb) + 1] = Offset(obs, band, sb)
    <3>1. obs \in Observations /\ band \in 1..Cardinality(RangeStarts(obs))
      BY <1>1, Counts
    <3>2. PICK g \in Indices(obs) : g = Box(obs, sb)
      BY <3>1, BandOf
    <3>3. \A s \in Band(obs, band) : Box(obs, s) = g => s = sb
      BY <3>1, <3>2, BandsDisjoint
    <3>4. (CHOOSE s \in Band(obs, band) : Box(obs, s) = g) = sb
      BY <3>2, <3>3
    <3>5. offsets'[g] = Offset(obs, band, sb)
      BY <3>2, <3>4, Current DEF OpenFiles
    <3>6. toWriter'[g + 1] = Offset(obs, band, sb)
      <4>1. PICK n \in Nat \ {0} : n = SubbandCount /\ n = Len(obs.numbers)
        BY <3>1, ObservationFacts, Current
      <4>2. g \in 0..(n - 1) /\ g + 1 \in 1..n /\ (g + 1) - 1 = g
        BY <4>1 DEF Indices
      <4>3. CASE obs.doAlign
        BY <3>5, <4>1, <4>2, <4>3 DEF OpenFiles
      <4>4. CASE ~obs.doAlign
        <5>1. Cardinality(RangeStarts(obs)) = 1 /\ StartTogether
          BY <1>4, <4>4, Current DEF Alignable
        <5>2. First(obs, band) = 0 /\ End(obs, band) = n
          BY <3>1, <4>1, <5>1, BandsAre
        <5>3. SbStart = 0 /\ SbEnd = n
          BY <5>2, Current
        <5>4. toWriter' = [i \in 1..(SbEnd - SbStart) |-> 0]
          BY <4>4 DEF OpenFiles
        <5>5. toWriter'[g + 1] = 0
          BY <4>2, <5>3, <5>4
        <5>6. Offset(obs, band, sb) = 0
          BY <3>1, <5>1, OffsetIs DEF StartTogether
        <5> QED BY <5>5, <5>6
      <4> QED BY <4>3, <4>4
    <3> QED BY <3>2, <3>5, <3>6
  <2> QED BY <1>2, <2>1 DEF OffsetsAre
<1>5. ASSUME Alignable PROVE FilesAre'
  <2>1. ASSUME NEW k PROVE RowsGiven(k)' = RowsGiven(k)
    BY <1>2 DEF RowsGiven
  <2> QED BY <1>1, <1>2, <1>5, <2>1 DEF FilesAre, Holds
<1>6. ASSUME Alignable PROVE ReadIs'
  <2>1. ASSUME NEW t \in Scans, NEW b \in Rows, NEW sb
        PROVE  ~InFile(t, b, sb) /\ ~InFile(t, b, sb)'
    <3>1. t * NBaselines + b \in Nat
      BY <1>1, Counts DEF Scans, Rows
    <3> QED BY <1>2, <3>1 DEF InFile
  <2> QED BY <1>1, <1>2, <1>6, <2>1 DEF ReadIs
<1> QED BY <1>2, <1>3, <1>4, <1>5, <1>6, AlignableSame DEF IInv

(* One more row for a file that holds those given before.                    *)
LEMMA HoldsOneMore ==
  ASSUME NEW rows, NEW n \in Nat, NEW offset \in Nat, NEW sb, NBaselines \in Nat,
         Holds(rows, n, offset, sb)
  PROVE  IF Writable(n + 1, offset)
         THEN Holds(Put(rows, RowInFile(n + 1, offset), Flags(n, sb)), n + 1, offset, sb)
         ELSE Holds(rows, n + 1, offset, sb)
<1>1. PICK p \in Nat : p = offset * NBaselines
  OBVIOUS
<1>2. PICK m \in Nat : m = RowsHeld(n, offset) /\ m = IF n > p + 1 THEN n - p ELSE 0
  <2>1. RowsHeld(n, offset) = IF n > p + 1 THEN n - p ELSE 0
    BY <1>1 DEF RowsHeld
  <2>2. (IF n > p + 1 THEN n - p ELSE 0) \in Nat
    BY <1>1
  <2> QED BY <2>1, <2>2
<1>3. Len(rows) = m /\ \A r \in 2..m : rows[r] = Flags(p + r - 1, sb)
  BY <1>1, <1>2 DEF Holds
<1>4. CASE n + 1 > p + 1
  <2>1. PICK r \in Nat : r = n + 1 - p
    BY <1>4
  <2>2. RowsHeld(n + 1, offset) = r /\ RowInFile(n + 1, offset) = r /\ Writable(n + 1, offset)
    BY <1>1, <1>4, <2>1 DEF RowsHeld, RowInFile, Writable
  <2>3. m < r /\ (m = r - 1 \/ r = 2) /\ n = p + r - 1
    BY <1>2, <1>4, <2>1
  <2>4. PICK q : q = Put(rows, r, Flags(n, sb))
    OBVIOUS
  <2>5. Len(q) = r /\ q[r] = Flags(n, sb) /\ \A i \in 1..m : q[i] = rows[i]
    BY <1>3, <2>3, <2>4, PutIs
  <2>6. ASSUME NEW i \in 2..r PROVE q[i] = Flags(p + i - 1, sb)
    <3>1. CASE i = r
      BY <2>3, <2>5, <3>1
    <3>2. CASE i # r
      <4>1. i \in 2..m
        BY <2>3, <3>2
      <4>2. i \in 1..m
        BY <4>1
      <4> QED BY <1>3, <2>5, <4>1, <4>2
    <3> QED BY <3>1, <3>2
  <2>7. Holds(q, n + 1, offset, sb)
    BY <1>1, <2>2, <2>5, <2>6 DEF Holds
  <2> QED BY <2>2, <2>4, <2>7
<1>5. CASE ~(n + 1 > p + 1)
  <2>1. ~Writable(n + 1, offset) /\ RowsHeld(n + 1, offset) = m
    BY <1>1, <1>2, <1>5 DEF Writable, RowsHeld
  <2>2. Holds(rows, n + 1, offset, sb)
    BY <1>1, <1>3, <2>1 DEF Holds
  <2> QED BY <2>1, <2>2
<1> QED BY <1>4, <1>5

LEMMA WriteRowStep ==
  ASSUME IInv, WriteRow
  PROVE  IInv'
<1>1. PlaceIs /\ (Alignable => OffsetsAre /\ FilesAre /\ ReadIs)
  BY DEF IInv
<1>2. PICK n \in Nat : /\ rowsWritten = n /\ rowsWritten' = n + 1 /\ n + 1 <= RowCount
                       /\ n + 1 \in Nat /\ rowsWritten # -1
  <2>1. PICK c \in Nat : c = RowCount
    BY <1>1, Counts
  <2>2. rowsWritten \in 0..(c - 1) /\ rowsWritten' = rowsWritten + 1
    BY <2>1 DEF WriteRow, RowCount
  <2> QED BY <2>1, <2>2
<1>3. /\ obs' = obs /\ run = "write" /\ run' = run /\ band' = band /\ offsets' = offsets
      /\ toWriter' = toWriter /\ readBack' = readBack
  BY DEF WriteRow
<1>4. PlaceIs'
  BY <1>1, <1>2, <1>3, Counts DEF PlaceIs, RowCount
<1>5. ASSUME Alignable PROVE OffsetsAre'
  BY <1>1, <1>2, <1>3, <1>5 DEF OffsetsAre
<1>6. ASSUME Alignable PROVE FilesAre'
  <2>1. PICK c \in Nat \ {0} : c = Cardinality(RangeStarts(obs))
    BY <1>1, Counts
  <2>2. obs \in Observations /\ band \in 1..c
    BY <1>1, <2>1, Counts
  <2>3. DOMAIN file' = Indices(obs)
    BY Current DEF WriteRow
  <2>4. ASSUME NEW k \in 1..c, NEW sb \in Band(obs, k)
        PROVE  Holds(file'[Box(obs, sb)], RowsGiven(k)', Offset(obs, k, sb), sb)
    <3>1. Holds(file[Box(obs, sb)], RowsGiven(k), Offset(obs, k, sb), sb)
      BY <1>1, <1>6, <2>1 DEF FilesAre
    <3>2. PICK g \in Indices(obs) : g = Box(obs, sb)
      BY <2>1, <2>2, BandOf
    <3> DEFINE Given == \E s \in Band(obs, band) :
                          Box(obs, s) = g /\ Writable(n + 1, toWriter[Box(obs, s) + 1])
    <3>3. file'[g] = IF Given
                     THEN Put(file[g], RowInFile(n + 1, toWriter[g + 1]),
                              <<Scan(n), Baseline(n),
                                CHOOSE s \in Band(obs, band) : Box(obs, s) = g>>)
                     ELSE file[g]
      BY <1>2, Current DEF WriteRow
    <3>4. CASE k = band
      <4>1. \A s \in Band(obs, band) : Box(obs, s) = g => s = sb
        BY <2>1, <2>2, <3>2, <3>4, BandsDisjoint
      <4>2. (CHOOSE s \in Band(obs, band) : Box(obs, s) = g) = sb
        BY <3>2, <3>4, <4>1
      <4>3. PICK offset \in Nat : offset = Offset(obs, k, sb)
        BY <2>1, <2>2, OffsetIs
      <4>4. toWriter[g + 1] = offset
        BY <1>1, <1>2, <1>6, <3>2, <3>4, <4>3 DEF OffsetsAre
      <4>5. Given <=> Writable(n + 1, offset)
        BY <3>2, <3>4, <4>1, <4>4
      <4>6. RowsGiven(k) = n /\ RowsGiven(k)' = n + 1
        BY <1>2, <1>3, <2>2, <3>4 DEF RowsGiven
      <4>7. Flags(n, sb) = <<Scan(n), Baseline(n), sb>>
        BY DEF Flags
      <4>8. file'[g] = IF Writable(n + 1, offset)
                       THEN Put(file[g], RowInFile(n + 1, offset), Flags(n, sb)) ELSE file[g]
        <5> HIDE DEF Given
        <5> QED BY <3>3, <4>2, <4>4, <4>5, <4>7
      <4>9. Holds(file[g], n, offset, sb)
        BY <3>1, <3>2, <4>3, <4>6
      <4>10. Holds(file'[g], n + 1, offset, sb)
        <5>1. NBaselines \in Nat
          BY <1>1, Counts
        <5>2. IF Writable(n + 1, offset)
              THEN Holds(Put(file[g], RowInFile(n + 1, offset), Flags(n, sb)), n + 1, offset, sb)
              ELSE Holds(file[g], n + 1, offset, sb)
          BY <4>9, <5>1, HoldsOneMore
        <5> QED BY <4>8, <5>2
      <4> QED BY <3>2, <4>3, <4>6, <4>10
    <3>5. CASE k # band
      <4>1. ~Given
        BY <2>1, <2>2, <3>2, <3>5, BandsDisjoint
      <4>2. RowsGiven(k)' = RowsGiven(k)
        BY <1>3, <3>5 DEF RowsGiven
      <4> QED BY <3>1, <3>2, <3>3, <4>1, <4>2
    <3> QED BY <3>4, <3>5
  <2> QED BY <1>3, <2>1, <2>3, <2>4 DEF FilesAre, Holds
<1>7. ASSUME Alignable PROVE ReadIs'
  BY <1>1, <1>3, <1>7 DEF ReadIs
<1> QED BY <1>3, <1>4, <1>5, <1>6, <1>7, AlignableSame DEF IInv

(* The rows of a band are read scan by scan.                                 *)
LEMMA RowOf ==
  ASSUME NEW n \in Nat, NEW t \in Nat, NEW B \in Nat \ {0}, NEW b \in 0..(B - 1)
  PROVE  n = t * B + b <=> n \div B = t /\ n % B = b
<1>1. PICK q \in Nat, r \in 0..(B - 1) : n \div B = q /\ n % B = r /\ n = q * B + r
  BY Division
<1>2. (t * B + b) \div B = t /\ (t * B + b) % B = b
  BY DivisionOf
<1> QED BY <1>1, <1>2

LEMMA ReadRowStep ==
  ASSUME IInv, ReadRow
  PROVE  IInv'
<1>1. PlaceIs /\ (Alignable => OffsetsAre /\ FilesAre /\ ReadIs)
  BY DEF IInv
<1>2. PICK n \in Nat : /\ rowsWritten = n /\ rowsWritten' = n + 1 /\ n + 1 <= RowCount
                       /\ n + 1 \in Nat /\ rowsWritten # -1
  <2>1. PICK c \in Nat : c = RowCount
    BY <1>1, Counts
  <2>2. rowsWritten \in 0..(c - 1) /\ rowsWritten' = rowsWritten + 1
    BY <2>1 DEF ReadRow, RowCount
  <2> QED BY <2>1, <2>2
<1>3. /\ obs' = obs /\ run = "read" /\ run' = run /\ band' = band /\ offsets' = offsets
      /\ toWriter' = toWriter /\ file' = file
  BY DEF ReadRow
<1>4. PlaceIs'
  BY <1>1, <1>2, <1>3, Counts DEF PlaceIs, RowCount
<1>5. ASSUME Alignable PROVE OffsetsAre'
  BY <1>1, <1>2, <1>3, <1>5 DEF OffsetsAre
<1>6. ASSUME Alignable PROVE FilesAre'
  <2>1. ASSUME NEW k PROVE RowsGiven(k)' = RowsGiven(k)
    BY <1>3 DEF RowsGiven
  <2> QED BY <1>1, <1>3, <1>6, <2>1 DEF FilesAre, Holds
<1>7. ASSUME Alignable PROVE ReadIs'
  <2>1. PICK c \in Nat \ {0}, B \in Nat \ {0} :
          c = Cardinality(RangeStarts(obs)) /\ B = NBaselines
    BY <1>1, Counts
  <2>2. obs \in Observations /\ band \in 1..c
    BY <1>1, <2>1, Counts
  <2>3. PICK q \in Nat, r \in 0..(B - 1) : n \div B = q /\ n % B = r /\ n = q * B + r
    BY Division
  <2> DEFINE Row(g) == (q - offsets[g]) * B + r + 1
  <2>4. readBack' = [i \in DOMAIN readBack |->
           IF i[1] = q /\ i[2] = r /\ i[3] \in Band(obs, band) /\ q >= offsets[Box(obs, i[3])]
           THEN file[Box(obs, i[3])][Row(Box(obs, i[3]))]
           ELSE readBack[i]]
    BY <1>2, <2>1, <2>3, Current DEF ReadRow, Scan, Baseline
  <2>5. DOMAIN readBack' = Scans \X Rows \X Indices(obs)
    BY <1>1, <1>7, <2>4 DEF ReadIs
  <2>6. ASSUME NEW t \in Scans, NEW b \in Rows, NEW sb \in Indices(obs)
        PROVE  /\ t \in Nat /\ b \in 0..(B - 1) /\ sb \in Nat /\ t * B + b \in Nat
               /\ n = t * B + b <=> t = q /\ b = r
    <3>1. t \in Nat /\ b \in 0..(B - 1) /\ sb \in Nat
      BY <1>1, <2>1, Counts DEF Scans, Rows, Indices
    <3>2. n = t * B + b <=> n \div B = t /\ n % B = b
      BY <3>1, RowOf
    <3>3. t * B + b \in Nat
      BY <3>1
    <3> QED BY <2>3, <3>1, <3>2, <3>3
  <2>7. ASSUME NEW t \in Scans, NEW b \in Rows, NEW sb \in Indices(obs)
        PROVE  readBack'[<<t, b, sb>>] =
                 IF t = q /\ b = r /\ sb \in Band(obs, band) /\ q >= offsets[Box(obs, sb)]
                 THEN file[Box(obs, sb)][Row(Box(obs, sb))]
                 ELSE readBack[<<t, b, sb>>]
    <3>1. <<t, b, sb>> \in DOMAIN readBack
      BY <1>1, <1>7 DEF ReadIs
    <3> HIDE DEF Row
    <3> QED BY <2>4, <3>1
  <2>8. ASSUME NEW sb \in Band(obs, band)
        PROVE  offsets[Box(obs, sb)] = Offset(obs, band, sb) /\ Offset(obs, band, sb) \in Nat
               /\ sb \in Indices(obs)
    <3>1. Offset(obs, band, sb) \in Nat /\ sb \in Indices(obs)
      BY <2>1, <2>2, OffsetIs, BandOf
    <3> QED BY <1>1, <1>2, <1>7, <3>1 DEF OffsetsAre
  <2>10. ASSUME NEW t \in Scans, NEW b \in Rows, NEW sb \in Band(obs, band),
                InFile(t, b, sb)', ~(t = Offset(obs, band, sb) /\ b = 0)
         PROVE  readBack'[<<t, b, sb>>] = <<t, b, sb>>
    <3>1. PICK offset \in Nat : offset = Offset(obs, band, sb) /\ offset = offsets[Box(obs, sb)]
      BY <2>8
    <3>2. PICK p \in Nat : p = t * B + b
      BY <2>6, <2>8
    <3>3. p < n + 1 /\ t >= offset
      BY <1>2, <1>3, <2>1, <2>10, <3>1, <3>2 DEF InFile
    <3>4. sb \in Indices(obs)
      BY <2>8
    <3>5. CASE p = n
      <4>1. t = q /\ b = r
        BY <2>6, <3>2, <3>4, <3>5
      <4>2. readBack'[<<t, b, sb>>] = file[Box(obs, sb)][(q - offset) * B + r + 1]
        BY <2>7, <3>1, <3>3, <3>4, <4>1
      <4>3. PICK d \in Nat : d = q - offset
        BY <3>1, <3>3, <4>1, <2>3
      <4>4. q * B = offset * B + d * B /\ d * B \in Nat /\ offset * B \in Nat
        BY <2>1, <2>3, <3>1, <4>3
      <4>5. d # 0 => d * B >= 1
        BY <2>1, <4>3
      <4>6. PICK x \in Nat : x = d * B + r + 1
        BY <2>3, <4>4
      <4>7. x >= 2
        <5>1. CASE d = 0
          <6>1. r # 0
            BY <2>10, <3>1, <4>1, <4>3, <5>1
          <6> QED BY <2>3, <4>4, <4>6, <6>1
        <5>2. CASE d # 0
          BY <2>3, <4>4, <4>5, <4>6, <5>2
        <5> QED BY <5>1, <5>2
      <4>8. PICK m \in Nat : m = RowCount
        BY <1>1, Counts
      <4>9. RowsHeld(m, offset) = m - offset * B /\ x <= m - offset * B
        <5>1. n + 1 <= m /\ n = offset * B + d * B + r
          BY <1>2, <2>3, <4>4, <4>8
        <5>2. x <= m - offset * B
          BY <2>3, <4>4, <4>6, <5>1
        <5>3. m > offset * B + 1
          BY <4>4, <4>7, <5>2
        <5> QED BY <2>1, <5>2, <5>3 DEF RowsHeld
      <4>10. file[Box(obs, sb)][x] = Flags(offset * B + x - 1, sb)
        <5>1. RowsGiven(band) = m
          BY <1>3, <4>8 DEF RowsGiven
        <5>2. Holds(file[Box(obs, sb)], m, offset, sb)
          BY <1>1, <1>7, <2>1, <2>2, <3>1, <5>1 DEF FilesAre
        <5>3. x \in 2..RowsHeld(m, offset)
          BY <4>4, <4>7, <4>9
        <5> QED BY <2>1, <5>2, <5>3 DEF Holds
      <4>11. offset * B + x - 1 = n
        BY <2>3, <4>4, <4>6
      <4>12. Flags(n, sb) = <<t, b, sb>>
        BY <2>1, <2>3, <4>1 DEF Flags, Scan, Baseline
      <4> QED BY <4>2, <4>3, <4>6, <4>10, <4>11, <4>12
    <3>6. CASE p # n
      <4>1. InFile(t, b, sb)
        BY <1>2, <2>1, <3>1, <3>2, <3>3, <3>6 DEF InFile
      <4>2. readBack[<<t, b, sb>>] = <<t, b, sb>>
        BY <1>1, <1>3, <1>7, <2>10, <4>1 DEF ReadIs
      <4>3. ~(t = q /\ b = r)
        BY <2>6, <3>2, <3>4, <3>6
      <4> HIDE DEF Row
      <4> QED BY <2>7, <3>4, <4>2, <4>3
    <3> QED BY <3>5, <3>6
  <2>11. ASSUME NEW t \in Scans, NEW b \in Rows, NEW sb \in Band(obs, band), InFile(t, b, sb)'
         PROVE  (t = Offset(obs, band, sb) /\ b = 0) \/ readBack'[<<t, b, sb>>] = <<t, b, sb>>
    BY <2>10, <2>11
  <2> QED BY <1>3, <2>5, <2>11 DEF ReadIs, Scans, Rows
<1> QED BY <1>3, <1>4, <1>5, <1>6, <1>7, AlignableSame DEF IInv

LEMMA EndBandStep ==
  ASSUME IInv, EndBand
  PROVE  IInv'
<1>1. PlaceIs /\ (Alignable => OffsetsAre /\ FilesAre /\ ReadIs)
  BY DEF IInv
<1>2. PICK c \in Nat \ {0} : c = Cardinality(RangeStarts(obs)) /\ c = BandCount
  BY <1>1, Counts, Current
<1>3. band \in 1..c /\ obs \in Observations
  BY <1>1, <1>2, Counts
<1>4. /\ obs' = obs /\ file' = file /\ readBack' = readBack /\ rowsWritten = RowCount
      /\ rowsWritten' = -1 /\ offsets' = [g \in Indices(obs) |-> Unknown]
      /\ run \in {"write", "read"}
  BY <1>1, Current DEF EndBand, RowCount, PlaceIs
<1>5. \/ band < c /\ band' = band + 1 /\ run' = run
      \/ band = c /\ band' = 1 /\ run' = (IF run = "write" THEN "read" ELSE "done")
  BY <1>2, <1>3 DEF EndBand
<1>6. PlaceIs'
  <2>1. run' \in {"write", "read", "done"}
    BY <1>4, <1>5
  <2>2. band' \in 1..c
    BY <1>3, <1>5
  <2>3. -1 \in -1..RowCount
    BY <1>1, Counts
  <2> QED BY <1>2, <1>3, <1>4, <2>1, <2>2, <2>3 DEF PlaceIs, RowCount
<1>7. ASSUME Alignable PROVE OffsetsAre'
  BY <1>4 DEF OffsetsAre
<1>8. ASSUME Alignable PROVE FilesAre'
  <2>1. ASSUME NEW k \in 1..c PROVE RowsGiven(k)' = RowsGiven(k)
    <3>1. RowCount' = RowCount /\ RowCount # -1
      BY <1>1, Counts DEF RowCount
    <3>2. CASE run # "write"
      BY <1>4, <1>5, <3>1, <3>2 DEF RowsGiven
    <3>3. CASE run = "write" /\ band < c
      BY <1>3, <1>4, <1>5, <3>1, <3>3 DEF RowsGiven
    <3>4. CASE run = "write" /\ band = c
      BY <1>3, <1>4, <1>5, <3>1, <3>4 DEF RowsGiven
    <3> QED BY <1>3, <3>2, <3>3, <3>4
  <2>2. DOMAIN file' = Indices(obs)
    BY <1>1, <1>4, <1>8 DEF FilesAre
  <2>3. ASSUME NEW k \in 1..c, NEW sb \in Band(obs, k)
        PROVE  Holds(file[Box(obs, sb)], RowsGiven(k), Offset(obs, k, sb), sb)
    BY <1>1, <1>2, <1>8 DEF FilesAre
  <2>4. ASSUME NEW k \in 1..c, NEW sb \in Band(obs, k)
        PROVE  Holds(file'[Box(obs, sb)], RowsGiven(k)', Offset(obs, k, sb), sb)
    BY <1>4, <2>1, <2>3
  <2>5. /\ obs' = obs /\ DOMAIN file' = Indices(obs)
        /\ \A k \in 1..Cardinality(RangeStarts(obs)) : \A sb \in Band(obs, k) :
             Holds(file'[Box(obs, sb)], RowsGiven(k)', Offset(obs, k, sb), sb)
    BY <1>2, <1>4, <2>2, <2>4
  <2> QED BY <2>5 DEF FilesAre
<1>9. ASSUME Alignable PROVE ReadIs'
  <2>1. ASSUME NEW t \in Scans, NEW b \in Rows, NEW sb PROVE ~InFile(t, b, sb)'
    <3>1. t * NBaselines + b \in Nat
      BY <1>1, Counts DEF Scans, Rows
    <3> QED BY <1>4, <3>1 DEF InFile
  <2>2. DOMAIN readBack = Scans \X Rows \X Indices(obs)
    BY <1>1, <1>9 DEF ReadIs
  <2> QED BY <1>4, <2>1, <2>2 DEF ReadIs, Scans, Rows
<1> QED BY <1>4, <1>6, <1>7, <1>8, <1>9, AlignableSame DEF IInv

LEMMA StutterStep ==
  ASSUME IInv, UNCHANGED vars
  PROVE  IInv'
<1>1. /\ obs' = obs /\ run' = run /\ band' = band /\ offsets' = offsets /\ toWriter' = toWriter
      /\ rowsWritten' = rowsWritten /\ file' = file /\ readBack' = readBack
  BY DEF vars
<1>2. PlaceIs' <=> PlaceIs
  BY <1>1 DEF PlaceIs, RowCount
<1>3. OffsetsAre' <=> OffsetsAre
  BY <1>1 DEF OffsetsAre
<1>4. FilesAre' <=> FilesAre
  BY <1>1 DEF FilesAre, RowsGiven, Holds
<1>5. ReadIs' <=> ReadIs
  BY <1>1 DEF ReadIs, InFile
<1> QED BY <1>1, <1>2, <1>3, <1>4, <1>5, AlignableSame DEF IInv

LEMMA Initially == Init => IInv
<1> SUFFICES ASSUME Init PROVE IInv
  OBVIOUS
<1>1. /\ obs \in Observations /\ run = "write" /\ band = 1 /\ rowsWritten = -1
      /\ offsets = [g \in Indices(obs) |-> Unknown] /\ file = [g \in Indices(obs) |-> <<>>]
      /\ DOMAIN readBack = Scans \X Rows \X Indices(obs)
  BY Current DEF Init, Scans, Rows
<1>2. PICK c \in Nat \ {0} : c = Cardinality(RangeStarts(obs))
  BY <1>1, BandsAre
<1>3. RowCount \in Nat /\ NBaselines \in Nat
  BY FlagFilesAssumption DEF RowCount
<1>4. PlaceIs
  BY <1>1, <1>2, <1>3 DEF PlaceIs
<1>5. OffsetsAre
  BY <1>1 DEF OffsetsAre
<1>6. FilesAre
  <2>1. ASSUME NEW k \in 1..c, NEW sb \in Band(obs, k)
        PROVE  Holds(file[Box(obs, sb)], RowsGiven(k), Offset(obs, k, sb), sb)
    <3>1. RowsGiven(k) = 0
      BY <1>1 DEF RowsGiven
    <3>2. PICK offset \in Nat : offset = Offset(obs, k, sb)
      BY <1>1, <1>2, OffsetIs
    <3>3. file[Box(obs, sb)] = <<>>
      BY <1>1, <1>2, BandOf
    <3>4. RowsHeld(0, offset) = 0
      <4>1. offset * NBaselines \in Nat
        BY <1>3
      <4> QED BY <4>1 DEF RowsHeld
    <3> QED BY <3>1, <3>2, <3>3, <3>4 DEF Holds
  <2> QED BY <1>1, <1>2, <2>1 DEF FilesAre
<1>7. ReadIs
  BY <1>1 DEF ReadIs
<1> QED BY <1>4, <1>5, <1>6, <1>7 DEF IInv

LEMMA Invariant == Spec => []IInv
<1>1. Init => IInv
  BY Initially
<1>2. IInv /\ [Next]_vars => IInv'
  <2> SUFFICES ASSUME IInv, [Next]_vars PROVE IInv'
    OBVIOUS
  <2>1. CASE OpenFiles
    BY <2>1, OpenFilesStep
  <2>2. CASE WriteRow
    BY <2>2, WriteRowStep
  <2>3. CASE ReadRow
    BY <2>3, ReadRowStep
  <2>4. CASE EndBand
    BY <2>4, EndBandStep
  <2>5. CASE Stopped \/ UNCHANGED vars
    BY <2>5, StutterStep DEF Stopped
  <2> QED BY <2>1, <2>2, <2>3, <2>4, <2>5 DEF Next
<1> QED BY <1>1, <1>2, PTL DEF Spec

-----------------------------------------------------------------------------
(* Whatever the coarse channels are, initializeSbOrder flags the subband      *)
(* whose data would have come from the gpubox that is missing: the order of   *)
(* the subbands is its own inverse.                                          *)
THEOREM MissingBoxIsFlagged == Spec => []MissingBoxFlagsItsSubband
<1>1. IInv => MissingBoxFlagsItsSubband
  <2> SUFFICES ASSUME IInv, NEW g \in Subbands PROVE FileOf(SubbandOrder(g)) = g
    BY DEF MissingBoxFlagsItsSubband
  <2>1. obs \in Observations /\ g \in Indices(obs)
    BY Current DEF IInv, PlaceIs
  <2> QED BY <2>1, OrderInvolution, Current
<1> QED BY <1>1, Invariant, PTL

LEMMA ReadAsWritten ==
  ASSUME IInv, Alignable
  PROVE  FlagsReadBack
<1>1. PlaceIs /\ OffsetsAre /\ ReadIs
  BY DEF IInv
<1>2. SUFFICES ASSUME NEW i \in DOMAIN readBack, HasRead(i),
                      i[1] > OffsetOf(i) \/ (i[1] = OffsetOf(i) /\ i[2] > 0)
               PROVE  readBack[i] = i
  BY DEF FlagsReadBack
<1>3. PICK t \in Scans, b \in Rows, sb \in Indices(obs) :
        i = <<t, b, sb>> /\ i[1] = t /\ i[2] = b /\ i[3] = sb
  BY <1>1 DEF ReadIs
<1>4. /\ run = "read" /\ sb \in Band(obs, band) /\ rowsWritten > t * NBaselines + b
  BY <1>2, <1>3, Current DEF HasRead
<1>5. t \in Nat /\ b \in Nat /\ t * NBaselines + b \in Nat
  BY <1>1, Counts DEF Scans, Rows
<1>6. obs \in Observations /\ band \in 1..Cardinality(RangeStarts(obs)) /\ rowsWritten \in Int
  BY <1>1, Counts
<1>7. PICK offset \in Nat : offset = Offset(obs, band, sb)
  BY <1>4, <1>6, OffsetIs
<1>8. OffsetOf(i) = offset
  <2>1. rowsWritten # -1
    BY <1>4, <1>5
  <2> QED BY <1>1, <1>3, <1>4, <1>7, <2>1, Current DEF OffsetsAre, OffsetOf
<1>9. t >= offset /\ ~(t = offset /\ b = 0)
  BY <1>2, <1>3, <1>5, <1>7, <1>8
<1>10. InFile(t, b, sb)
  BY <1>4, <1>5, <1>6, <1>7, <1>9 DEF InFile
<1>11. readBack[<<t, b, sb>>] = <<t, b, sb>>
  BY <1>1, <1>3, <1>4, <1>7, <1>9, <1>10 DEF ReadIs
<1> QED BY <1>3, <1>11

(* A later run gets the flags that were written for its scan, baseline and     *)
(* subband in every row that a file holds but its first one, through the      *)
(* order of the subbands, the bands, and the shift by the offset of each      *)
(* file: with alignment, or without it where the writer's zeros fit.  Of the   *)
(* scans before the offset of a file it says nothing: the file does not hold   *)
(* their flags, so they do not come back.                                    *)
THEOREM FlagsComeBack == Spec => [](Alignable => FlagsReadBack)
<1>1. IInv => (Alignable => FlagsReadBack)
  BY ReadAsWritten
<1> QED BY <1>1, Invariant, PTL
=============================================================================
