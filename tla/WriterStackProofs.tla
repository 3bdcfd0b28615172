-------------------------- MODULE WriterStackProofs --------------------------
(***************************************************************************)
(* Proofs about WriterStack, for every number of antennas and every set of  *)
(* runs: which rows are put into the file, in which order and made of which *)
(* scans, and that they were allocated; then, from TotalIs, what is in the  *)
(* channels of a row.                                                       *)
(***************************************************************************)
EXTENDS WriterStack, NumberProofs

(* Scans in groups of t: those of group g, those before scan c that are in   *)
(* its group, and the groups that are begun before c.  Once the rows of the  *)
(* scans before c and h rows of c have been averaged, RowsOut of them are    *)
(* out, when there are n baselines.                                          *)
GroupOf(t, g) == [i \in 1..t |-> g * t + i - 1]
Since(t, c) == [i \in 1..(c % t) |-> (c \div t) * t + i - 1]
Groups(t, c) == (c \div t) + (IF c % t = 0 THEN 0 ELSE 1)
RowsOut(t, n, c, h) == (c \div t) * n + (IF c % t = t - 1 THEN h ELSE 0)

N == Len(OutputOrder)

(* The row that the outer ThreadedWriter has accepted is the last one that    *)
(* Cotter wrote; before it, all rows of the scans before HandledScan and the  *)
(* first HandledRows of that scan have been averaged.                        *)
HandledScan == IF outer # <<>> /\ next = -1 THEN scan - 1 ELSE scan
HandledRows == IF outer = <<>> THEN (IF next = -1 THEN 0 ELSE next)
               ELSE (IF next = -1 THEN N ELSE next) - 1

(* How many rows have left the averaging, how many scans were begun.         *)
Emitted == RowsOut(run.timeAvg, N, HandledScan, HandledRows)
Begun == IF next = -1 THEN scan ELSE scan + 1

ClientIs ==
  /\ run \in Runs
  /\ pc \in {"setup", "rows", "ask", "closing", "destroyed", "refused"}
  /\ scan \in Nat /\ next \in -1..N
  /\ pc # "rows" => next = -1
  /\ pc \in {"setup", "refused"} => scan = 0 /\ outer = <<>>

OuterIs ==
  /\ outer # <<>> =>
       /\ Averaging(run) /\ outer = <<outer[1]>> /\ HandledScan \in Nat /\ HandledRows \in 0..(N - 1)
       /\ outer[1].baseline = OutputOrder[HandledRows + 1] /\ outer[1].scans = <<HandledScan>>
  /\ emitting \in BOOLEAN
  /\ emitting => outer # <<>> /\ HandledScan % run.timeAvg = run.timeAvg - 1

(* AveragingWriter's buffers hold the scans of the group that is not complete. *)
SumOf(k) ==
  IF emitting /\ k = HandledRows + 1 THEN GroupOf(run.timeAvg, HandledScan \div run.timeAvg)
  ELSE Since(run.timeAvg, IF k <= HandledRows THEN HandledScan + 1 ELSE HandledScan)
SumsAre ==
  Averaging(run) /\ pc # "setup" =>
    /\ DOMAIN sums = Baselines
    /\ \A b \in Baselines \ OutputBaselines : sums[b].scans = <<>>
    /\ \A k \in 1..N : sums[OutputOrder[k]].scans = SumOf(k)

RowIs(row, i) == /\ row.baseline = OutputOrder[((i - 1) % N) + 1]
                 /\ row.scans = GroupOf(run.timeAvg, (i - 1) \div N)

RowsAre ==
  /\ inner = <<>> \/ Len(inner) = 1
  /\ Len(table) \in Nat /\ table = [i \in 1..Len(table) |-> table[i]]
  /\ Len(table) + Len(inner) = Emitted
  /\ \A i \in 1..Len(table) : RowIs(table[i], i)
  /\ inner # <<>> => RowIs(inner[1], Emitted)

FileIs ==
  /\ IF pc = "setup" THEN bandInfo = <<>> ELSE Len(bandInfo) = 1
  /\ rowsAdded = Begun % run.timeAvg
  /\ pc # "destroyed" => /\ IF Begun = 0 THEN header = <<>> ELSE Len(header) = 1
                         /\ nrow = IF Begun = 0 THEN 0
                                   ELSE IF run.output = "ms" THEN Groups(run.timeAvg, Begun) * N
                                   ELSE InitialGroups
  /\ pc = "destroyed" => /\ inner = <<>> /\ outer = <<>>
                         /\ IF Begun = 0 /\ run.output = "fits" THEN header = <<>> ELSE Len(header) = 1
                         /\ nrow = IF run.output = "ms" THEN Groups(run.timeAvg, scan) * N
                                   ELSE Len(table)

(* Is there an output baseline that is not (0,0)?  The answer of             *)
(* IsTimeAligned is about (0,0): if that is in the output, or if no scans    *)
(* are left over, it is right about all baselines.                           *)
FirstNotAlone == OutputBaselines # {<<0, 0>>}
FirstOrMultiple == <<0, 0>> \in OutputBaselines \/ run.nScans % run.timeAvg = 0

(* The rows of the last scan that is begun belong to a group that a scan of   *)
(* the observation is in; without alignment scans the last one is complete.  *)
EndIs ==
  FirstNotAlone /\ FirstOrMultiple /\ ~run.skipWriting =>
    /\ pc = "rows" => scan < NGroups * run.timeAvg
    /\ pc \in {"ask", "closing", "destroyed"} => scan \in run.nScans..(NGroups * run.timeAvg)
    /\ pc \in {"closing", "destroyed"} => scan % run.timeAvg = 0
SkippedIs == run.skipWriting => scan = 0 /\ pc # "rows"

IInv == ClientIs /\ OuterIs /\ SumsAre /\ RowsAre /\ FileIs /\ EndIs /\ SkippedIs

-----------------------------------------------------------------------------
-----------------------------------------------------------------------------
LEMMA PairOf ==
  ASSUME NEW A, NEW b \in A \X A
  PROVE  b[1] \in A /\ b[2] \in A /\ b = <<b[1], b[2]>>
OBVIOUS

(* Pairs of antennas, counted.                                               *)
LEMMA PairsCounted ==
  ASSUME NEW U \in SUBSET Nat, IsFiniteSet(U)
  PROVE  LET u == Cardinality(U)
             L == {b \in U \X U : b[1] < b[2]}
             E == {b \in U \X U : b[1] <= b[2]}
         IN  /\ u \in Nat
             /\ IsFiniteSet(L) /\ Cardinality(L) \in Nat /\ 2 * Cardinality(L) + u = u * u
             /\ IsFiniteSet(E) /\ Cardinality(E) \in Nat /\ 2 * Cardinality(E) = u * u + u
<1> DEFINE u == Cardinality(U)
           L == {b \in U \X U : b[1] < b[2]}
           G == {b \in U \X U : b[2] < b[1]}
           D == {b \in U \X U : b[1] = b[2]}
           E == {b \in U \X U : b[1] <= b[2]}
<1>1. u \in Nat /\ IsFiniteSet(U \X U) /\ Cardinality(U \X U) = u * u
  BY FS_CardinalityType, FS_Product
<1>2. /\ IsFiniteSet(L) /\ IsFiniteSet(G) /\ IsFiniteSet(D) /\ IsFiniteSet(E)
  BY <1>1, FS_Subset
<1>3. Cardinality(L) \in Nat /\ Cardinality(G) \in Nat /\ Cardinality(D) \in Nat
      /\ Cardinality(E) \in Nat
  BY <1>2, FS_CardinalityType
<1>4. Cardinality(G) = Cardinality(L)
  <2> DEFINE swap == [b \in L |-> <<b[2], b[1]>>]
  <2>1. ASSUME NEW b \in L
        PROVE  b = <<b[1], b[2]>> /\ swap[b] = <<b[2], b[1]>> /\ swap[b] \in G
    <3>1. b \in U \X U /\ b[1] < b[2]
      OBVIOUS
    <3>2. b[1] \in U /\ b[2] \in U /\ b = <<b[1], b[2]>>
      BY <3>1, PairOf
    <3> QED BY <3>1, <3>2
  <2>2. ASSUME NEW c \in G PROVE <<c[2], c[1]>> \in L /\ swap[<<c[2], c[1]>>] = c
    <3>1. c \in U \X U /\ c[2] < c[1]
      OBVIOUS
    <3>2. c[1] \in U /\ c[2] \in U /\ c = <<c[1], c[2]>>
      BY <3>1, PairOf
    <3> QED BY <3>1, <3>2
  <2>3. DOMAIN swap = L /\ swap = [b \in L |-> swap[b]]
    OBVIOUS
  <2> HIDE DEF swap, L, G
  <2>4. swap \in [L -> G]
    BY <2>1, <2>3
  <2>5. ASSUME NEW b \in L, NEW c \in L, swap[b] = swap[c] PROVE b = c
    <3>1. <<b[2], b[1]>> = <<c[2], c[1]>>
      BY <2>1, <2>5
    <3>2. b[1] = c[1] /\ b[2] = c[2]
      BY <3>1
    <3> QED BY <2>1, <3>2
  <2>6. swap \in Bijection(L, G)
    BY <2>2, <2>4, <2>5 DEF Bijection, Injection, Surjection, IsInjective
  <2> QED BY <1>2, <2>6, FS_Bijection DEF ExistsBijection
<1>5. Cardinality(D) = u
  <2> DEFINE twice == [a \in U |-> <<a, a>>]
  <2>1. ASSUME NEW a \in U PROVE twice[a] = <<a, a>> /\ twice[a] \in D
    OBVIOUS
  <2>2. ASSUME NEW c \in D PROVE c[1] \in U /\ twice[c[1]] = c
    <3>1. c \in U \X U /\ c[1] = c[2]
      OBVIOUS
    <3>2. c[1] \in U /\ c[2] \in U /\ c = <<c[1], c[2]>>
      BY <3>1, PairOf
    <3> QED BY <3>1, <3>2
  <2>3. DOMAIN twice = U /\ twice = [a \in U |-> twice[a]]
    OBVIOUS
  <2> HIDE DEF twice, D
  <2>4. twice \in [U -> D]
    BY <2>1, <2>3
  <2>5. ASSUME NEW a \in U, NEW c \in U, twice[a] = twice[c] PROVE a = c
    BY <2>1, <2>5
  <2>6. twice \in Bijection(U, D)
    BY <2>2, <2>4, <2>5 DEF Bijection, Injection, Surjection, IsInjective
  <2> QED BY <2>6, FS_Bijection DEF ExistsBijection
<1>6. ASSUME NEW b
      PROVE  /\ b \in L => b[1] \in Nat /\ b[2] \in Nat /\ b[1] < b[2]
             /\ b \in U \X U => b[1] \in Nat /\ b[2] \in Nat
  <2>1. b \in U \X U => b[1] \in U /\ b[2] \in U
    BY PairOf
  <2> QED BY <2>1
<1>7. /\ E = L \union D /\ L \intersect D = {}
      /\ U \X U = E \union G /\ E \intersect G = {}
  <2>1. ASSUME NEW b \in U \X U
        PROVE  /\ b \in E <=> b[1] < b[2] \/ b[1] = b[2]
               /\ b \in E <=> ~(b[2] < b[1])
               /\ b \in L <=> b[1] < b[2]
               /\ b \in D <=> b[1] = b[2]
               /\ b \in G <=> b[2] < b[1]
               /\ ~(b[1] < b[2] /\ b[1] = b[2])
    <3>1. b[1] \in Nat /\ b[2] \in Nat
      BY <1>6
    <3> QED BY <3>1
  <2>2. L \subseteq U \X U /\ D \subseteq U \X U /\ E \subseteq U \X U /\ G \subseteq U \X U
    OBVIOUS
  <2> HIDE DEF L, D, E, G
  <2> QED BY <2>1, <2>2
<1>8. Cardinality(E) = Cardinality(L) + Cardinality(D) /\ u * u = Cardinality(E) + Cardinality(G)
  <2> HIDE DEF L, D, E, G
  <2>1. Cardinality(L \union D) = Cardinality(L) + Cardinality(D) - Cardinality(L \intersect D)
    BY <1>2, FS_Union
  <2>2. Cardinality(E \union G) = Cardinality(E) + Cardinality(G) - Cardinality(E \intersect G)
    BY <1>2, FS_Union
  <2>3. Cardinality(L \intersect D) = 0 /\ Cardinality(E \intersect G) = 0
    BY <1>7, FS_EmptySet
  <2>4. Cardinality(E) = Cardinality(L) + Cardinality(D)
    BY <1>3, <1>7, <2>1, <2>3
  <2>5. Cardinality(E \union G) = Cardinality(E) + Cardinality(G)
    BY <1>3, <2>2, <2>3
  <2>6. Cardinality(E \union G) = Cardinality(U \X U)
    BY <1>7, Zenon
  <2> QED BY <1>1, <2>4, <2>5, <2>6
<1> QED BY <1>1, <1>2, <1>3, <1>4, <1>5, <1>8

(* The k-th pair of a set, in the order of the loops.                        *)
Preceding(S, b) == {c \in S : Before(c, b)}
Rank(S, b) == Cardinality(Preceding(S, b))
InOrder(S) == [k \in 1..Cardinality(S) |-> CHOOSE b \in S : Rank(S, b) = k - 1]

LEMMA RankIs ==
  ASSUME NEW S \in SUBSET (Nat \X Nat), IsFiniteSet(S), NEW b \in S
  PROVE  /\ Rank(S, b) \in Nat /\ Rank(S, b) < Cardinality(S)
         /\ \A c \in S : Before(b, c) => Rank(S, b) < Rank(S, c)
<1>1. b \notin Preceding(S, b)
  BY DEF Preceding, Before
<1>2. IsFiniteSet(Preceding(S, b)) /\ Rank(S, b) \in Nat
  <2>1. Preceding(S, b) \in SUBSET S
    BY DEF Preceding
  <2> QED BY <2>1, FS_Subset, FS_CardinalityType DEF Rank
<1> DEFINE B == Preceding(S, b) \union {b}
<1>3. IsFiniteSet(B) /\ Cardinality(B) = Rank(S, b) + 1
  BY <1>1, <1>2, FS_AddElement DEF Rank
<1>4. ASSUME NEW T, IsFiniteSet(T), B \subseteq T PROVE Rank(S, b) < Cardinality(T)
  <2>1. Cardinality(B) <= Cardinality(T) /\ Cardinality(T) \in Nat
    BY <1>4, FS_Subset, FS_CardinalityType
  <2> HIDE DEF B
  <2> QED BY <1>2, <1>3, <2>1
<1>5. B \subseteq S
  BY DEF Preceding
<1>6. ASSUME NEW c \in S, Before(b, c) PROVE Rank(S, b) < Rank(S, c)
  <2>1. B \subseteq Preceding(S, c)
    BY <1>6 DEF Preceding, Before
  <2>2. IsFiniteSet(Preceding(S, c))
    <3>1. Preceding(S, c) \in SUBSET S
      BY DEF Preceding
    <3> QED BY <3>1, FS_Subset
  <2> HIDE DEF B
  <2> QED BY <1>4, <2>1, <2>2 DEF Rank
<1> HIDE DEF B
<1> QED BY <1>2, <1>4, <1>5, <1>6

LEMMA Ordered ==
  ASSUME NEW S \in SUBSET (Nat \X Nat), IsFiniteSet(S)
  PROVE  /\ Cardinality(S) \in Nat
         /\ \A k \in 1..Cardinality(S) : InOrder(S)[k] \in S
         /\ \A j, k \in 1..Cardinality(S) : InOrder(S)[j] = InOrder(S)[k] => j = k
         /\ \A b \in S : \E k \in 1..Cardinality(S) : InOrder(S)[k] = b
         /\ <<0, 0>> \in S => Cardinality(S) >= 1 /\ InOrder(S)[1] = <<0, 0>>
<1>1. PICK n \in Nat : n = Cardinality(S)
  BY FS_CardinalityType
<1>2. ASSUME NEW b \in S PROVE Rank(S, b) \in 0..(n - 1)
  <2>1. Rank(S, b) \in Nat /\ Rank(S, b) < Cardinality(S)
    BY RankIs
  <2> QED BY <1>1, <2>1
<1>3. ASSUME NEW b \in S, NEW c \in S, Rank(S, b) = Rank(S, c) PROVE b = c
  <2>1. PICK x \in Nat, y \in Nat : b = <<x, y>>
    OBVIOUS
  <2>2. PICK v \in Nat, w \in Nat : c = <<v, w>>
    OBVIOUS
  <2>3. Before(b, c) \/ Before(c, b) \/ b = c
    BY <2>1, <2>2 DEF Before
  <2>4. Before(b, c) => Rank(S, b) < Rank(S, c)
    BY RankIs
  <2>5. Before(c, b) => Rank(S, c) < Rank(S, b)
    BY RankIs
  <2> QED BY <1>2, <1>3, <2>3, <2>4, <2>5
<1> DEFINE R == [b \in S |-> Rank(S, b) + 1]
<1>4. ASSUME NEW b \in S PROVE R[b] = Rank(S, b) + 1 /\ R[b] \in 1..n
  <2>1. PICK r \in 0..(n - 1) : Rank(S, b) = r
    BY <1>2
  <2>2. R[b] = r + 1
    BY <2>1
  <2> HIDE DEF R
  <2> QED BY <2>1, <2>2
<1>5. R \in [S -> 1..n]
  BY <1>4
<1> HIDE DEF R
<1>6. R \in Injection(S, 1..n)
  <2>1. ASSUME NEW b \in S, NEW c \in S, R[b] = R[c] PROVE b = c
    <3>1. PICK p \in 0..(n - 1), q \in 0..(n - 1) : Rank(S, b) = p /\ Rank(S, c) = q
      BY <1>2
    <3>2. p + 1 = q + 1
      BY <1>4, <2>1, <3>1
    <3> QED BY <1>3, <3>1, <3>2
  <2> QED BY <1>5, <2>1 DEF Injection, IsInjective
<1>7. R \in Surjection(S, 1..n)
  <2>1. IsFiniteSet(1..n) /\ Cardinality(1..n) = n
    <3>1. IsFiniteSet(1..n) /\ Cardinality(1..n) = IF 1 > n THEN 0 ELSE n - 1 + 1
      BY FS_Interval
    <3> QED BY <3>1
  <2> QED BY <1>1, <1>6, <2>1, FS_Injection
<1>8. ASSUME NEW k \in 1..n PROVE InOrder(S)[k] \in S /\ Rank(S, InOrder(S)[k]) = k - 1
  <2>1. PICK b \in S : R[b] = k
    BY <1>7 DEF Surjection
  <2>2. PICK r \in 0..(n - 1) : Rank(S, b) = r
    BY <1>2
  <2>3. Rank(S, b) = k - 1
    BY <1>4, <2>1, <2>2
  <2>4. InOrder(S)[k] = CHOOSE c \in S : Rank(S, c) = k - 1
    BY <1>1 DEF InOrder
  <2> QED BY <2>3, <2>4
<1>9. ASSUME NEW j \in 1..n, NEW k \in 1..n, InOrder(S)[j] = InOrder(S)[k] PROVE j = k
  <2>1. j - 1 = k - 1
    BY <1>8, <1>9
  <2> QED BY <2>1
<1>10. ASSUME NEW b \in S PROVE \E k \in 1..n : InOrder(S)[k] = b
  <2>1. PICK r \in 0..(n - 1) : Rank(S, b) = r
    BY <1>2
  <2>2. PICK k \in 1..n : k = r + 1
    OBVIOUS
  <2>3. InOrder(S)[k] \in S /\ Rank(S, InOrder(S)[k]) = r
    BY <1>8, <2>2
  <2> QED BY <1>3, <2>1, <2>3
<1>11. ASSUME <<0, 0>> \in S PROVE n >= 1 /\ InOrder(S)[1] = <<0, 0>>
  <2>1. Rank(S, <<0, 0>>) = 0
    <3>1. Preceding(S, <<0, 0>>) = {}
      BY DEF Preceding, Before
    <3> QED BY <3>1, FS_EmptySet DEF Rank
  <2>2. 1 \in 1..n
    BY <1>2, <1>11, <2>1
  <2>3. InOrder(S)[1] \in S /\ Rank(S, InOrder(S)[1]) = 0
    BY <1>8, <2>2
  <2> QED BY <1>3, <1>11, <2>1, <2>2, <2>3
<1> QED BY <1>1, <1>8, <1>9, <1>10, <1>11

-----------------------------------------------------------------------------
(* The output baselines and their order.                                     *)
LEMMA RunFacts ==
  ASSUME run \in Runs
  PROVE  /\ NAntennae \in Nat \ {0} /\ run.flagged \subseteq Antennae
         /\ run.nScans \in Nat \ {0} /\ run.timeAvg \in Nat \ {0}
         /\ run.output \in {"ms", "fits"}
BY RunAssumption DEF RunType, Antennae

LEMMA OutputBaselinesFinite ==
  /\ IsFiniteSet(Antennae) /\ Antennae \subseteq Nat /\ Cardinality(Antennae) = NAntennae
  /\ IsFiniteSet(Baselines) /\ InitialGroups \in Nat
  /\ OutputBaselines \subseteq Nat \X Nat
  /\ IsFiniteSet(OutputBaselines)
<1>1. NAntennae \in Nat \ {0}
  BY RunAssumption
<1>2. IsFiniteSet(Antennae) /\ Antennae \subseteq Nat /\ Cardinality(Antennae) = NAntennae
  <2>1. IsFiniteSet(0..(NAntennae - 1))
        /\ Cardinality(0..(NAntennae - 1)) = IF 0 > NAntennae - 1 THEN 0 ELSE (NAntennae - 1) - 0 + 1
    BY <1>1, FS_Interval
  <2> QED BY <1>1, <2>1 DEF Antennae
<1>3. IsFiniteSet(Antennae \X Antennae)
  BY <1>2, FS_Product
<1>4. IsFiniteSet(Baselines)
  <2>1. Baselines \in SUBSET (Antennae \X Antennae)
    BY DEF Baselines
  <2> QED BY <1>3, <2>1, FS_Subset
<1>5. IsFiniteSet(OutputBaselines)
  <2>1. OutputBaselines \in SUBSET Baselines
    BY DEF OutputBaselines
  <2> QED BY <1>4, <2>1, FS_Subset
<1>6. OutputBaselines \subseteq Nat \X Nat
  <2> SUFFICES ASSUME NEW b \in OutputBaselines PROVE b \in Nat \X Nat
    OBVIOUS
  <2>1. b \in Antennae \X Antennae
    BY DEF OutputBaselines, Baselines
  <2>2. b[1] \in Antennae /\ b[2] \in Antennae /\ b = <<b[1], b[2]>>
    BY <2>1, PairOf
  <2> QED BY <1>2, <2>2
<1>7. InitialGroups \in Nat
  BY <1>4, FS_CardinalityType DEF InitialGroups
<1> QED BY <1>2, <1>4, <1>5, <1>6, <1>7

LEMMA OrderIs ==
  /\ N \in Nat /\ N = Cardinality(OutputBaselines)
  /\ \A k \in 1..N : OutputOrder[k] \in OutputBaselines
  /\ \A j, k \in 1..N : OutputOrder[j] = OutputOrder[k] => j = k
  /\ \A b \in OutputBaselines : \E k \in 1..N : OutputOrder[k] = b
  /\ <<0, 0>> \in OutputBaselines => N >= 1 /\ OutputOrder[1] = <<0, 0>>
<1>1. PICK S : S = OutputBaselines
  OBVIOUS
<1>2. S \in SUBSET (Nat \X Nat) /\ IsFiniteSet(S)
  BY <1>1, OutputBaselinesFinite
<1>3. OutputOrder = InOrder(S)
  BY <1>1 DEF OutputOrder, InOrder, Rank, Preceding
<1>4. /\ Cardinality(S) \in Nat
      /\ \A k \in 1..Cardinality(S) : InOrder(S)[k] \in S
      /\ \A j, k \in 1..Cardinality(S) : InOrder(S)[j] = InOrder(S)[k] => j = k
      /\ \A b \in S : \E k \in 1..Cardinality(S) : InOrder(S)[k] = b
      /\ <<0, 0>> \in S => Cardinality(S) >= 1 /\ InOrder(S)[1] = <<0, 0>>
  BY <1>2, Ordered
<1>5. N = Cardinality(S)
  <2>1. PICK n \in Nat : n = Cardinality(S)
    BY <1>4
  <2>2. InOrder(S) = [k \in 1..n |-> InOrder(S)[k]]
    BY <2>1 DEF InOrder
  <2>3. InOrder(S) \in Seq(S) /\ DOMAIN InOrder(S) = 1..n
    BY <1>4, <2>1, <2>2
  <2>4. Len(InOrder(S)) \in Nat /\ DOMAIN InOrder(S) = 1..Len(InOrder(S))
    BY <2>3, LenProperties
  <2> QED BY <1>3, <2>1, <2>3, <2>4 DEF N
<1> QED BY <1>1, <1>3, <1>4, <1>5

LEMMA RowsPerTimescanIs ==
  ASSUME run \in Runs
  PROVE  RowsPerTimescan = N
<1> DEFINE U == IF run.removeFlagged THEN Antennae \ run.flagged ELSE Antennae
           n == IF run.removeFlagged THEN NAntennae - Cardinality(run.flagged) ELSE NAntennae
           L == {b \in U \X U : b[1] < b[2]}
           E == {b \in U \X U : b[1] <= b[2]}
<1>1. U \in SUBSET Nat /\ IsFiniteSet(U) /\ Cardinality(U) = n
  <2>1. IsFiniteSet(run.flagged) /\ Antennae \intersect run.flagged = run.flagged
    BY RunFacts, OutputBaselinesFinite, FS_Subset
  <2>2. IsFiniteSet(Antennae \ run.flagged)
        /\ Cardinality(Antennae \ run.flagged) = Cardinality(Antennae) - Cardinality(Antennae \intersect run.flagged)
    BY <2>1, OutputBaselinesFinite, FS_Difference
  <2> QED BY <2>1, <2>2, OutputBaselinesFinite
<1>2. OutputBaselines = IF run.removeAutos THEN L ELSE E
  <2>1. ASSUME NEW b \in Antennae \X Antennae
        PROVE  b \in U \X U <=> (run.removeFlagged => b[1] \notin run.flagged /\ b[2] \notin run.flagged)
    <3>1. b[1] \in Antennae /\ b[2] \in Antennae /\ b = <<b[1], b[2]>>
      BY PairOf
    <3>2. b \in U \X U <=> b[1] \in U /\ b[2] \in U
      BY <3>1
    <3> QED BY <3>1, <3>2
  <2>2. ASSUME NEW b \in U \X U PROVE b \in Antennae \X Antennae
    <3>1. b[1] \in U /\ b[2] \in U /\ b = <<b[1], b[2]>>
      BY PairOf
    <3>2. U \subseteq Antennae
      OBVIOUS
    <3> QED BY <3>1, <3>2
  <2>3. ASSUME NEW b \in Antennae \X Antennae
        PROVE  b[1] <= b[2] /\ b[1] # b[2] <=> b[1] < b[2]
    <3>1. b[1] \in Antennae /\ b[2] \in Antennae
      BY PairOf
    <3>2. b[1] \in Nat /\ b[2] \in Nat
      BY <3>1, OutputBaselinesFinite
    <3> QED BY <3>2
  <2> HIDE DEF U
  <2>4. ASSUME NEW b PROVE b \in OutputBaselines <=> b \in IF run.removeAutos THEN L ELSE E
    <3>1. b \in OutputBaselines <=>
            /\ b \in Antennae \X Antennae /\ b[1] <= b[2]
            /\ run.removeFlagged => b[1] \notin run.flagged /\ b[2] \notin run.flagged
            /\ run.removeAutos => b[1] # b[2]
      BY DEF OutputBaselines, Baselines, OutputBaseline
    <3>2. b \in L <=> b \in U \X U /\ b[1] < b[2]
      OBVIOUS
    <3>3. b \in E <=> b \in U \X U /\ b[1] <= b[2]
      OBVIOUS
    <3> HIDE DEF L, E
    <3> QED BY <2>1, <2>2, <2>3, <3>1, <3>2, <3>3, Zenon
  <2> HIDE DEF L, E
  <2> QED BY <2>4
<1> HIDE DEF U
<1>3. /\ Cardinality(U) \in Nat
      /\ Cardinality(L) \in Nat /\ 2 * Cardinality(L) + Cardinality(U) = Cardinality(U) * Cardinality(U)
      /\ Cardinality(E) \in Nat /\ 2 * Cardinality(E) = Cardinality(U) * Cardinality(U) + Cardinality(U)
  BY <1>1, PairsCounted
<1> HIDE DEF L, E
<1>4. PICK u \in Nat, l \in Nat, e \in Nat :
        u = Cardinality(U) /\ l = Cardinality(L) /\ e = Cardinality(E)
  BY <1>3
<1>5. (u * (u - 1)) \div 2 = l /\ (u * (u + 1)) \div 2 = e
  <2>1. u * (u - 1) = u * u - u /\ u * (u + 1) = u * u + u
    OBVIOUS
  <2>2. u * (u - 1) = 2 * l /\ u * (u + 1) = 2 * e
    BY <1>3, <1>4, <2>1
  <2>3. (2 * l) \div 2 = l /\ (2 * e) \div 2 = e
    OBVIOUS
  <2> QED BY <2>2, <2>3
<1>6. RowsPerTimescan = (IF run.removeAutos THEN u * (u - 1) ELSE u * (u + 1)) \div 2
  BY <1>1, <1>4 DEF RowsPerTimescan
<1>7. N = IF run.removeAutos THEN l ELSE e
  BY <1>2, <1>4, OrderIs
<1> QED BY <1>5, <1>6, <1>7

-----------------------------------------------------------------------------
(* Scans, groups and rows, counted.                                          *)
LEMMA SinceIs ==
  ASSUME NEW t \in Nat \ {0}, NEW c \in Nat
  PROVE  /\ Len(Since(t, c)) = c % t /\ c % t \in 0..(t - 1)
         /\ Since(t, c) = <<>> <=> c % t = 0
         /\ c % t = t - 1 => Since(t, c) \o <<c>> = GroupOf(t, c \div t)
         /\ c % t # t - 1 => Since(t, c) \o <<c>> = Since(t, c + 1)
<1>1. PICK q \in Nat, r \in 0..(t - 1) : c \div t = q /\ c % t = r /\ c = q * t + r
  BY Division
<1>2. PICK p \in Nat : p = q * t
  OBVIOUS
<1> DEFINE s == [i \in 1..r |-> p + i - 1]
<1>3. Since(t, c) = s
  BY <1>1, <1>2 DEF Since
<1>4. s \in Seq(Int) /\ DOMAIN s = 1..r
  BY <1>2
<1>5. Len(s) = r
  BY <1>4, LenProperties
<1>6. s = <<>> <=> r = 0
  BY <1>4, <1>5
<1>7. s \o <<c>> = [i \in 1..(r + 1) |-> p + i - 1]
  <2>1. c = p + r /\ c \in Int
    BY <1>1, <1>2
  <2>2. <<c>> \in Seq(Int) /\ Len(<<c>>) = 1 /\ <<c>>[1] = c
    BY <2>1
  <2> DEFINE w == [i \in 1..(r + 1) |-> p + i - 1]
  <2>3. w \in Seq(Int) /\ DOMAIN w = 1..(r + 1)
    BY <1>2
  <2>4. Len(w) = r + 1
    BY <2>3, LenProperties
  <2>5. \A i \in 1..(r + 1) : w[i] = IF i <= r THEN s[i] ELSE c
    BY <1>2, <2>1
  <2> HIDE DEF s, w
  <2>6. s \o <<c>> \in Seq(Int) /\ Len(s \o <<c>>) = r + 1
    BY <1>4, <1>5, <2>2, ConcatProperties
  <2>7. \A i \in 1..(r + 1) : (s \o <<c>>)[i] = IF i <= r THEN s[i] ELSE <<c>>[i - r]
    BY <1>4, <1>5, <2>2, ConcatProperties
  <2>8. ASSUME NEW i \in 1..(r + 1) PROVE (s \o <<c>>)[i] = w[i]
    <3>1. CASE i <= r
      BY <2>5, <2>7, <3>1
    <3>2. CASE i = r + 1
      <4>1. ~(i <= r) /\ i - r = 1
        BY <3>2
      <4>2. (s \o <<c>>)[i] = <<c>>[i - r]
        BY <2>7, <4>1, Zenon
      <4>3. (s \o <<c>>)[i] = c
        BY <2>2, <4>1, <4>2
      <4>4. w[i] = c
        BY <2>5, <4>1
      <4> QED BY <4>3, <4>4
    <3>3. i <= r \/ i = r + 1
      OBVIOUS
    <3> QED BY <3>1, <3>2, <3>3, Zenon
  <2>9. s \o <<c>> = w
    <3>1. PICK v : v = s \o <<c>>
      OBVIOUS
    <3>2. v \in Seq(Int) /\ Len(v) = Len(w) /\ \A i \in 1..Len(v) : v[i] = w[i]
      BY <2>4, <2>6, <2>8, <3>1
    <3>3. v = w
      BY <2>3, <3>2, SeqEqual
    <3> QED BY <3>1, <3>3
  <2> QED BY <2>9 DEF w
<1>8. CASE r = t - 1
  <2>1. GroupOf(t, q) = [i \in 1..(r + 1) |-> p + i - 1]
    BY <1>2, <1>8 DEF GroupOf
  <2> HIDE DEF s
  <2> QED BY <1>1, <1>3, <1>5, <1>6, <1>7, <1>8, <2>1
<1>9. CASE r # t - 1
  <2>1. (c + 1) \div t = q /\ (c + 1) % t = r + 1
    BY <1>1, <1>9, NextQuotient
  <2>2. Since(t, c + 1) = [i \in 1..(r + 1) |-> p + i - 1]
    <3>1. PICK m \in Nat : m = r + 1 /\ (c + 1) % t = m
      BY <2>1
    <3>2. Since(t, c + 1) = [i \in 1..m |-> p + i - 1]
      BY <1>2, <2>1, <3>1 DEF Since
    <3> QED BY <3>1, <3>2
  <2> HIDE DEF s
  <2> QED BY <1>1, <1>3, <1>5, <1>6, <1>7, <1>9, <2>2
<1> QED BY <1>8, <1>9

LEMMA SinceNext ==
  ASSUME NEW t \in Nat \ {0}, NEW c \in Nat, c % t = t - 1
  PROVE  Since(t, c + 1) = <<>>
<1>1. (c + 1) % t = 0
  BY NextQuotient
<1>2. c + 1 \in Nat
  OBVIOUS
<1> QED BY <1>1, <1>2, SinceIs

LEMMA GroupLength ==
  ASSUME NEW t \in Nat \ {0}, NEW g \in Nat
  PROVE  Len(GroupOf(t, g)) = t
<1>1. PICK p \in Nat : p = g * t
  OBVIOUS
<1>2. GroupOf(t, g) = [i \in 1..t |-> p + i - 1]
  BY <1>1 DEF GroupOf
<1>3. GroupOf(t, g) \in Seq(Int) /\ DOMAIN GroupOf(t, g) = 1..t
  BY <1>2
<1> QED BY <1>3, LenProperties

LEMMA GroupsNext ==
  ASSUME NEW t \in Nat \ {0}, NEW c \in Nat
  PROVE  /\ Groups(t, c) \in Nat /\ Groups(t, 0) = 0
         /\ Groups(t, c + 1) = Groups(t, c) + (IF c % t = 0 THEN 1 ELSE 0)
<1>1. PICK q \in Nat, r \in 0..(t - 1) : c \div t = q /\ c % t = r /\ c = q * t + r
  BY Division
<1>2. Groups(t, c) = q + (IF r = 0 THEN 0 ELSE 1)
  BY <1>1 DEF Groups
<1>3. Groups(t, 0) = 0
  <2>1. 0 = 0 * t + 0 /\ 0 \in 0..(t - 1)
    OBVIOUS
  <2>2. (0 * t + 0) \div t = 0 /\ (0 * t + 0) % t = 0
    BY DivisionOf
  <2> QED BY <2>1, <2>2 DEF Groups
<1>4. CASE r = t - 1
  <2>1. (c + 1) \div t = q + 1 /\ (c + 1) % t = 0
    BY <1>1, <1>4, NextQuotient
  <2>2. Groups(t, c + 1) = q + 1
    BY <2>1 DEF Groups
  <2>3. CASE t = 1
    BY <1>1, <1>2, <1>3, <1>4, <2>2, <2>3
  <2>4. CASE t # 1
    BY <1>1, <1>2, <1>3, <1>4, <2>2, <2>4
  <2> QED BY <2>3, <2>4
<1>5. CASE r # t - 1
  <2>1. (c + 1) \div t = q /\ (c + 1) % t = r + 1
    BY <1>1, <1>5, NextQuotient
  <2>2. Groups(t, c + 1) = q + 1
    BY <2>1 DEF Groups
  <2> QED BY <1>1, <1>2, <1>3, <2>2
<1> QED BY <1>4, <1>5

LEMMA RowsOutNext ==
  ASSUME NEW t \in Nat \ {0}, NEW n \in Nat, NEW c \in Nat
  PROVE  /\ \A h \in 0..n : RowsOut(t, n, c, h) \in Nat /\ RowsOut(t, n, c, h) <= Groups(t, c + 1) * n
         /\ RowsOut(t, n, c, 0) = (c \div t) * n /\ RowsOut(t, n, 0, 0) = 0
         /\ RowsOut(t, n, c, 0) <= Groups(t, c) * n
         /\ \A h \in 0..n : h + 1 <= n =>
              RowsOut(t, n, c, h + 1) = RowsOut(t, n, c, h) + (IF c % t = t - 1 THEN 1 ELSE 0)
         /\ RowsOut(t, n, c + 1, 0) = RowsOut(t, n, c, n)
<1>1. PICK q \in Nat, r \in 0..(t - 1) : c \div t = q /\ c % t = r /\ c = q * t + r
  BY Division
<1>2. PICK p \in Nat : p = q * n
  OBVIOUS
<1>3. (q + 1) * n = p + n
  BY <1>2
<1>4. \A h \in 0..n : RowsOut(t, n, c, h) = p + (IF r = t - 1 THEN h ELSE 0)
  BY <1>1, <1>2 DEF RowsOut
<1>5. RowsOut(t, n, c, 0) = (c \div t) * n
  BY <1>1, <1>2, <1>4
<1>6. RowsOut(t, n, 0, 0) = 0
  <2>1. 0 = 0 * t + 0 /\ 0 \in 0..(t - 1)
    OBVIOUS
  <2>2. (0 * t + 0) \div t = 0 /\ (0 * t + 0) % t = 0
    BY DivisionOf
  <2>3. 0 \div t = 0 /\ 0 * n = 0
    BY <2>1, <2>2
  <2> QED BY <2>3 DEF RowsOut
<1>7. Groups(t, c + 1) = q + 1 /\ (Groups(t, c) = q \/ Groups(t, c) = q + 1)
  <2>1. CASE r = 0
    <3>1. Groups(t, c) = q
      BY <1>1, <2>1 DEF Groups
    <3> QED BY <1>1, <2>1, <3>1, GroupsNext
  <2>2. CASE r # 0
    <3>1. Groups(t, c) = q + 1
      BY <1>1, <2>2 DEF Groups
    <3>2. Groups(t, c + 1) = Groups(t, c) + (IF c % t = 0 THEN 1 ELSE 0)
      BY GroupsNext
    <3> QED BY <1>1, <2>2, <3>1, <3>2
  <2> QED BY <2>1, <2>2
<1>8. Groups(t, c + 1) * n = p + n /\ (Groups(t, c) * n = p \/ Groups(t, c) * n = p + n)
  BY <1>2, <1>3, <1>7
<1>9. RowsOut(t, n, c + 1, 0) = IF r = t - 1 THEN p + n ELSE p
  <2>1. CASE r = t - 1
    <3>1. (c + 1) \div t = q + 1
      BY <1>1, <2>1, NextQuotient
    <3>2. RowsOut(t, n, c + 1, 0) = (q + 1) * n + 0
      BY <3>1 DEF RowsOut
    <3> QED BY <1>3, <2>1, <3>2
  <2>2. CASE r # t - 1
    <3>1. (c + 1) \div t = q
      BY <1>1, <2>2, NextQuotient
    <3>2. RowsOut(t, n, c + 1, 0) = q * n + 0
      BY <3>1 DEF RowsOut
    <3> QED BY <1>2, <2>2, <3>2
  <2> QED BY <2>1, <2>2
<1>10. PICK g \in Nat, f \in Nat : g = Groups(t, c) * n /\ f = Groups(t, c + 1) * n
  BY <1>2, <1>8
<1>11. ASSUME NEW h \in 0..n
       PROVE  /\ RowsOut(t, n, c, h) \in Nat /\ RowsOut(t, n, c, h) <= Groups(t, c + 1) * n
              /\ h + 1 <= n =>
                   RowsOut(t, n, c, h + 1) = RowsOut(t, n, c, h) + (IF c % t = t - 1 THEN 1 ELSE 0)
  <2>1. PICK x \in Nat : x = RowsOut(t, n, c, h) /\ x = p + (IF r = t - 1 THEN h ELSE 0)
    BY <1>4
  <2>2. h + 1 <= n => RowsOut(t, n, c, h + 1) = p + (IF r = t - 1 THEN h + 1 ELSE 0)
    BY <1>4
  <2> QED BY <1>1, <1>8, <1>10, <2>1, <2>2
<1>12. RowsOut(t, n, c, 0) = p /\ RowsOut(t, n, c, n) = p + (IF r = t - 1 THEN n ELSE 0)
  BY <1>4
<1>13. RowsOut(t, n, c, 0) <= Groups(t, c) * n /\ RowsOut(t, n, c + 1, 0) = RowsOut(t, n, c, n)
  BY <1>8, <1>9, <1>10, <1>12
<1> QED BY <1>5, <1>6, <1>11, <1>13

(* Where the next row belongs.                                               *)
LEMMA RowPlace ==
  ASSUME NEW t \in Nat \ {0}, NEW n \in Nat, NEW c \in Nat, NEW h \in 0..(n - 1), c % t = t - 1
  PROVE  RowsOut(t, n, c, h) \div n = c \div t /\ RowsOut(t, n, c, h) % n = h
<1>1. PICK q \in Nat : c \div t = q
  BY Division
<1>2. RowsOut(t, n, c, h) = q * n + h
  BY <1>1 DEF RowsOut
<1>3. n \in Nat \ {0}
  OBVIOUS
<1> QED BY <1>1, <1>2, <1>3, DivisionOf

LEMMA AppendIs ==
  ASSUME NEW s, NEW x, Len(s) \in Nat, s = [i \in 1..Len(s) |-> s[i]]
  PROVE  /\ Len(Append(s, x)) = Len(s) + 1
         /\ Append(s, x) = [i \in 1..(Len(s) + 1) |-> Append(s, x)[i]]
         /\ \A i \in 1..Len(s) : Append(s, x)[i] = s[i]
         /\ Append(s, x)[Len(s) + 1] = x
<1> DEFINE S == {s[i] : i \in 1..Len(s)} \union {x}
<1>1. PICK n \in Nat : n = Len(s)
  OBVIOUS
<1>2. s = [i \in 1..n |-> s[i]] /\ \A i \in 1..n : s[i] \in S
  BY <1>1
<1>3. x \in S
  OBVIOUS
<1> HIDE DEF S
<1>4. s \in [1..n -> S]
  BY <1>2
<1>5. s \in Seq(S)
  BY <1>4
<1>6. /\ Append(s, x) \in Seq(S) /\ Len(Append(s, x)) = Len(s) + 1
      /\ \A i \in 1..Len(s) : Append(s, x)[i] = s[i]
      /\ Append(s, x)[Len(s) + 1] = x
  BY <1>3, <1>5, AppendProperties
<1>7. Append(s, x) \in [1..(Len(s) + 1) -> S]
  BY <1>6, LenProperties
<1> QED BY <1>6, <1>7

-----------------------------------------------------------------------------
(* What does not change with the state, and what follows from the invariant. *)
LEMMA ConstantsSame ==
  ASSUME run' = run
  PROVE  /\ N' = N /\ OutputOrder' = OutputOrder /\ OutputBaselines' = OutputBaselines
         /\ NGroups' = NGroups
<1>1. OutputBaselines' = OutputBaselines
  BY DEF OutputBaselines, OutputBaseline
<1>2. OutputOrder' = OutputOrder
  BY <1>1 DEF OutputOrder
<1> QED BY <1>1, <1>2 DEF N, NGroups

LEMMA AddedScans ==
  ASSUME NEW r, NEW buffer, NEW row
  PROVE  Added(r, buffer, row).scans = buffer.scans \o row.scans
BY DEF Added

LEMMA OuterFacts ==
  ASSUME ClientIs, OuterIs, outer # <<>>
  PROVE  /\ run.timeAvg \in Nat \ {0} /\ N \in Nat /\ pc # "setup" /\ Averaging(run)
         /\ HandledScan \in Nat /\ HandledRows \in 0..(N - 1)
         /\ outer[1].baseline = OutputOrder[HandledRows + 1]
         /\ outer[1].scans = <<HandledScan>>
         /\ IF next = -1 THEN scan = HandledScan + 1 /\ HandledRows = N - 1
            ELSE scan = HandledScan /\ next = HandledRows + 1
<1>1. run.timeAvg \in Nat \ {0} /\ N \in Nat /\ pc # "setup"
  BY RunFacts, OrderIs DEF ClientIs
<1>2. /\ Averaging(run) /\ HandledScan \in Nat /\ HandledRows \in 0..(N - 1)
      /\ outer[1].baseline = OutputOrder[HandledRows + 1] /\ outer[1].scans = <<HandledScan>>
  BY DEF OuterIs
<1>3. IF next = -1 THEN scan = HandledScan + 1 /\ HandledRows = N - 1
      ELSE scan = HandledScan /\ next = HandledRows + 1
  BY <1>1 DEF HandledScan, HandledRows, ClientIs
<1> QED BY <1>1, <1>2, <1>3

(* The buffers after one of them, of the row that the outer thread handles,  *)
(* has got new contents.                                                     *)
LEMMA SumsChanged ==
  ASSUME ClientIs, OuterIs, SumsAre, outer # <<>>, run' = run, NEW new,
         sums' = [sums EXCEPT ![outer[1].baseline] = new]
  PROVE  /\ DOMAIN sums' = Baselines
         /\ \A b \in Baselines \ OutputBaselines : sums'[b].scans = <<>>
         /\ \A k \in 1..N : sums'[OutputOrder[k]].scans =
              IF k = HandledRows + 1 THEN new.scans ELSE SumOf(k)
<1>1. PICK b : b = outer[1].baseline
  OBVIOUS
<1>0. PICK n \in Nat : n = N
  BY OrderIs
<1>2. PICK h \in 0..(n - 1) : n = N /\ h = HandledRows /\ b = OutputOrder[h + 1]
  BY <1>0, <1>1, OuterFacts
<1>3. b \in OutputBaselines /\ b \in Baselines
  BY <1>2, OrderIs DEF OutputBaselines
<1>4. /\ DOMAIN sums = Baselines
      /\ \A a \in Baselines \ OutputBaselines : sums[a].scans = <<>>
      /\ \A k \in 1..n : sums[OutputOrder[k]].scans = SumOf(k)
  BY <1>2, OuterFacts DEF SumsAre
<1>5. /\ DOMAIN sums' = Baselines
      /\ \A a \in Baselines : sums'[a] = IF a = b THEN new ELSE sums[a]
  BY <1>1, <1>3, <1>4
<1>6. ASSUME NEW k \in 1..n
      PROVE  sums'[OutputOrder[k]].scans = IF k = h + 1 THEN new.scans ELSE SumOf(k)
  <2>1. OutputOrder[k] \in Baselines /\ (OutputOrder[k] = b <=> k = h + 1)
    BY <1>2, OrderIs DEF OutputBaselines
  <2> QED BY <1>4, <1>5, <2>1
<1> QED BY <1>2, <1>3, <1>4, <1>5, <1>6

-----------------------------------------------------------------------------
(* The steps of the two threads.                                             *)
LEMMA ThreadFrame ==
  ASSUME ClientIs, FileIs, EndIs, SkippedIs,
         UNCHANGED <<run, clientVars, rowsAdded, bandInfo, header, nrow>>,
         pc = "setup" \/ pc = "refused" => outer' = <<>>,
         pc # "destroyed"
  PROVE  ClientIs' /\ FileIs' /\ EndIs' /\ SkippedIs'
<1>1. run' = run /\ pc' = pc /\ scan' = scan /\ next' = next /\ rowsAdded' = rowsAdded
      /\ bandInfo' = bandInfo /\ header' = header /\ nrow' = nrow
  BY DEF clientVars
<1>2. N' = N /\ NGroups' = NGroups /\ OutputBaselines' = OutputBaselines
  BY <1>1, ConstantsSame
<1>3. ClientIs'
  BY <1>1, <1>2 DEF ClientIs
<1>4. Begun' = Begun
  BY <1>1 DEF Begun
<1>5. FileIs'
  BY <1>1, <1>2, <1>4 DEF FileIs
<1>6. EndIs'
  BY <1>1, <1>2 DEF EndIs, FirstNotAlone, FirstOrMultiple
<1>7. SkippedIs'
  BY <1>1 DEF SkippedIs
<1> QED BY <1>3, <1>5, <1>6, <1>7

LEMMA AccumulateStep ==
  ASSUME IInv, Accumulate
  PROVE  IInv'
<1> USE DEF IInv
<1>1. /\ outer # <<>> /\ emitting = FALSE
      /\ UNCHANGED <<run, clientVars, rowsAdded, inner, fileVars>>
      /\ outer' = outer \/ outer' = <<>>
  BY DEF Accumulate, OuterIs
<1>2. /\ run' = run /\ pc' = pc /\ scan' = scan /\ next' = next /\ inner' = inner
      /\ table' = table /\ N' = N /\ OutputOrder' = OutputOrder /\ OutputBaselines' = OutputBaselines
  BY <1>1, ConstantsSame DEF clientVars, fileVars
<1>3. pc # "setup" /\ pc # "refused" /\ pc # "destroyed"
  BY <1>1 DEF ClientIs, FileIs
<1>4. ClientIs' /\ FileIs' /\ EndIs' /\ SkippedIs'
  BY <1>1, <1>3, ThreadFrame DEF fileVars
<1>5. PICK t \in Nat \ {0}, n \in Nat, c \in Nat : t = run.timeAvg /\ n = N /\ c = HandledScan
  BY <1>1, OuterFacts
<1>6. PICK h \in 0..(n - 1) :
        /\ h = HandledRows
        /\ IF next = -1 THEN scan = c + 1 /\ h = n - 1 ELSE scan = c /\ next = h + 1
        /\ outer[1].baseline = OutputOrder[h + 1] /\ outer[1].scans = <<c>>
  BY <1>1, <1>5, OuterFacts
<1>0. PICK new : new = Added(run, sums[outer[1].baseline], outer[1])
  OBVIOUS
<1>7. new.scans = Since(t, c) \o <<c>>
  <2>1. sums[OutputOrder[h + 1]].scans = SumOf(h + 1)
    BY <1>1, <1>3, <1>5, <1>6, OuterFacts DEF SumsAre
  <2>2. SumOf(h + 1) = Since(t, c)
    BY <1>1, <1>5, <1>6 DEF SumOf
  <2>3. new.scans = sums[outer[1].baseline].scans \o outer[1].scans
    <3>1. PICK r, buffer, row : r = run /\ buffer = sums[outer[1].baseline] /\ row = outer[1]
      OBVIOUS
    <3>2. Added(r, buffer, row).scans = buffer.scans \o row.scans
      BY AddedScans
    <3> QED BY <1>0, <3>1, <3>2
  <2> QED BY <1>6, <2>1, <2>2, <2>3
<1>8. /\ sums' = [sums EXCEPT ![outer[1].baseline] = new]
      /\ IF Len(new.scans) = t THEN emitting' = TRUE /\ outer' = outer
         ELSE outer' = <<>> /\ emitting' = emitting
  BY <1>0, <1>5 DEF Accumulate
<1>9. /\ DOMAIN sums' = Baselines
      /\ \A b \in Baselines \ OutputBaselines : sums'[b].scans = <<>>
      /\ \A k \in 1..n : sums'[OutputOrder[k]].scans = IF k = h + 1 THEN new.scans ELSE SumOf(k)
  <2>1. sums' = [sums EXCEPT ![outer[1].baseline] = new] => 
          /\ DOMAIN sums' = Baselines
          /\ \A b \in Baselines \ OutputBaselines : sums'[b].scans = <<>>
          /\ \A k \in 1..N : sums'[OutputOrder[k]].scans =
               IF k = HandledRows + 1 THEN new.scans ELSE SumOf(k)
    BY <1>1, <1>2, SumsChanged, Zenon
  <2> QED BY <1>5, <1>6, <1>8, <2>1
<1>10. ASSUME NEW k \in 1..n, k # h + 1
       PROVE  SumOf(k) = Since(t, IF k <= h THEN c + 1 ELSE c)
  BY <1>1, <1>5, <1>6, <1>10 DEF SumOf
<1>11. CASE c % t = t - 1
  <2>1. new.scans = GroupOf(t, c \div t) /\ Len(new.scans) = t
    <3>1. PICK g \in Nat : g = c \div t
      BY Division
    <3>2. Len(GroupOf(t, g)) = t
      BY GroupLength
    <3>3. Since(t, c) \o <<c>> = GroupOf(t, c \div t)
      BY <1>11, SinceIs
    <3> QED BY <1>7, <3>1, <3>2, <3>3
  <2>2. emitting' = TRUE /\ outer' = outer
    BY <1>8, <2>1
  <2>3. HandledScan' = c /\ HandledRows' = h
    BY <1>2, <1>5, <1>6, <2>2 DEF HandledScan, HandledRows
  <2>4. OuterIs'
    BY <1>1, <1>2, <1>5, <1>6, <1>11, <2>2, <2>3 DEF OuterIs, Averaging
  <2>5. ASSUME NEW k \in 1..n PROVE sums'[OutputOrder[k]].scans = SumOf(k)'
    <3>1. CASE k = h + 1
      <4>1. SumOf(k)' = GroupOf(t, c \div t)
        BY <1>2, <1>5, <2>2, <2>3, <3>1 DEF SumOf
      <4> QED BY <1>9, <2>1, <3>1, <4>1
    <3>2. CASE k # h + 1
      <4>1. SumOf(k)' = Since(t, IF k <= h THEN c + 1 ELSE c)
        BY <1>2, <1>5, <2>3, <3>2 DEF SumOf
      <4> QED BY <1>9, <1>10, <3>2, <4>1
    <3> QED BY <3>1, <3>2
  <2>6. SumsAre'
    BY <1>2, <1>5, <1>9, <2>5 DEF SumsAre
  <2>7. Emitted' = Emitted
    BY <1>2, <1>5, <1>6, <2>3 DEF Emitted
  <2>8. RowsAre'
    BY <1>2, <2>7 DEF RowsAre, RowIs
  <2> QED BY <1>4, <2>4, <2>6, <2>8
<1>12. CASE c % t # t - 1
  <2>1. new.scans = Since(t, c + 1) /\ Len(new.scans) # t
    <3>1. (c + 1) % t \in 0..(t - 1) /\ Len(Since(t, c + 1)) = (c + 1) % t
      <4>1. c + 1 \in Nat
        OBVIOUS
      <4> QED BY <4>1, SinceIs
    <3>2. Since(t, c) \o <<c>> = Since(t, c + 1)
      BY <1>12, SinceIs
    <3> QED BY <1>7, <3>1, <3>2
  <2>2. emitting' = FALSE /\ outer' = <<>>
    BY <1>1, <1>8, <2>1
  <2>3. IF next = -1 THEN HandledScan' = c + 1 /\ HandledRows' = 0
        ELSE HandledScan' = c /\ HandledRows' = h + 1
    BY <1>2, <1>5, <1>6, <2>2 DEF HandledScan, HandledRows
  <2>4. OuterIs'
    BY <2>2 DEF OuterIs
  <2>5. ASSUME NEW k \in 1..n PROVE sums'[OutputOrder[k]].scans = SumOf(k)'
    <3>1. SumOf(k)' = Since(t, IF k <= h + 1 THEN c + 1 ELSE c)
      BY <1>2, <1>5, <1>6, <2>2, <2>3 DEF SumOf
    <3>2. CASE k = h + 1
      BY <1>9, <2>1, <3>1, <3>2
    <3>3. CASE k # h + 1
      BY <1>9, <1>10, <3>1, <3>3
    <3> QED BY <3>2, <3>3
  <2>6. SumsAre'
    BY <1>2, <1>5, <1>9, <2>5 DEF SumsAre
  <2>7. Emitted' = Emitted
    <3>1. Emitted = RowsOut(t, n, c, h)
      BY <1>5, <1>6 DEF Emitted
    <3>2. RowsOut(t, n, c, h) = RowsOut(t, n, c, h + 1)
      <4>1. h \in 0..n /\ h + 1 <= n
        OBVIOUS
      <4>2. RowsOut(t, n, c, h) \in Nat
        BY <4>1, RowsOutNext
      <4>3. RowsOut(t, n, c, h + 1) = RowsOut(t, n, c, h) + (IF c % t = t - 1 THEN 1 ELSE 0)
        BY <4>1, RowsOutNext
      <4> QED BY <1>12, <4>2, <4>3
    <3>3. RowsOut(t, n, c + 1, 0) = RowsOut(t, n, c, n)
      BY RowsOutNext
    <3>4. Emitted' = IF next = -1 THEN RowsOut(t, n, c + 1, 0) ELSE RowsOut(t, n, c, h + 1)
      BY <1>2, <1>5, <2>3 DEF Emitted
    <3>5. next = -1 => h + 1 = n
      BY <1>6
    <3> QED BY <3>1, <3>2, <3>3, <3>4, <3>5
  <2>8. RowsAre'
    BY <1>2, <2>7 DEF RowsAre, RowIs
  <2> QED BY <1>4, <2>4, <2>6, <2>8
<1> QED BY <1>11, <1>12

LEMMA EmitStep ==
  ASSUME IInv, Emit
  PROVE  IInv'
<1> USE DEF IInv
<1>1. /\ emitting /\ outer # <<>> /\ inner = <<>>
      /\ outer' = <<>> /\ emitting' = FALSE /\ inner' = <<AveragedRow>>
      /\ UNCHANGED <<run, clientVars, rowsAdded, fileVars>>
  BY DEF Emit, OuterIs
<1>2. /\ run' = run /\ pc' = pc /\ scan' = scan /\ next' = next
      /\ table' = table /\ N' = N /\ OutputOrder' = OutputOrder /\ OutputBaselines' = OutputBaselines
  BY <1>1, ConstantsSame DEF clientVars, fileVars
<1>3. pc # "setup" /\ pc # "refused" /\ pc # "destroyed"
  BY <1>1 DEF ClientIs, FileIs
<1>4. ClientIs' /\ FileIs' /\ EndIs' /\ SkippedIs'
  BY <1>1, <1>3, ThreadFrame DEF fileVars
<1>5. PICK t \in Nat \ {0}, n \in Nat, c \in Nat : t = run.timeAvg /\ n = N /\ c = HandledScan
  BY <1>1, OuterFacts
<1>6. PICK h \in 0..(n - 1) :
        /\ h = HandledRows
        /\ IF next = -1 THEN scan = c + 1 /\ h = n - 1 ELSE scan = c /\ next = h + 1
        /\ outer[1].baseline = OutputOrder[h + 1] /\ outer[1].scans = <<c>>
  BY <1>1, <1>5, OuterFacts
<1>7. c % t = t - 1
  BY <1>1, <1>5 DEF OuterIs
<1>8. /\ DOMAIN sums' = Baselines
      /\ \A b \in Baselines \ OutputBaselines : sums'[b].scans = <<>>
      /\ \A k \in 1..n : sums'[OutputOrder[k]].scans = IF k = h + 1 THEN <<>> ELSE SumOf(k)
  <2>1. PICK new : new = ZeroBuffer(run)
    OBVIOUS
  <2>2. new.scans = <<>>
    BY <2>1 DEF ZeroBuffer
  <2>3. sums' = [sums EXCEPT ![outer[1].baseline] = new]
    BY <2>1 DEF Emit
  <2>4. sums' = [sums EXCEPT ![outer[1].baseline] = new] =>
          /\ DOMAIN sums' = Baselines
          /\ \A b \in Baselines \ OutputBaselines : sums'[b].scans = <<>>
          /\ \A k \in 1..N : sums'[OutputOrder[k]].scans =
               IF k = HandledRows + 1 THEN new.scans ELSE SumOf(k)
    BY <1>1, <1>2, SumsChanged, Zenon
  <2> QED BY <1>5, <1>6, <2>2, <2>3, <2>4
<1>9. IF next = -1 THEN HandledScan' = c + 1 /\ HandledRows' = 0
      ELSE HandledScan' = c /\ HandledRows' = h + 1
  BY <1>1, <1>2, <1>5, <1>6 DEF HandledScan, HandledRows
<1>10. OuterIs'
  BY <1>1 DEF OuterIs
<1>11. SumsAre'
  <2>1. ASSUME NEW k \in 1..n PROVE sums'[OutputOrder[k]].scans = SumOf(k)'
    <3>1. SumOf(k)' = Since(t, IF k <= h + 1 THEN c + 1 ELSE c)
      BY <1>1, <1>2, <1>5, <1>6, <1>9 DEF SumOf
    <3>2. CASE k = h + 1
      <4>1. Since(t, c + 1) = <<>>
        BY <1>7, SinceNext
      <4> QED BY <1>8, <3>1, <3>2, <4>1
    <3>3. CASE k # h + 1
      <4>1. SumOf(k) = Since(t, IF k <= h THEN c + 1 ELSE c)
        BY <1>1, <1>5, <1>6, <3>3 DEF SumOf
      <4> QED BY <1>8, <3>1, <3>3, <4>1
    <3> QED BY <3>2, <3>3
  <2> QED BY <1>2, <1>5, <1>8, <2>1 DEF SumsAre
<1>12. PICK e \in Nat : e = Emitted /\ e = RowsOut(t, n, c, h)
  <2>1. h \in 0..n
    OBVIOUS
  <2>2. RowsOut(t, n, c, h) \in Nat
    BY <2>1, RowsOutNext
  <2> QED BY <1>5, <1>6, <2>2 DEF Emitted
<1>13. Emitted' = e + 1
  <2>1. h \in 0..n /\ h + 1 <= n
    OBVIOUS
  <2>2. RowsOut(t, n, c, h + 1) = RowsOut(t, n, c, h) + (IF c % t = t - 1 THEN 1 ELSE 0)
    BY <2>1, RowsOutNext
  <2>3. RowsOut(t, n, c + 1, 0) = RowsOut(t, n, c, n)
    BY RowsOutNext
  <2>4. Emitted' = IF next = -1 THEN RowsOut(t, n, c + 1, 0) ELSE RowsOut(t, n, c, h + 1)
    BY <1>2, <1>5, <1>9 DEF Emitted
  <2>5. next = -1 => h + 1 = n
    BY <1>6
  <2> QED BY <1>7, <1>12, <2>2, <2>3, <2>4, <2>5
<1>14. RowIs(AveragedRow, e + 1)
  <2>1. e \div n = c \div t /\ e % n = h
    BY <1>7, <1>12, RowPlace
  <2>2. AveragedRow.baseline = OutputOrder[h + 1]
        /\ AveragedRow.scans = sums[OutputOrder[h + 1]].scans
    BY <1>6 DEF AveragedRow
  <2>3. sums[OutputOrder[h + 1]].scans = SumOf(h + 1)
    BY <1>1, <1>3, <1>5, <1>6, OuterFacts DEF SumsAre
  <2>4. SumOf(h + 1) = GroupOf(t, c \div t)
    BY <1>1, <1>5, <1>6 DEF SumOf
  <2>5. (e + 1) - 1 = e
    OBVIOUS
  <2> QED BY <1>5, <2>1, <2>2, <2>3, <2>4, <2>5 DEF RowIs
<1>15. RowsAre'
  <2>1. PICK row : row = AveragedRow /\ inner' = <<row>> /\ RowIs(row, e + 1)
    BY <1>1, <1>14
  <2>2. Len(inner') = 1 /\ inner'[1] = row /\ Len(inner) = 0
    BY <1>1, <2>1
  <2> QED BY <1>1, <1>2, <1>12, <1>13, <2>1, <2>2 DEF RowsAre, RowIs
<1> QED BY <1>4, <1>10, <1>11, <1>15

LEMMA PutRowStep ==
  ASSUME IInv, PutRow
  PROVE  IInv'
<1> USE DEF IInv
<1>1. /\ inner # <<>> /\ inner' = <<>>
      /\ UNCHANGED <<run, clientVars, outer, emitting, sums, rowsAdded, bandInfo, header, nrow>>
  BY DEF PutRow
<1>2. /\ run' = run /\ pc' = pc /\ scan' = scan /\ next' = next /\ outer' = outer
      /\ sums' = sums /\ emitting' = emitting
      /\ N' = N /\ OutputOrder' = OutputOrder /\ OutputBaselines' = OutputBaselines
  BY <1>1, ConstantsSame DEF clientVars
<1>3. pc # "destroyed"
  BY <1>1 DEF FileIs
<1>4. ClientIs' /\ FileIs' /\ EndIs' /\ SkippedIs'
  <2>1. pc = "setup" \/ pc = "refused" => outer' = <<>>
    BY <1>2 DEF ClientIs
  <2> QED BY <1>1, <1>3, <2>1, ThreadFrame
<1>5. HandledScan' = HandledScan /\ HandledRows' = HandledRows
  BY <1>2 DEF HandledScan, HandledRows
<1>6. OuterIs'
  BY <1>2, <1>5 DEF OuterIs
<1>7. SumsAre'
  <2>1. \A k : SumOf(k)' = SumOf(k)
    BY <1>2, <1>5 DEF SumOf
  <2> QED BY <1>2, <2>1 DEF SumsAre
<1>8. Emitted' = Emitted
  BY <1>2, <1>5 DEF Emitted
<1>9. PICK row : table' = Append(table, row) /\ row.baseline = inner[1].baseline
                 /\ row.scans = inner[1].scans
  BY DEF PutRow, WithCells
<1>10. PICK m \in Nat : m = Len(table) /\ Emitted = m + 1
  BY <1>1 DEF RowsAre
<1>11. RowIs(row, m + 1)
  BY <1>1, <1>9, <1>10 DEF RowsAre, RowIs
<1>12. /\ Len(table') = m + 1 /\ table' = [i \in 1..(m + 1) |-> table'[i]]
       /\ \A i \in 1..m : table'[i] = table[i]
       /\ table'[m + 1] = row
  BY <1>9, <1>10, AppendIs DEF RowsAre
<1>13. ASSUME NEW i \in 1..(m + 1) PROVE RowIs(table'[i], i)
  <2>1. CASE i = m + 1
    BY <1>11, <1>12, <2>1
  <2>2. CASE i \in 1..m
    BY <1>10, <1>12, <2>2 DEF RowsAre
  <2> QED BY <2>1, <2>2
<1>14. RowsAre'
  BY <1>1, <1>2, <1>8, <1>10, <1>12, <1>13 DEF RowsAre, RowIs
<1> QED BY <1>4, <1>6, <1>7, <1>14

-----------------------------------------------------------------------------
(* The steps of Cotter's thread.                                             *)

(* The groups that the scans of the observation are in.                      *)
LEMMA NGroupsIs ==
  ASSUME run \in Runs
  PROVE  /\ NGroups \in Nat /\ NGroups * run.timeAvg \in Nat
         /\ run.nScans <= NGroups * run.timeAvg
         /\ NGroups * run.timeAvg < run.nScans + run.timeAvg
         /\ run.nScans % run.timeAvg = 0 => NGroups * run.timeAvg = run.nScans
<1>1. PICK t \in Nat \ {0}, m \in Nat \ {0} : t = run.timeAvg /\ m = run.nScans
  BY RunFacts
<1>2. m + t - 1 \in Nat
  OBVIOUS
<1>3. PICK g \in Nat, r \in 0..(t - 1) :
        (m + t - 1) \div t = g /\ (m + t - 1) % t = r /\ m + t - 1 = g * t + r
  BY <1>2, Division
<1>4. PICK p \in Nat : p = g * t
  OBVIOUS
<1>5. m <= p /\ p < m + t
  BY <1>3, <1>4
<1>6. ASSUME m % t = 0 PROVE p = m
  <2>1. PICK q \in Nat : m = q * t + 0 /\ 0 \in 0..(t - 1)
    BY <1>6, Division
  <2>2. m + t - 1 = q * t + (t - 1) /\ t - 1 \in 0..(t - 1)
    BY <2>1
  <2>3. (m + t - 1) \div t = q
    BY <2>2, DivisionOf
  <2> QED BY <1>3, <1>4, <2>1, <2>3
<1>7. NGroups = g
  BY <1>1, <1>3 DEF NGroups
<1> QED BY <1>1, <1>4, <1>5, <1>6, <1>7

LEMMA ClientFacts ==
  ASSUME ClientIs
  PROVE  /\ run.timeAvg \in Nat \ {0} /\ run.nScans \in Nat \ {0} /\ N \in Nat
         /\ scan \in Nat /\ next \in -1..N /\ Begun \in Nat
BY RunFacts, OrderIs DEF ClientIs, Begun

LEMMA SamePosition ==
  ASSUME OuterIs, SumsAre, RowsAre, pc # "setup", pc' # "setup",
         UNCHANGED <<run, outer, emitting, sums, inner, table>>,
         HandledScan' = HandledScan, HandledRows' = HandledRows
  PROVE  OuterIs' /\ SumsAre' /\ RowsAre' /\ Emitted' = Emitted
<1>1. N' = N /\ OutputOrder' = OutputOrder /\ OutputBaselines' = OutputBaselines
  BY ConstantsSame
<1>2. OuterIs'
  BY <1>1 DEF OuterIs
<1>3. SumsAre'
  <2>1. \A k : SumOf(k)' = SumOf(k)
    BY DEF SumOf
  <2> QED BY <1>1, <2>1 DEF SumsAre
<1>4. Emitted' = Emitted
  BY <1>1 DEF Emitted
<1>5. RowsAre'
  BY <1>1, <1>4 DEF RowsAre, RowIs
<1> QED BY <1>2, <1>3, <1>4, <1>5

LEMMA SetUpStep ==
  ASSUME IInv, SetUp
  PROVE  IInv'
<1> USE DEF IInv
<1>1. /\ pc = "setup" /\ scan = 0 /\ next = -1 /\ outer = <<>> /\ ~emitting
      /\ run' = run /\ scan' = scan /\ next' = next /\ outer' = outer /\ emitting' = emitting
      /\ rowsAdded' = rowsAdded /\ inner' = inner /\ header' = header /\ nrow' = nrow /\ table' = table
      /\ bandInfo' = <<SinkBandInfo(run)>>
      /\ pc' \in {"refused", "ask", "rows"}
      /\ pc' = "ask" => run.skipWriting
      /\ pc' = "rows" => ~run.skipWriting
  BY DEF SetUp, ClientIs, OuterIs
<1>2. N' = N /\ NGroups' = NGroups /\ OutputOrder' = OutputOrder /\ OutputBaselines' = OutputBaselines
  BY <1>1, ConstantsSame
<1>3. PICK t \in Nat \ {0} : t = run.timeAvg
  BY ClientFacts
<1>4. HandledScan' = HandledScan /\ HandledRows' = HandledRows /\ HandledScan' = 0 /\ HandledRows' = 0
      /\ Begun' = Begun /\ Begun' = 0
  BY <1>1 DEF HandledScan, HandledRows, Begun
<1>5. ClientIs'
  BY <1>1, <1>2 DEF ClientIs
<1>6. OuterIs'
  BY <1>1 DEF OuterIs
<1>7. SumsAre'
  <2> SUFFICES ASSUME Averaging(run)
               PROVE  /\ DOMAIN sums' = Baselines
                      /\ \A b \in Baselines \ OutputBaselines : sums'[b].scans = <<>>
                      /\ \A k \in 1..N : sums'[OutputOrder[k]].scans = SumOf(k)'
    BY <1>1, <1>2 DEF SumsAre
  <2>1. sums' = [b \in Baselines |-> ZeroBuffer(run)]
    BY DEF SetUp
  <2>2. ZeroBuffer(run).scans = <<>>
    BY DEF ZeroBuffer
  <2>3. \A b \in Baselines : sums'[b].scans = <<>>
    BY <2>1, <2>2
  <2>4. Since(t, 0) = <<>>
    <3>1. 0 % t = 0
      OBVIOUS
    <3> QED BY <3>1, SinceIs
  <2>5. ASSUME NEW k \in 1..N PROVE sums'[OutputOrder[k]].scans = SumOf(k)'
    <3>1. SumOf(k)' = Since(t, 0)
      BY <1>1, <1>3, <1>4, OrderIs DEF SumOf
    <3>2. OutputOrder[k] \in Baselines
      BY OrderIs DEF OutputBaselines
    <3> QED BY <2>3, <2>4, <3>1, <3>2
  <2> QED BY <2>1, <2>3, <2>5
<1>8. Emitted' = Emitted
  BY <1>1, <1>2, <1>4 DEF Emitted
<1>9. RowsAre'
  BY <1>1, <1>2, <1>8 DEF RowsAre, RowIs
<1>10. FileIs'
  BY <1>1, <1>2, <1>4 DEF FileIs
<1>11. EndIs'
  <2>1. 0 < NGroups * run.timeAvg
    BY ClientFacts, NGroupsIs DEF ClientIs
  <2> QED BY <1>1, <1>2, <2>1 DEF EndIs
<1>12. SkippedIs'
  BY <1>1 DEF SkippedIs
<1> QED BY <1>5, <1>6, <1>7, <1>9, <1>10, <1>11, <1>12

LEMMA AddRowsStep ==
  ASSUME IInv, AddRows
  PROVE  IInv'
<1> USE DEF IInv
<1>1. /\ pc = "rows" /\ next = -1 /\ outer = <<>> /\ next' = 0
      /\ rowsAdded' = (rowsAdded + 1) % run.timeAvg
      /\ UNCHANGED <<run, pc, scan, outer, emitting, sums, inner, bandInfo, table>>
  BY DEF AddRows
<1>2. N' = N /\ NGroups' = NGroups /\ OutputBaselines' = OutputBaselines
  BY <1>1, ConstantsSame
<1>3. PICK t \in Nat \ {0}, n \in Nat, c \in Nat : t = run.timeAvg /\ n = N /\ c = scan
  BY ClientFacts
<1>4. HandledScan' = HandledScan /\ HandledRows' = HandledRows /\ Begun = c /\ Begun' = c + 1
  BY <1>1, <1>3 DEF HandledScan, HandledRows, Begun
<1>5. ClientIs'
  BY <1>1, <1>2, <1>3 DEF ClientIs
<1>6. OuterIs' /\ SumsAre' /\ RowsAre'
  BY <1>1, <1>4, SamePosition
<1>7. PICK r \in 0..(t - 1) : r = c % t /\ rowsAdded = r
  <2>1. c % t \in 0..(t - 1)
    OBVIOUS
  <2> QED BY <1>3, <1>4, <2>1 DEF FileIs
<1>8. rowsAdded' = (c + 1) % t
  <2>1. (r + 1) % t = IF r = t - 1 THEN 0 ELSE r + 1
    <3>1. r % t = r
      OBVIOUS
    <3>2. r \in Nat
      OBVIOUS
    <3> QED BY <3>1, <3>2, NextQuotient
  <2>2. (c + 1) % t = IF r = t - 1 THEN 0 ELSE r + 1
    BY <1>7, NextQuotient
  <2> QED BY <1>1, <1>3, <1>7, <2>1, <2>2
<1>9. PICK g \in Nat : /\ g = Groups(t, c) /\ Groups(t, c + 1) = g + (IF r = 0 THEN 1 ELSE 0)
                       /\ c = 0 => g = 0 /\ r = 0
  <2>1. 0 % t = 0
    OBVIOUS
  <2> QED BY <1>7, <2>1, GroupsNext
<1>10. Len(header') = 1 /\ nrow' = IF run.output = "ms" THEN Groups(t, c + 1) * n ELSE InitialGroups
  <2>1. /\ IF c = 0 THEN header = <<>> ELSE Len(header) = 1
        /\ nrow = IF c = 0 THEN 0 ELSE IF run.output = "ms" THEN g * n ELSE InitialGroups
        /\ Len(bandInfo) = 1
    BY <1>1, <1>3, <1>4, <1>9 DEF FileIs
  <2>2. CASE r = 0
    <3>1. FileAddRows
      BY <1>7, <2>2 DEF AddRows
    <3>2. Len(header') = 1
      BY <2>1, <3>1 DEF FileAddRows, Initialized
    <3>3. header = <<>> <=> c = 0
      BY <2>1
    <3>4. RowsPerTimescan = n
      BY <1>3, RowsPerTimescanIs DEF ClientIs
    <3>5. (g + 1) * n = g * n + n /\ 0 * n = 0 /\ g * n \in Nat
      OBVIOUS
    <3>6. CASE run.output = "ms"
      <4>1. nrow' = nrow + n
        BY <3>1, <3>4, <3>6 DEF FileAddRows
      <4>2. nrow = g * n
        BY <1>9, <2>1, <3>5, <3>6
      <4> QED BY <1>9, <2>2, <3>2, <3>5, <3>6, <4>1, <4>2
    <3>7. CASE run.output = "fits"
      <4>1. nrow' = InitialGroups
        BY <2>1, <3>1, <3>3, <3>7 DEF FileAddRows
      <4> QED BY <3>2, <3>7, <4>1
    <3> QED BY <3>6, <3>7, RunFacts DEF ClientIs
  <2>3. CASE r # 0
    <3>1. header' = header /\ nrow' = nrow
      BY <1>7, <2>3 DEF AddRows
    <3> QED BY <1>9, <2>1, <2>3, <3>1
  <2> QED BY <2>2, <2>3
<1>11. FileIs'
  BY <1>1, <1>2, <1>3, <1>4, <1>8, <1>10 DEF FileIs, InitialGroups
<1>12. EndIs'
  BY <1>1, <1>2 DEF EndIs, FirstNotAlone, FirstOrMultiple
<1>13. SkippedIs'
  BY <1>1 DEF SkippedIs
<1> QED BY <1>5, <1>6, <1>11, <1>12, <1>13

LEMMA WriteRowStep ==
  ASSUME IInv, WriteRow
  PROVE  IInv'
<1> USE DEF IInv
<1>1. /\ pc = "rows" /\ next \in 0..(N - 1) /\ next' = next + 1
      /\ UNCHANGED <<run, pc, scan, emitting, sums, rowsAdded, fileVars>>
  BY DEF WriteRow, N
<1>2. /\ run' = run /\ pc' = pc /\ scan' = scan /\ emitting' = emitting /\ sums' = sums
      /\ rowsAdded' = rowsAdded /\ bandInfo' = bandInfo /\ header' = header /\ nrow' = nrow
      /\ table' = table
      /\ N' = N /\ NGroups' = NGroups /\ OutputOrder' = OutputOrder /\ OutputBaselines' = OutputBaselines
  BY <1>1, ConstantsSame DEF fileVars
<1>3. PICK t \in Nat \ {0}, n \in Nat, c \in Nat : t = run.timeAvg /\ n = N /\ c = scan
  BY ClientFacts
<1>4. PICK h \in 0..(n - 1) : h = next /\ h # -1 /\ next' = h + 1 /\ next' # -1
  BY <1>1, <1>3
<1>5. Begun' = Begun
  BY <1>2, <1>4 DEF Begun
<1>6. ClientIs'
  BY <1>1, <1>2, <1>3, <1>4 DEF ClientIs
<1>7. FileIs'
  BY <1>1, <1>2, <1>5 DEF FileIs
<1>8. EndIs' /\ SkippedIs'
  BY <1>1, <1>2 DEF EndIs, SkippedIs, FirstNotAlone, FirstOrMultiple
<1>9. PICK b : b = OutputOrder[h + 1] /\ CotterRow.baseline = b /\ CotterRow.scans = <<c>>
  BY <1>3, <1>4 DEF CotterRow
<1>10. CASE Averaging(run)
  <2>1. outer = <<>> /\ outer' = <<CotterRow>> /\ inner' = inner
    BY <1>10 DEF WriteRow
  <2>2. /\ HandledScan' = c /\ HandledRows' = h
        /\ HandledScan = c /\ HandledRows = h
    BY <1>2, <1>3, <1>4, <2>1 DEF HandledScan, HandledRows
  <2>3. PICK row : outer' = <<row>> /\ row.baseline = b /\ row.scans = <<c>>
    BY <1>9, <2>1
  <2>4. ~emitting
    BY <2>1 DEF OuterIs
  <2>5. OuterIs'
    BY <1>2, <1>3, <1>4, <1>9, <1>10, <2>2, <2>3, <2>4 DEF OuterIs, Averaging
  <2>6. \A k : SumOf(k)' = SumOf(k)
    BY <1>2, <2>2 DEF SumOf
  <2>7. SumsAre'
    BY <1>2, <2>6 DEF SumsAre
  <2>8. Emitted' = Emitted
    BY <1>2, <2>2 DEF Emitted
  <2>9. RowsAre'
    BY <1>2, <2>1, <2>8 DEF RowsAre, RowIs
  <2> QED BY <1>6, <1>7, <1>8, <2>5, <2>7, <2>9
<1>11. CASE ~Averaging(run)
  <2>1. inner = <<>> /\ outer' = outer
        /\ inner' = <<WithCells(CotterRow, AfterAveraging(run, CotterRow.baseline, CotterRow.cells))>>
    BY <1>11 DEF WriteRow
  <2>2. outer = <<>> /\ ~emitting
    BY <1>11 DEF OuterIs
  <2>3. t = 1
    BY <1>3, <1>11 DEF Averaging
  <2>4. HandledScan' = c /\ HandledRows' = h + 1 /\ HandledScan = c /\ HandledRows = h
    BY <1>2, <1>3, <1>4, <2>1, <2>2 DEF HandledScan, HandledRows
  <2>5. OuterIs'
    BY <1>2, <2>1, <2>2 DEF OuterIs
  <2>6. SumsAre'
    BY <1>2, <1>11 DEF SumsAre, Averaging
  <2>7. c % t = t - 1
    BY <2>3
  <2>8. PICK e \in Nat : e = Emitted /\ e = RowsOut(t, n, c, h) /\ Emitted' = e + 1
    <3>1. h \in 0..n /\ h + 1 <= n
      OBVIOUS
    <3>2. RowsOut(t, n, c, h) \in Nat
      BY <3>1, RowsOutNext
    <3>3. RowsOut(t, n, c, h + 1) = RowsOut(t, n, c, h) + (IF c % t = t - 1 THEN 1 ELSE 0)
      BY <3>1, RowsOutNext
    <3>4. Emitted = RowsOut(t, n, c, h) /\ Emitted' = RowsOut(t, n, c, h + 1)
      BY <1>2, <1>3, <2>4 DEF Emitted
    <3> QED BY <2>7, <3>2, <3>3, <3>4
  <2>9. PICK row : inner' = <<row>> /\ row.baseline = b /\ row.scans = <<c>>
    <3>1. PICK cells : inner' = <<WithCells(CotterRow, cells)>>
      BY <2>1, Zenon
    <3>2. PICK row : row = WithCells(CotterRow, cells)
      OBVIOUS
    <3>3. row.baseline = CotterRow.baseline /\ row.scans = CotterRow.scans
      BY <3>2 DEF WithCells
    <3> QED BY <1>9, <3>1, <3>2, <3>3
  <2>10. RowIs(row, e + 1)
    <3>1. e \div n = c \div t /\ e % n = h
      <4>1. RowsOut(t, n, c, h) \div n = c \div t /\ RowsOut(t, n, c, h) % n = h
        BY <2>7, RowPlace
      <4> QED BY <2>8, <4>1
    <3>2. GroupOf(t, c \div t) = <<c>>
      <4>1. GroupOf(t, c \div t) = [i \in 1..1 |-> c + i - 1]
        <5>1. c \div 1 = c /\ c * 1 = c
          OBVIOUS
        <5>2. GroupOf(t, c \div t) = GroupOf(1, c)
          BY <2>3, <5>1
        <5>3. GroupOf(1, c) = [i \in 1..1 |-> c * 1 + i - 1]
          BY DEF GroupOf
        <5> QED BY <5>1, <5>2, <5>3
      <4> QED BY <4>1
    <3>3. (e + 1) - 1 = e
      OBVIOUS
    <3> QED BY <1>3, <1>9, <2>9, <3>1, <3>2, <3>3 DEF RowIs
  <2>11. Len(inner') = 1 /\ inner'[1] = row /\ Len(inner) = 0
    BY <2>1, <2>9
  <2>12. RowsAre'
    BY <1>2, <2>1, <2>8, <2>9, <2>10, <2>11 DEF RowsAre, RowIs
  <2> QED BY <1>6, <1>7, <1>8, <2>5, <2>6, <2>12
<1> QED BY <1>10, <1>11

LEMMA ScanWrittenStep ==
  ASSUME IInv, ScanWritten
  PROVE  IInv'
<1> USE DEF IInv
<1>1. /\ pc = "rows" /\ next = N /\ scan' = scan + 1 /\ next' = -1
      /\ pc' = IF scan + 1 < run.nScans THEN "rows" ELSE "ask"
      /\ UNCHANGED <<run, outer, emitting, sums, rowsAdded, inner, fileVars>>
  BY DEF ScanWritten, N
<1>2. /\ run' = run /\ outer' = outer /\ emitting' = emitting /\ sums' = sums
      /\ rowsAdded' = rowsAdded /\ inner' = inner /\ bandInfo' = bandInfo
      /\ header' = header /\ nrow' = nrow /\ table' = table
      /\ N' = N /\ NGroups' = NGroups /\ OutputOrder' = OutputOrder /\ OutputBaselines' = OutputBaselines
  BY <1>1, ConstantsSame DEF fileVars
<1>3. PICK t \in Nat \ {0}, n \in Nat, c \in Nat, m \in Nat \ {0} :
        t = run.timeAvg /\ n = N /\ c = scan /\ m = run.nScans
  BY ClientFacts
<1>4. pc' \in {"rows", "ask"} /\ scan' = c + 1 /\ next = n
  BY <1>1, <1>3
<1>5. Begun' = Begun /\ Begun = c + 1
  BY <1>1, <1>3 DEF Begun
<1>6. ClientIs'
  BY <1>1, <1>2, <1>3, <1>4 DEF ClientIs
<1>7. FileIs'
  BY <1>1, <1>2, <1>4, <1>5 DEF FileIs
<1>8. SkippedIs'
  BY <1>1, <1>2 DEF SkippedIs
<1>9. EndIs'
  <2> SUFFICES ASSUME FirstNotAlone, FirstOrMultiple, ~run.skipWriting
               PROVE  /\ pc' = "rows" => scan' < NGroups * run.timeAvg
                      /\ pc' = "ask" => scan' \in run.nScans..(NGroups * run.timeAvg)
    BY <1>1, <1>2, <1>4 DEF EndIs, FirstNotAlone, FirstOrMultiple
  <2>1. PICK p \in Nat : p = NGroups * run.timeAvg /\ m <= p
    BY <1>3, NGroupsIs DEF ClientIs
  <2>2. c < p
    BY <1>1, <1>3, <2>1 DEF EndIs
  <2> QED BY <1>1, <1>3, <1>4, <2>1, <2>2
<1>10. CASE outer # <<>>
  <2>1. HandledScan' = HandledScan /\ HandledRows' = HandledRows
    BY <1>1, <1>2, <1>3, <1>10 DEF HandledScan, HandledRows
  <2>2. OuterIs' /\ SumsAre' /\ RowsAre'
    BY <1>1, <1>2, <1>4, <2>1, SamePosition
  <2> QED BY <1>6, <1>7, <1>8, <1>9, <2>2
<1>11. CASE outer = <<>>
  <2>1. HandledScan = c /\ HandledRows = n /\ HandledScan' = c + 1 /\ HandledRows' = 0
    BY <1>1, <1>2, <1>3, <1>11 DEF HandledScan, HandledRows
  <2>2. OuterIs'
    BY <1>2, <1>11 DEF OuterIs
  <2>3. ~emitting
    BY <1>11 DEF OuterIs
  <2>4. ASSUME NEW k \in 1..n PROVE SumOf(k)' = SumOf(k)
    BY <1>2, <1>3, <2>1, <2>3 DEF SumOf
  <2>5. SumsAre'
    BY <1>1, <1>2, <1>3, <2>4 DEF SumsAre
  <2>6. Emitted' = Emitted
    <3>1. RowsOut(t, n, c + 1, 0) = RowsOut(t, n, c, n)
      BY RowsOutNext
    <3> QED BY <1>2, <1>3, <2>1, <3>1 DEF Emitted
  <2>7. RowsAre'
    BY <1>2, <2>6 DEF RowsAre, RowIs
  <2> QED BY <1>6, <1>7, <1>8, <1>9, <2>2, <2>5, <2>7
<1> QED BY <1>10, <1>11

LEMMA Alone ==
  ASSUME ClientIs, FirstNotAlone, <<0, 0>> \in OutputBaselines
  PROVE  N >= 2 /\ OutputOrder[1] = <<0, 0>> /\ OutputOrder[N] # <<0, 0>>
<1>1. PICK n \in Nat : n = N
  BY OrderIs
<1>2. n >= 1 /\ OutputOrder[1] = <<0, 0>>
  BY <1>1, OrderIs
<1>3. n # 1
  <2> SUFFICES ASSUME n = 1 PROVE FALSE
    OBVIOUS
  <2>1. \A b \in OutputBaselines : \E k \in 1..n : OutputOrder[k] = b
    BY <1>1, OrderIs
  <2>2. ASSUME NEW b \in OutputBaselines PROVE b = <<0, 0>>
    <3>1. PICK k \in 1..n : OutputOrder[k] = b
      BY <2>1
    <3>2. k = 1
      OBVIOUS
    <3> QED BY <1>2, <3>1, <3>2
  <2>3. OutputBaselines = {<<0, 0>>}
    BY <2>2
  <2> QED BY <2>3 DEF FirstNotAlone
<1>4. OutputOrder[n] # <<0, 0>>
  <2>1. 1 \in 1..n /\ n \in 1..n
    BY <1>2
  <2>2. OutputOrder[n] = OutputOrder[1] => n = 1
    BY <1>1, <2>1, OrderIs
  <2> QED BY <1>2, <1>3, <2>2
<1> QED BY <1>1, <1>2, <1>3, <1>4

(* What the answer of IsTimeAligned says when Cotter asks for it.            *)
LEMMA AnswerIs ==
  ASSUME IInv, pc = "ask", outer = <<>> \/ FirstNotAlone
  PROVE  IsTimeAligned(<<0, 0>>) <=>
           (scan % run.timeAvg = 0 \/ <<0, 0>> \notin OutputBaselines)
<1> USE DEF IInv
<1>1. PICK t \in Nat \ {0}, n \in Nat, c \in Nat : t = run.timeAvg /\ n = N /\ c = scan
  BY ClientFacts
<1>2. pc # "setup" /\ next = -1
  BY DEF ClientIs
<1>3. CASE ~Averaging(run)
  <2>1. c % t = 0
    <3>1. t = 1
      BY <1>1, <1>3 DEF Averaging
    <3> QED BY <3>1
  <2> QED BY <1>1, <1>3, <2>1 DEF IsTimeAligned
<1>4. CASE Averaging(run) /\ <<0, 0>> \notin OutputBaselines
  <2>1. <<0, 0>> \in Baselines
    <3>1. 0 \in Antennae
      BY RunFacts DEF Antennae, ClientIs
    <3> QED BY <3>1 DEF Baselines
  <2> QED BY <1>2, <1>4, <2>1 DEF IsTimeAligned, SumsAre
<1>5. CASE Averaging(run) /\ <<0, 0>> \in OutputBaselines
  <2>1. n >= 1 /\ OutputOrder[1] = <<0, 0>>
    BY <1>1, <1>5, OrderIs
  <2>2. 1 \in 1..n
    BY <2>1
  <2>3. sums[<<0, 0>>].scans = SumOf(1)
    BY <1>1, <1>2, <1>5, <2>1, <2>2 DEF SumsAre
  <2>4. SumOf(1) = Since(t, c)
    <3>1. CASE outer = <<>>
      <4>1. HandledScan = c /\ HandledRows = 0 /\ ~emitting
        BY <1>1, <1>2, <3>1 DEF HandledScan, HandledRows, OuterIs
      <4> QED BY <1>1, <4>1 DEF SumOf
    <3>2. CASE outer # <<>>
      <4>1. HandledScan + 1 = c /\ HandledRows = n - 1
        BY <1>1, <1>2, <3>2, OuterFacts
      <4>2. n >= 2
        BY <1>1, <1>5, <3>2, Alone
      <4> QED BY <1>1, <4>1, <4>2 DEF SumOf
    <3> QED BY <3>1, <3>2
  <2>5. Since(t, c) = <<>> <=> c % t = 0
    BY SinceIs
  <2> QED BY <1>1, <1>5, <2>3, <2>4, <2>5 DEF IsTimeAligned
<1> QED BY <1>3, <1>4, <1>5

LEMMA AskingStep ==
  ASSUME IInv, pc = "ask", pc' \in {"rows", "closing"},
         pc' = "rows" => ~IsTimeAligned(<<0, 0>>),
         pc' = "closing" => IsTimeAligned(<<0, 0>>),
         UNCHANGED <<run, scan, next, outer, emitting, sums, rowsAdded, inner, fileVars>>
  PROVE  IInv'
<1> USE DEF IInv
<1>1. /\ run' = run /\ scan' = scan /\ next' = next /\ outer' = outer
      /\ emitting' = emitting /\ sums' = sums
      /\ rowsAdded' = rowsAdded /\ inner' = inner /\ bandInfo' = bandInfo
      /\ header' = header /\ nrow' = nrow /\ table' = table
      /\ N' = N /\ NGroups' = NGroups /\ OutputBaselines' = OutputBaselines
  BY ConstantsSame DEF fileVars
<1>2. HandledScan' = HandledScan /\ HandledRows' = HandledRows /\ Begun' = Begun
  BY <1>1 DEF HandledScan, HandledRows, Begun
<1>3. ClientIs'
  BY <1>1 DEF ClientIs
<1>4. OuterIs' /\ SumsAre' /\ RowsAre'
  BY <1>1, <1>2, SamePosition
<1>5. FileIs'
  BY <1>1, <1>2 DEF FileIs
<1>6. EndIs'
  <2> SUFFICES ASSUME FirstNotAlone, FirstOrMultiple, ~run.skipWriting
               PROVE  /\ pc' = "rows" => scan < NGroups * run.timeAvg
                      /\ pc' = "closing" => scan \in run.nScans..(NGroups * run.timeAvg)
                                            /\ scan % run.timeAvg = 0
    BY <1>1 DEF EndIs, FirstNotAlone, FirstOrMultiple
  <2>1. PICK t \in Nat \ {0}, c \in Nat, m \in Nat \ {0} :
          t = run.timeAvg /\ c = scan /\ m = run.nScans
    BY ClientFacts
  <2>2. PICK g \in Nat, p \in Nat : g = NGroups /\ p = g * t /\ (m % t = 0 => p = m)
    BY <2>1, NGroupsIs DEF ClientIs
  <2>3. c \in m..p
    BY <2>1, <2>2 DEF EndIs
  <2>4. IsTimeAligned(<<0, 0>>) <=> (c % t = 0 \/ <<0, 0>> \notin OutputBaselines)
    BY <2>1, AnswerIs
  <2>5. p % t = 0
    <3>1. (g * t + 0) % t = 0
      <4>1. 0 \in 0..(t - 1)
        OBVIOUS
      <4> QED BY <4>1, DivisionOf
    <3>2. g * t + 0 = g * t /\ p = g * t
      BY <2>2
    <3> QED BY <3>1, <3>2
  <2>6. <<0, 0>> \notin OutputBaselines => p = m /\ c = p
    BY <2>1, <2>2, <2>3 DEF FirstOrMultiple
  <2>7. CASE pc' = "rows"
    <3>1. c # p
      BY <2>4, <2>5, <2>7
    <3> QED BY <2>1, <2>2, <2>3, <2>7, <3>1
  <2>8. CASE pc' = "closing"
    <3>1. c % t = 0
      BY <2>4, <2>5, <2>6, <2>8
    <3> QED BY <2>1, <2>2, <2>3, <2>8, <3>1
  <2> QED BY <2>7, <2>8
<1>7. SkippedIs'
  <2>1. ASSUME run.skipWriting PROVE pc' # "rows"
    <3>1. scan = 0 /\ next = -1
      BY <2>1 DEF SkippedIs, ClientIs
    <3>2. outer = <<>>
      BY <3>1, OuterFacts
    <3>3. scan % run.timeAvg = 0
      <4>1. PICK t \in Nat \ {0} : t = run.timeAvg
        BY ClientFacts
      <4>2. 0 % t = 0
        OBVIOUS
      <4> QED BY <3>1, <4>1, <4>2
    <3>4. IsTimeAligned(<<0, 0>>)
      BY <3>2, <3>3, AnswerIs
    <3> QED BY <3>4
  <2> QED BY <1>1, <2>1 DEF SkippedIs
<1> QED BY <1>3, <1>4, <1>5, <1>6, <1>7

LEMMA DestroyStep ==
  ASSUME IInv, Destroy
  PROVE  IInv'
<1> USE DEF IInv
<1>1. /\ pc = "closing" /\ pc' = "destroyed" /\ outer = <<>> /\ inner = <<>>
      /\ UNCHANGED <<run, scan, next, outer, emitting, sums, rowsAdded, inner, bandInfo, table>>
      /\ header' = IF run.output = "ms" /\ header = <<>> THEN bandInfo ELSE header
      /\ nrow' = IF run.output = "fits" THEN Len(table) ELSE nrow
  BY DEF Destroy, FileClosed, Initialized
<1>2. N' = N /\ NGroups' = NGroups /\ OutputBaselines' = OutputBaselines
  BY <1>1, ConstantsSame
<1>3. next = -1 /\ scan \in Nat
  BY <1>1 DEF ClientIs
<1>4. HandledScan' = HandledScan /\ HandledRows' = HandledRows /\ Begun' = Begun /\ Begun = scan
  BY <1>1, <1>3 DEF HandledScan, HandledRows, Begun
<1>5. ClientIs'
  BY <1>1, <1>2 DEF ClientIs
<1>6. OuterIs' /\ SumsAre' /\ RowsAre'
  BY <1>1, <1>4, SamePosition
<1>7. FileIs'
  <2>1. PICK t \in Nat \ {0}, n \in Nat : t = run.timeAvg /\ n = N
    BY ClientFacts
  <2>2. Groups(t, 0) = 0 /\ 0 * n = 0
    BY GroupsNext
  <2>3. run.output \in {"ms", "fits"}
    BY RunFacts DEF ClientIs
  <2>4. /\ rowsAdded = Begun % t /\ Len(bandInfo) = 1
        /\ IF scan = 0 THEN header = <<>> ELSE Len(header) = 1
        /\ nrow = IF scan = 0 THEN 0 ELSE IF run.output = "ms" THEN Groups(t, scan) * n ELSE InitialGroups
    BY <1>1, <1>4, <2>1 DEF FileIs
  <2>5. run.output = "ms" => nrow' = Groups(t, scan) * n
    BY <1>1, <2>2, <2>4
  <2>6. IF scan = 0 /\ run.output = "fits" THEN header' = <<>> ELSE Len(header') = 1
    BY <1>1, <2>3, <2>4
  <2> QED BY <1>1, <1>2, <1>4, <2>1, <2>3, <2>4, <2>5, <2>6 DEF FileIs
<1>8. EndIs'
  BY <1>1, <1>2 DEF EndIs, FirstNotAlone, FirstOrMultiple
<1>9. SkippedIs'
  BY <1>1 DEF SkippedIs
<1> QED BY <1>5, <1>6, <1>7, <1>8, <1>9

LEMMA StutterStep ==
  ASSUME IInv, UNCHANGED vars
  PROVE  IInv'
<1>1. /\ UNCHANGED <<run, pc, scan, next, outer, emitting, sums, rowsAdded, inner>>
      /\ UNCHANGED <<bandInfo, header, nrow, table>>
  BY DEF vars, clientVars, fileVars
<1>2. N' = N /\ NGroups' = NGroups /\ OutputOrder' = OutputOrder /\ OutputBaselines' = OutputBaselines
  BY <1>1, ConstantsSame
<1>3. HandledScan' = HandledScan /\ HandledRows' = HandledRows /\ Begun' = Begun
  BY <1>1, <1>2 DEF HandledScan, HandledRows, Begun
<1>4. Emitted' = Emitted
  BY <1>1, <1>2, <1>3 DEF Emitted
<1>5. \A k : SumOf(k)' = SumOf(k)
  BY <1>1, <1>3 DEF SumOf
<1>6. ClientIs' /\ OuterIs'
  BY <1>1, <1>2, <1>3 DEF IInv, ClientIs, OuterIs
<1>7. SumsAre'
  BY <1>1, <1>2, <1>5 DEF IInv, SumsAre
<1>8. RowsAre'
  BY <1>1, <1>2, <1>4 DEF IInv, RowsAre, RowIs
<1>9. FileIs'
  BY <1>1, <1>2, <1>3 DEF IInv, FileIs
<1>10. EndIs' /\ SkippedIs'
  BY <1>1, <1>2 DEF IInv, EndIs, SkippedIs, FirstNotAlone, FirstOrMultiple
<1> QED BY <1>6, <1>7, <1>8, <1>9, <1>10 DEF IInv

LEMMA Starts ==
  ASSUME Init
  PROVE  IInv
<1>1. /\ run \in Runs /\ pc = "setup" /\ scan = 0 /\ next = -1
      /\ outer = <<>> /\ emitting = FALSE /\ inner = <<>> /\ rowsAdded = 0
      /\ bandInfo = <<>> /\ header = <<>> /\ nrow = 0 /\ table = <<>>
  BY DEF Init
<1>2. PICK t \in Nat \ {0}, n \in Nat : t = run.timeAvg /\ n = N
  BY <1>1, RunFacts, OrderIs
<1>3. HandledScan = 0 /\ HandledRows = 0 /\ Begun = 0
  BY <1>1 DEF HandledScan, HandledRows, Begun
<1>4. Emitted = 0
  BY <1>2, <1>3, RowsOutNext DEF Emitted
<1>5. ClientIs /\ OuterIs /\ SumsAre /\ EndIs /\ SkippedIs
  <2>1. ClientIs
    BY <1>1, <1>2 DEF ClientIs
  <2>2. OuterIs
    BY <1>1 DEF OuterIs
  <2>3. SumsAre
    BY <1>1 DEF SumsAre
  <2>4. EndIs
    BY <1>1 DEF EndIs
  <2>5. SkippedIs
    BY <1>1 DEF SkippedIs
  <2> QED BY <2>1, <2>2, <2>3, <2>4, <2>5
<1>6. RowsAre
  <2>1. Len(table) = 0 /\ Len(inner) = 0
    BY <1>1
  <2>2. table = [i \in 1..Len(table) |-> table[i]]
    <3>1. 1..0 = {}
      OBVIOUS
    <3> QED BY <1>1, <2>1, <3>1
  <2> QED BY <1>1, <1>4, <2>1, <2>2 DEF RowsAre
<1>7. FileIs
  <2>1. 0 % t = 0
    OBVIOUS
  <2> QED BY <1>1, <1>2, <1>3, <2>1 DEF FileIs
<1> QED BY <1>5, <1>6, <1>7 DEF IInv

LEMMA Steps ==
  ASSUME IInv, [Next]_vars
  PROVE  IInv'
<1>1. CASE SetUp
  BY <1>1, SetUpStep
<1>2. CASE AddRows
  BY <1>2, AddRowsStep
<1>3. CASE WriteRow
  BY <1>3, WriteRowStep
<1>4. CASE ScanWritten
  BY <1>4, ScanWrittenStep
<1>5. CASE WriteAlignmentScan
  <2>1. /\ pc = "ask" /\ pc' = "rows" /\ ~IsTimeAligned(<<0, 0>>)
        /\ UNCHANGED <<run, scan, next, outer, emitting, sums, rowsAdded, inner, fileVars>>
    BY <1>5 DEF WriteAlignmentScan
  <2> QED BY <2>1, AskingStep
<1>6. CASE Aligned
  <2>1. /\ pc = "ask" /\ pc' = "closing" /\ IsTimeAligned(<<0, 0>>)
        /\ UNCHANGED <<run, scan, next, outer, emitting, sums, rowsAdded, inner, fileVars>>
    BY <1>6 DEF Aligned
  <2> QED BY <2>1, AskingStep
<1>7. CASE Destroy
  BY <1>7, DestroyStep
<1>8. CASE Accumulate
  BY <1>8, AccumulateStep
<1>9. CASE Emit
  BY <1>9, EmitStep
<1>10. CASE PutRow
  BY <1>10, PutRowStep
<1>11. CASE UNCHANGED vars
  BY <1>11, StutterStep
<1> QED BY <1>1, <1>2, <1>3, <1>4, <1>5, <1>6, <1>7, <1>8, <1>9, <1>10, <1>11
        DEF Next, Client, OuterThread, Terminated

LEMMA Invariant == Spec => []IInv
<1>1. Init => IInv
  BY Starts
<1>2. IInv /\ [Next]_vars => IInv'
  BY Steps
<1> QED BY <1>1, <1>2, PTL DEF Spec

-----------------------------------------------------------------------------
LEMMA OneIsNotNone ==
  ASSUME NEW s, Len(s) = 1
  PROVE  s # <<>>
OBVIOUS

LEMMA TypesFollow ==
  ASSUME IInv
  PROVE  TypeOK
<1> USE DEF IInv
<1>1. PICK t \in Nat \ {0}, n \in Nat : t = run.timeAvg /\ n = N
  BY ClientFacts
<1>2. /\ run \in Runs /\ pc \in {"setup", "rows", "ask", "closing", "destroyed", "refused"}
      /\ scan \in Nat /\ next \in -1..Len(OutputOrder)
  BY DEF ClientIs, N
<1>3. Len(outer) <= 1 /\ Len(inner) <= 1 /\ emitting \in BOOLEAN
  <2>1. outer = <<>> \/ outer = <<outer[1]>>
    BY DEF OuterIs
  <2>2. Len(outer) <= 1
    <3>1. CASE outer = <<>>
      BY <3>1
    <3>2. CASE outer = <<outer[1]>>
      <4>1. PICK x : outer = <<x>>
        BY <3>2
      <4> QED BY <4>1
    <3> QED BY <2>1, <3>1, <3>2
  <2>3. inner = <<>> \/ Len(inner) = 1
    BY DEF RowsAre
  <2>4. Len(inner) <= 1
    BY <2>3
  <2>5. emitting \in BOOLEAN
    BY DEF OuterIs
  <2> QED BY <2>2, <2>4, <2>5
<1>4. rowsAdded \in 0..(run.timeAvg - 1)
  <2>1. PICK b \in Nat : b = Begun
    BY ClientFacts
  <2>2. b % t \in 0..(t - 1)
    OBVIOUS
  <2> QED BY <1>1, <2>1, <2>2 DEF FileIs
<1>5. Len(bandInfo) <= 1 /\ Len(header) <= 1
  <2>1. bandInfo = <<>> \/ Len(bandInfo) = 1
    BY DEF FileIs
  <2>2. header = <<>> \/ Len(header) = 1
    BY DEF FileIs
  <2>3. Len(bandInfo) <= 1
    BY <2>1
  <2>4. Len(header) <= 1
    BY <2>2
  <2> QED BY <2>3, <2>4
<1>6. nrow \in Nat
  <2>1. PICK b \in Nat : b = Begun
    BY ClientFacts
  <2>2. PICK c \in Nat : c = scan
    BY ClientFacts
  <2>3. Groups(t, b) \in Nat /\ Groups(t, c) \in Nat
    BY GroupsNext
  <2>4. Groups(t, b) * n \in Nat /\ Groups(t, c) * n \in Nat
    <3>1. PICK g \in Nat, f \in Nat : g = Groups(t, b) /\ f = Groups(t, c)
      BY <2>3
    <3>2. g * n \in Nat /\ f * n \in Nat
      OBVIOUS
    <3> QED BY <3>1, <3>2
  <2>5. Len(table) \in Nat
    BY DEF RowsAre
  <2>6. InitialGroups \in Nat
    BY OutputBaselinesFinite
  <2>7. CASE pc # "destroyed"
    BY <1>1, <2>1, <2>4, <2>6, <2>7 DEF FileIs
  <2>8. CASE pc = "destroyed"
    BY <1>1, <2>2, <2>4, <2>5, <2>8 DEF FileIs
  <2> QED BY <2>7, <2>8
<1>7. ASSUME Averaging(run), pc # "setup", NEW b \in Baselines
      PROVE  Len(sums[b].scans) <= run.timeAvg
  <2>1. CASE b \notin OutputBaselines
    <3>1. sums[b].scans = <<>>
      BY <1>7, <2>1 DEF SumsAre
    <3> QED BY <1>1, <3>1
  <2>2. CASE b \in OutputBaselines
    <3>1. PICK k \in 1..n : OutputOrder[k] = b
      BY <1>1, <2>2, OrderIs
    <3>2. sums[b].scans = SumOf(k)
      BY <1>1, <1>7, <3>1 DEF SumsAre
    <3>3. HandledScan \in Nat
      BY DEF HandledScan, OuterIs, ClientIs
    <3>4. PICK c \in Nat, q \in Nat, d \in Nat :
            c = HandledScan /\ d = c + 1 /\ q = c \div t
      BY <3>3, Division
    <3>5. SumOf(k) \in {GroupOf(t, q), Since(t, c), Since(t, d)}
      BY <1>1, <3>4 DEF SumOf
    <3>6. Len(GroupOf(t, q)) = t
      BY GroupLength
    <3>7. Len(Since(t, c)) = c % t /\ c % t \in 0..(t - 1)
      BY SinceIs
    <3>8. Len(Since(t, d)) = d % t /\ d % t \in 0..(t - 1)
      BY SinceIs
    <3> QED BY <1>1, <3>2, <3>5, <3>6, <3>7, <3>8
  <2> QED BY <2>1, <2>2
<1> QED BY <1>2, <1>3, <1>4, <1>5, <1>6, <1>7 DEF TypeOK

(* Never more than one row is between two of the writers, and no buffer of   *)
(* AveragingWriter gets more scans than are averaged.                        *)
THEOREM TypeCorrect == Spec => []TypeOK
<1>1. IInv => TypeOK
  BY TypesFollow
<1> QED BY <1>1, Invariant, PTL

(* The rows of the file are those that a single thread would have written,   *)
(* in its order, each averaged of the scans of its group and no others: for  *)
(* every number of antennas, averaging factor and choice of baselines.       *)
THEOREM RowsAreAveraged == Spec => []TableAsAveraged
<1>1. IInv => TableAsAveraged
  BY DEF IInv, RowsAre, RowIs, TableAsAveraged, GroupScans, GroupOf, N
<1> QED BY <1>1, Invariant, PTL

(* What has been put or is about to be put was allocated before, although    *)
(* AddRows and the rows take different ways to the file.                     *)
LEMMA RowsWereAllocated ==
  ASSUME IInv
  PROVE  RowsAllocated
<1> USE DEF IInv
<1>1. PICK t \in Nat \ {0}, n \in Nat, c \in Nat, b \in Nat :
        t = run.timeAvg /\ n = N /\ c = scan /\ b = Begun
  BY ClientFacts
<1>2. PICK e \in Nat : e = Emitted /\ e <= Groups(t, b) * n /\ (b = 0 => e = 0)
  <2>1. CASE outer = <<>> /\ next = -1
    <3>1. HandledScan = c /\ HandledRows = 0 /\ b = c
      BY <1>1, <2>1 DEF HandledScan, HandledRows, Begun
    <3>2. Emitted = RowsOut(t, n, c, 0)
      BY <1>1, <3>1 DEF Emitted
    <3>3. 0 \in 0..n
      OBVIOUS
    <3>4. RowsOut(t, n, c, 0) \in Nat
      BY <3>3, RowsOutNext
    <3>5. RowsOut(t, n, c, 0) <= Groups(t, c) * n /\ RowsOut(t, n, 0, 0) = 0
      BY RowsOutNext
    <3> QED BY <3>1, <3>2, <3>4, <3>5
  <2>2. CASE ~(outer = <<>> /\ next = -1)
    <3>1. PICK d \in Nat : d = HandledScan
      BY DEF HandledScan, OuterIs, ClientIs
    <3>2. b = d + 1 /\ HandledRows \in 0..n
      <4>1. CASE outer = <<>>
        <5>1. next \in 0..n
          BY <1>1, <2>2, <4>1 DEF ClientIs
        <5> QED BY <1>1, <3>1, <4>1, <5>1 DEF HandledScan, HandledRows, Begun
      <4>2. CASE outer # <<>>
        BY <1>1, <3>1, <4>2, OuterFacts DEF Begun
      <4> QED BY <4>1, <4>2
    <3>3. PICK h \in 0..n : h = HandledRows
      BY <3>2
    <3>4. Emitted = RowsOut(t, n, d, h)
      BY <1>1, <3>1, <3>3 DEF Emitted
    <3>5. RowsOut(t, n, d, h) \in Nat /\ RowsOut(t, n, d, h) <= Groups(t, d + 1) * n
      BY RowsOutNext
    <3> QED BY <3>2, <3>4, <3>5
  <2> QED BY <2>1, <2>2
<1>3. Len(table) + Len(inner) = e
  BY <1>2 DEF RowsAre
<1>4. SUFFICES ASSUME e > 0
               PROVE  header # <<>> /\ (run.output = "ms" => e <= nrow)
  BY <1>3 DEF RowsAllocated
<1>5. b # 0
  BY <1>2, <1>4
<1>6. CASE pc # "destroyed"
  <2>1. Len(header) = 1 /\ (run.output = "ms" => nrow = Groups(t, b) * n)
    BY <1>1, <1>5, <1>6 DEF FileIs
  <2> QED BY <1>2, <2>1, OneIsNotNone
<1>7. CASE pc = "destroyed"
  <2>1. next = -1 /\ b = c
    BY <1>1, <1>7 DEF ClientIs, Begun
  <2>2. Len(header) = 1 /\ (run.output = "ms" => nrow = Groups(t, c) * n)
    BY <1>1, <1>5, <1>7, <2>1 DEF FileIs
  <2> QED BY <1>2, <2>1, <2>2, OneIsNotNone
<1> QED BY <1>6, <1>7

(* AddRows, which the averaging thins out on Cotter's thread, is always      *)
(* ahead of the rows that come through the two writer threads.               *)
THEOREM AllocatedBeforePut == Spec => []RowsAllocated
<1>1. IInv => RowsAllocated
  BY RowsWereAllocated
<1> QED BY <1>1, Invariant, PTL

LEMMA AnswerIsSettled ==
  ASSUME IInv, FirstNotAlone
  PROVE  AnswerSettled
<1> USE DEF IInv
<1> SUFFICES ASSUME pc = "ask", NEW i \in DOMAIN outer, outer[i].baseline = <<0, 0>>
             PROVE  FALSE
  BY DEF AnswerSettled
<1>1. PICK n \in Nat : n = N
  BY OrderIs
<1>2. next = -1
  BY DEF ClientIs
<1>3. outer # <<>>
  OBVIOUS
<1>4. PICK row : outer = <<row>> /\ row.baseline = OutputOrder[n]
  <2>1. outer = <<outer[1]>>
    BY <1>3 DEF OuterIs
  <2>2. outer[1].baseline = OutputOrder[n] /\ n \in 1..n
    BY <1>1, <1>2, <1>3, OuterFacts
  <2> QED BY <2>1, <2>2
<1>5. OutputOrder[n] = <<0, 0>>
  <2>1. i = 1
    BY <1>4
  <2> QED BY <1>4, <2>1
<1>6. <<0, 0>> \in OutputBaselines
  <2>1. n \in 1..n
    BY <1>1, <1>2, <1>3, OuterFacts
  <2> QED BY <1>1, <1>5, <2>1, OrderIs
<1> QED BY <1>1, <1>5, <1>6, Alone

(* The answer of IsTimeAligned, which is given without a mutex, does not     *)
(* depend on the writer threads, unless (0,0) is the only output baseline.   *)
THEOREM AnswerDoesNotRace == Spec => [](FirstNotAlone => AnswerSettled)
<1>1. IInv => (FirstNotAlone => AnswerSettled)
  BY AnswerIsSettled
<1> QED BY <1>1, Invariant, PTL

LEMMA CompleteAtEnd ==
  ASSUME IInv, FirstNotAlone, FirstOrMultiple, run.skipWriting => run.output = "ms"
  PROVE  Complete
<1> USE DEF IInv
<1> SUFFICES ASSUME pc = "destroyed"
             PROVE  /\ Len(table) = nrow
                    /\ nrow = IF run.skipWriting THEN 0 ELSE NGroups * Len(OutputOrder)
                    /\ header # <<>>
  BY DEF Complete
<1>1. PICK t \in Nat \ {0}, n \in Nat, c \in Nat, m \in Nat \ {0} :
        t = run.timeAvg /\ n = N /\ c = scan /\ m = run.nScans
  BY ClientFacts
<1>2. next = -1 /\ outer = <<>> /\ inner = <<>> /\ Begun = c
  BY <1>1 DEF ClientIs, FileIs, Begun
<1>3. Len(table) = (c \div t) * n
  <2>1. HandledScan = c /\ HandledRows = 0
    BY <1>1, <1>2 DEF HandledScan, HandledRows
  <2>2. Len(table) = RowsOut(t, n, c, 0)
    <3>1. Len(table) + Len(inner) = Emitted /\ Len(table) \in Nat /\ Len(inner) = 0
      BY <1>2 DEF RowsAre
    <3>2. Emitted = RowsOut(t, n, c, 0)
      BY <1>1, <2>1 DEF Emitted
    <3> QED BY <3>1, <3>2
  <2>3. RowsOut(t, n, c, 0) = (c \div t) * n
    BY RowsOutNext
  <2> QED BY <2>2, <2>3
<1>4. c % t = 0
  <2>1. CASE run.skipWriting
    <3>1. c = 0
      BY <1>1, <2>1 DEF SkippedIs
    <3>2. 0 % t = 0
      OBVIOUS
    <3> QED BY <3>1, <3>2
  <2>2. CASE ~run.skipWriting
    BY <1>1, <2>2 DEF EndIs
  <2> QED BY <2>1, <2>2
<1>5. PICK q \in Nat : c \div t = q /\ c = q * t /\ Groups(t, c) = q /\ Len(table) = q * n
  <2>1. PICK q \in Nat, r \in 0..(t - 1) : c \div t = q /\ c % t = r /\ c = q * t + r
    BY Division
  <2>2. q * t \in Nat
    OBVIOUS
  <2> QED BY <1>3, <1>4, <2>1, <2>2 DEF Groups
<1>6. Len(table) = nrow
  BY <1>1, <1>5 DEF FileIs
<1>7. CASE run.skipWriting
  <2>1. c = 0 /\ run.output = "ms"
    BY <1>1, <1>7 DEF SkippedIs
  <2>2. 0 \div t = 0 /\ 0 * n = 0
    OBVIOUS
  <2>3. Len(table) = 0
    BY <1>3, <2>1, <2>2
  <2>4. Len(header) = 1
    BY <1>2, <2>1 DEF FileIs
  <2> QED BY <1>6, <1>7, <2>3, <2>4, OneIsNotNone
<1>8. CASE ~run.skipWriting
  <2>1. PICK g \in Nat, p \in Nat : g = NGroups /\ p = g * t /\ m <= p /\ p < m + t
    BY <1>1, NGroupsIs DEF ClientIs
  <2>2. c \in m..p
    BY <1>1, <1>8, <2>1 DEF EndIs
  <2>3. q = g
    <3>1. ASSUME q < g PROVE FALSE
      <4>1. q * t + t <= g * t
        BY <3>1, ProductMonotone
      <4> QED BY <1>5, <2>1, <2>2, <4>1
    <3>2. ASSUME g < q PROVE FALSE
      <4>1. g * t + t <= q * t
        BY <3>2, ProductMonotone
      <4> QED BY <1>5, <2>1, <2>2, <4>1
    <3> QED BY <3>1, <3>2
  <2>4. Len(header) = 1
    BY <1>2, <2>2 DEF FileIs
  <2>5. nrow = NGroups * Len(OutputOrder)
    BY <1>1, <1>5, <1>6, <2>1, <2>3 DEF N
  <2> QED BY <1>6, <1>8, <2>4, <2>5, OneIsNotNone
<1> QED BY <1>7, <1>8

(* A file that is closed has the rows it says and all averaged scans of all  *)
(* output baselines: if (0,0), which Cotter asks for, is one of them or no    *)
(* scans are left over, and it is not the only one.  (UVFITS files for which *)
(* no row is written do not get a header.)                                   *)
THEOREM FilesAreComplete ==
  Spec => [](FirstNotAlone /\ FirstOrMultiple /\ (run.skipWriting => run.output = "ms")
               => Complete)
<1>1. IInv => (FirstNotAlone /\ FirstOrMultiple /\ (run.skipWriting => run.output = "ms")
                 => Complete)
  BY CompleteAtEnd
<1> QED BY <1>1, Invariant, PTL

-----------------------------------------------------------------------------
(* The sum of a sequence, through its partial sums t.                        *)
Adds(s, n, t) == /\ t[0] = 0 /\ \A k \in 0..n : t[k] \in Int
                 /\ \A k \in 0..(n - 1) : t[k + 1] = t[k] + s[k + 1]

LEMMA TotalIs ==
  ASSUME NEW n \in Nat, NEW s \in [1..n -> Int]
  PROVE  \E t : Total(s) = t[n] /\ Adds(s, n, t)
<1> DEFINE S == 1..n
           f == CHOOSE f : Summed(s, S, f)
           t == [k \in 0..n |-> f[1..k]]
<1>1. IsFiniteSet(S) /\ DOMAIN s = S /\ \A x \in S : s[x] \in Int
  BY FS_Interval
<1>2. Total(s) = f[S]
  BY <1>1 DEF Total, FoldSeq, FoldFunction, FoldFunctionOnSet, MapThenFoldSet, Summed, SumAt, Some, Without
<1>3. Summed(s, S, f)
  BY <1>1, SummedExists
<1> HIDE DEF f
<1>4. /\ \A u \in SUBSET S : f[u] \in Int
      /\ \A u \in SUBSET S : \A y \in u : f[u] = s[y] + f[Without(u, y)]
  <2> HIDE DEF S
  <2> QED BY <1>1, <1>3, SummedAnyOrder
<1>5. t[0] = 0
  <2>1. 1..0 = {} /\ {} \in SUBSET S
    OBVIOUS
  <2>2. f[{}] = 0
    BY <1>3, <2>1 DEF Summed, SumAt
  <2> QED BY <2>1, <2>2
<1>6. ASSUME NEW k \in 0..n PROVE 1..k \in SUBSET S /\ t[k] = f[1..k] /\ t[k] \in Int
  BY <1>4
<1>7. ASSUME NEW k \in 0..(n - 1) PROVE t[k + 1] = t[k] + s[k + 1]
  <2>1. k \in 0..n /\ k + 1 \in 0..n /\ k + 1 \in 1..(k + 1) /\ k + 1 \in S
    OBVIOUS
  <2>2. Without(1..(k + 1), k + 1) = 1..k
    BY DEF Without
  <2>3. f[1..(k + 1)] = s[k + 1] + f[1..k]
    BY <1>4, <1>6, <2>1, <2>2
  <2>4. s[k + 1] \in Int /\ f[1..k] \in Int
    BY <1>1, <1>6, <2>1
  <2>5. t[k + 1] = f[1..(k + 1)] /\ t[k] = f[1..k]
    BY <1>6, <2>1
  <2> HIDE DEF t, S
  <2> QED BY <2>3, <2>4, <2>5
<1>8. Total(s) = t[n]
  BY <1>2
<1> HIDE DEF t
<1>9. Adds(s, n, t)
  BY <1>5, <1>6, <1>7 DEF Adds
<1> QED BY <1>8, <1>9

-----------------------------------------------------------------------------
(* What a row holds.  A place is a scan and a channel of the band.           *)
GroupChannels(r, c) == ((c - 1) * r.freqAvg)..(c * r.freqAvg - 1)
Here(r, S, c) == S \X GroupChannels(r, c)
IsGood(r, x) == x[1] < r.nScans /\ x \notin r.bad
Good(r, S, c) == {x \in Here(r, S, c) : IsGood(r, x)}

Sol(r, a, k) == SolutionAt(r, a * r.nSolutionChannels + SolChannel(r, k))
SolPair(r, b, k) == <<Sol(r, b[1], k), Sol(r, b[2], k)>>
UpperBy(r, b, ch) == IF r.solutions = "before" THEN SolPair(r, b, ch) ELSE <<>>
FinalBy(r, b, c, ch) == IF r.solutions = "after" THEN SolPair(r, b, c - 1) ELSE UpperBy(r, b, ch)

Sample(r, b, x) == [scan |-> x[1], ch |-> x[2], by |-> UpperBy(r, b, x[2])]
FinalSample(r, b, c, x) == [scan |-> x[1], ch |-> x[2], by |-> FinalBy(r, b, c, x[2])]
Samples(r, b, X) == {Sample(r, b, x) : x \in X}
FinalSamples(r, b, c, X) == {FinalSample(r, b, c, x) : x \in X}

(* The numbers of a run; the averaged channels fit in the band.              *)
LEMMA RunNumbers ==
  ASSUME NEW r \in Runs
  PROVE  /\ r.freqAvg \in Nat \ {0} /\ r.timeAvg \in Nat \ {0} /\ r.nScans \in Nat \ {0}
         /\ r.chPerSb \in Nat \ {0} /\ r.nSolutionChannels \in Nat \ {0}
         /\ r.sbStart \in Nat /\ r.sbEnd \in Nat /\ r.numbers \in Seq(Nat)
         /\ Len(r.numbers) \in Nat \ {0}
         /\ r.output \in {"ms", "fits"} /\ r.solutions \in {"none", "after", "before"}
         /\ BandChannels(r) \in Nat \ {0} /\ AvgChannelCount(r) \in Nat
         /\ AvgChannelCount(r) * r.freqAvg <= BandChannels(r)
<1>1. r \in RunType /\ r.sbStart < r.sbEnd
  BY RunAssumption
<1>2. /\ r.freqAvg \in Nat \ {0} /\ r.timeAvg \in Nat \ {0} /\ r.nScans \in Nat \ {0}
      /\ r.chPerSb \in Nat \ {0} /\ r.nSolutionChannels \in Nat \ {0}
      /\ r.sbStart \in Nat /\ r.sbEnd \in Nat /\ r.numbers \in Seq(Nat) \ {<<>>}
      /\ r.output \in {"ms", "fits"} /\ r.solutions \in {"none", "after", "before"}
  BY <1>1 DEF RunType
<1>3. Len(r.numbers) \in Nat \ {0}
  BY <1>2, EmptySeq
<1>4. PICK w \in Nat, p \in Nat \ {0} : r.sbEnd - r.sbStart = w + 1 /\ p = r.chPerSb
  <2>1. r.sbEnd - r.sbStart - 1 \in Nat
    BY <1>1, <1>2
  <2>2. r.sbEnd - r.sbStart = (r.sbEnd - r.sbStart - 1) + 1
    BY <1>2
  <2> QED BY <1>2, <2>1, <2>2
<1>5. BandChannels(r) = w * p + p /\ w * p \in Nat
  <2>1. BandChannels(r) = (w + 1) * p
    BY <1>4 DEF BandChannels
  <2>2. (w + 1) * p = w * p + p /\ w * p \in Nat
    OBVIOUS
  <2> QED BY <2>1, <2>2
<1>6. BandChannels(r) \in Nat \ {0}
  BY <1>4, <1>5
<1>7. PICK B \in Nat, f \in Nat \ {0} : B = BandChannels(r) /\ f = r.freqAvg
  BY <1>2, <1>6
<1>8. PICK a \in Nat, z \in 0..(f - 1) : B \div f = a /\ B % f = z /\ B = a * f + z
  BY Division
<1>9. AvgChannelCount(r) = a /\ a * f <= B
  BY <1>7, <1>8 DEF AvgChannelCount
<1> QED BY <1>2, <1>3, <1>6, <1>7, <1>9

(* The channels of a group, one by one.                                      *)
LEMMA GroupIs ==
  ASSUME NEW f \in Nat \ {0}, NEW c \in Nat \ {0}, NEW s
  PROVE  /\ Len(Group(s, f, c)) = f /\ DOMAIN Group(s, f, c) = 1..f
         /\ \A j \in 1..f : Group(s, f, c)[j] = s[(c - 1) * f + j]
<1>1. PICK p \in Nat : p = (c - 1) * f /\ c * f = p + f
  <2>1. PICK d \in Nat : c = d + 1
    <3>1. c - 1 \in Nat /\ c = (c - 1) + 1
      OBVIOUS
    <3> QED BY <3>1
  <2>2. (c - 1) * f = d * f /\ d * f \in Nat /\ c * f = d * f + f
    BY <2>1
  <2> QED BY <2>2
<1> DEFINE S == {s[i] : i \in (p + 1)..(p + f)}
<1>2. /\ p + 1 \in Int /\ p + f \in Int /\ p + 1 <= p + f /\ p + f - (p + 1) + 1 = f
      /\ \A i \in (p + 1)..(p + f) : s[i] \in S
  BY <1>1
<1> HIDE DEF S
<1>3. Group(s, f, c) = SubSeq(s, p + 1, p + f)
  BY <1>1 DEF Group
<1>4. /\ SubSeq(s, p + 1, p + f) \in Seq(S)
      /\ Len(SubSeq(s, p + 1, p + f)) =
           IF p + 1 <= p + f THEN p + f - (p + 1) + 1 ELSE 0
      /\ \A i \in 1..(p + f - (p + 1) + 1) : SubSeq(s, p + 1, p + f)[i] = s[p + 1 + i - 1]
  BY <1>2, SubSeqProperties
<1>5. Len(Group(s, f, c)) = f /\ DOMAIN Group(s, f, c) = 1..f
  BY <1>2, <1>3, <1>4, LenProperties
<1>6. ASSUME NEW j \in 1..f PROVE Group(s, f, c)[j] = s[(c - 1) * f + j]
  <2>1. Group(s, f, c)[j] = s[p + 1 + j - 1]
    BY <1>2, <1>3, <1>4
  <2>2. p + 1 + j - 1 = (c - 1) * f + j
    BY <1>1
  <2> QED BY <2>1, <2>2
<1> QED BY <1>5, <1>6

(* Samples that no solutions were applied to, and the same after the pair    *)
(* of solutions of a channel was.                                            *)
(* A cell, and lists of samples that were not corrected or all by pair.      *)
IsCell(z) == z = [samples |-> z.samples, flag |-> z.flag, weight |-> z.weight]
Bare(q) == \A k \in DOMAIN q : q[k] = [scan |-> q[k].scan, ch |-> q[k].ch, by |-> <<>>]
With(q, pair) == [k \in DOMAIN q |-> [scan |-> q[k].scan, ch |-> q[k].ch, by |-> pair]]

(* A correction changes nothing but the solutions of the samples, of each by *)
(* the same pair.                                                            *)
LEMMA Corrected ==
  ASSUME NEW r, NEW b, NEW cells, NEW i \in DOMAIN cells, IsCell(cells[i]), Bare(cells[i].samples)
  PROVE  /\ CorrectedBy(r, b, cells)[i].samples = With(cells[i].samples, SolPair(r, b, i - 1))
         /\ CorrectedBy(r, b, cells)[i].flag = cells[i].flag
         /\ CorrectedBy(r, b, cells)[i].weight = cells[i].weight
         /\ IsCell(CorrectedBy(r, b, cells)[i])
<1> DEFINE pair == SolPair(r, b, i - 1)
<1>1. CorrectedBy(r, b, cells)[i] = [cells[i] EXCEPT !.samples = Multiplied(cells[i].samples, pair)]
  BY DEF CorrectedBy, SolPair, Sol, Multiplied
<1>2. PICK q, flag, weight : cells[i] = [samples |-> q, flag |-> flag, weight |-> weight]
  BY DEF IsCell
<1>3. <<>> \o pair = pair
  <2>1. pair \in Seq({Sol(r, b[1], i - 1), Sol(r, b[2], i - 1)})
    BY DEF SolPair
  <2> HIDE DEF pair
  <2> QED BY <2>1, ConcatEmptySeq
<1>4. cells[i].samples = q /\ cells[i].flag = flag /\ cells[i].weight = weight /\ Bare(q)
  BY <1>2
<1> HIDE DEF pair
<1>5. ASSUME NEW k \in DOMAIN q
      PROVE  [q[k] EXCEPT !.by = @ \o pair] = [scan |-> q[k].scan, ch |-> q[k].ch, by |-> pair]
  <2>1. PICK x, y : q[k] = [scan |-> x, ch |-> y, by |-> <<>>]
    BY <1>4 DEF Bare
  <2>2. [q[k] EXCEPT !.by = @ \o pair] = [scan |-> x, ch |-> y, by |-> <<>> \o pair]
    BY <2>1
  <2> QED BY <1>3, <2>1, <2>2
<1>6. Multiplied(q, pair) = With(q, pair)
  BY <1>5 DEF With, Multiplied
<1>7. CorrectedBy(r, b, cells)[i] = [samples |-> With(q, pair), flag |-> flag, weight |-> weight]
  BY <1>1, <1>2, <1>4, <1>6
<1> QED BY <1>4, <1>7 DEF pair, IsCell

(* Cotter's cells, as they come out of the writers above the averaging.      *)
CotterCellIs(r, b, s, i, z) ==
  /\ IsCell(z) /\ z.samples = <<Sample(r, b, <<s, i - 1>>)>>
  /\ z.flag \in BOOLEAN /\ (z.flag <=> ~IsGood(r, <<s, i - 1>>))
  /\ z.weight = SampleWeight(r, s)

(* What leaves the writers above the averaging: in each channel one sample,  *)
(* flagged if it is bad or past the end, and with a weight otherwise.        *)
LEMMA CotterCellsAre ==
  ASSUME NEW r \in Runs, NEW b, NEW s \in Nat
  PROVE  /\ DOMAIN BeforeAveraging(r, b, CotterCells(r, s)) = 1..BandChannels(r)
         /\ \A i \in 1..BandChannels(r) :
              CotterCellIs(r, b, s, i, BeforeAveraging(r, b, CotterCells(r, s))[i])
<1> DEFINE plain == CotterCells(r, s)
           cells == BeforeAveraging(r, b, plain)
<1>0. DOMAIN plain = 1..BandChannels(r)
  BY DEF CotterCells
<1>1. ASSUME NEW i \in 1..BandChannels(r)
      PROVE  /\ IsCell(plain[i]) /\ plain[i].samples = <<[scan |-> s, ch |-> i - 1, by |-> <<>>]>>
             /\ plain[i].flag \in BOOLEAN /\ (plain[i].flag <=> ~IsGood(r, <<s, i - 1>>))
             /\ plain[i].weight = SampleWeight(r, s)
  <2> DEFINE q == <<[scan |-> s, ch |-> i - 1, by |-> <<>>]>>
             flag == s >= r.nScans \/ <<s, i - 1>> \in r.bad
  <2>1. plain[i] = [samples |-> q, flag |-> flag, weight |-> SampleWeight(r, s)]
    BY DEF CotterCells
  <2>2. flag \in BOOLEAN /\ (flag <=> ~IsGood(r, <<s, i - 1>>))
    BY RunNumbers DEF IsGood
  <2> HIDE DEF plain, flag, q
  <2>3. IsCell(plain[i]) /\ plain[i].samples = q /\ plain[i].flag = flag
        /\ plain[i].weight = SampleWeight(r, s)
    BY <2>1 DEF IsCell
  <2> QED BY <2>2, <2>3 DEF q
<1> HIDE DEF plain
<1>3. CASE r.solutions = "before"
  <2>1. cells = CorrectedBy(r, b, plain)
    BY <1>3 DEF BeforeAveraging
  <2>2. DOMAIN cells = 1..BandChannels(r)
    BY <1>0, <2>1 DEF CorrectedBy
  <2>3. ASSUME NEW i \in 1..BandChannels(r) PROVE CotterCellIs(r, b, s, i, cells[i])
    <3>1. i \in DOMAIN plain /\ IsCell(plain[i])
      BY <1>0, <1>1
    <3>2. plain[i].samples = <<[scan |-> s, ch |-> i - 1, by |-> <<>>]>>
      BY <1>1
    <3>3. Bare(plain[i].samples)
      BY <3>2 DEF Bare
    <3>4. With(plain[i].samples, SolPair(r, b, i - 1)) = <<Sample(r, b, <<s, i - 1>>)>>
      BY <1>3, <3>2 DEF With, Sample, UpperBy
    <3>5. /\ CorrectedBy(r, b, plain)[i].samples = With(plain[i].samples, SolPair(r, b, i - 1))
          /\ CorrectedBy(r, b, plain)[i].flag = plain[i].flag
          /\ CorrectedBy(r, b, plain)[i].weight = plain[i].weight
          /\ IsCell(CorrectedBy(r, b, plain)[i])
      BY <3>1, <3>3, Corrected
    <3> HIDE DEF cells
    <3>6. /\ cells[i].flag \in BOOLEAN /\ (cells[i].flag <=> ~IsGood(r, <<s, i - 1>>))
          /\ cells[i].weight = SampleWeight(r, s) /\ IsCell(cells[i])
      BY <1>1, <2>1, <3>5
    <3>7. cells[i].samples = <<Sample(r, b, <<s, i - 1>>)>>
      BY <2>1, <3>4, <3>5
    <3> QED BY <3>6, <3>7 DEF CotterCellIs
  <2> QED BY <2>2, <2>3 DEF plain
<1>4. CASE r.solutions # "before"
  <2>1. cells = plain
    BY <1>4 DEF BeforeAveraging
  <2>2. ASSUME NEW i \in 1..BandChannels(r) PROVE CotterCellIs(r, b, s, i, cells[i])
    <3>1. [scan |-> s, ch |-> i - 1, by |-> <<>>] = Sample(r, b, <<s, i - 1>>)
      BY <1>4 DEF Sample, UpperBy
    <3> HIDE DEF cells
    <3> QED BY <1>1, <2>1, <3>1 DEF CotterCellIs
  <2> QED BY <1>0, <2>1, <2>2 DEF plain
<1> QED BY <1>3, <1>4

(* A sum of weights is at least each of them.                                *)
LEMMA TotalAtLeast ==
  ASSUME NEW n \in Nat, NEW s \in [1..n -> Nat]
  PROVE  Total(s) \in Nat /\ \A k \in 1..n : Total(s) >= s[k]
<1>0. s \in [1..n -> Int]
  OBVIOUS
<1>5. PICK t : Total(s) = t[n] /\ Adds(s, n, t)
  BY <1>0, TotalIs
<1>1. /\ Total(s) = t[n] /\ t[0] = 0
      /\ \A k \in 0..(n - 1) : t[k] \in Int /\ t[k + 1] \in Int /\ t[k + 1] = t[k] + s[k + 1]
  BY <1>5 DEF Adds
<1> DEFINE T == {m \in Nat : m <= n => t[m] \in Nat /\ \A k \in 1..m : t[m] >= s[k]}
<1>2. 0 \in T
  BY <1>1
<1>3. ASSUME NEW m \in T PROVE m + 1 \in T
  <2>1. m \in Nat /\ (m <= n => t[m] \in Nat /\ \A k \in 1..m : t[m] >= s[k])
    OBVIOUS
  <2>2. ASSUME m + 1 <= n PROVE t[m + 1] \in Nat /\ \A k \in 1..(m + 1) : t[m + 1] >= s[k]
    <3>1. m \in 0..(n - 1) /\ m + 1 \in 1..n /\ s[m + 1] \in Nat
      BY <2>1, <2>2
    <3>2. t[m] \in Nat /\ t[m + 1] = t[m] + s[m + 1] /\ \A k \in 1..m : t[m] >= s[k]
      BY <1>1, <2>1, <2>2, <3>1
    <3>3. ASSUME NEW k \in 1..(m + 1) PROVE t[m + 1] >= s[k]
      <4>1. k \in 1..n /\ s[k] \in Nat /\ (k \in 1..m \/ k = m + 1)
        BY <2>1, <2>2
      <4>2. CASE k \in 1..m
        <5>1. t[m] >= s[k]
          BY <3>2, <4>2
        <5> QED BY <3>1, <3>2, <4>1, <5>1
      <4> QED BY <3>1, <3>2, <4>1, <4>2
    <3> QED BY <3>1, <3>2, <3>3
  <2> QED BY <2>1, <2>2
<1>4. n \in T
  <2>1. T \in SUBSET Nat
    OBVIOUS
  <2> HIDE DEF T
  <2> QED BY <1>2, <1>3, <2>1, Inductive
<1> QED BY <1>1, <1>4

(* Where the j-th channel of the c-th group is, in the band and of scan s.   *)
Place(r, s, c, j) == <<s, (c - 1) * r.freqAvg + j - 1>>

(* The groups of channels do not reach past the band.                        *)
LEMMA InBand ==
  ASSUME NEW r \in Runs, NEW c \in 1..AvgChannelCount(r)
  PROVE  /\ (c - 1) * r.freqAvg \in Nat /\ c * r.freqAvg = (c - 1) * r.freqAvg + r.freqAvg
         /\ c * r.freqAvg <= BandChannels(r)
         /\ \A j \in 1..r.freqAvg : (c - 1) * r.freqAvg + j \in 1..BandChannels(r)
<1>1. PICK f \in Nat \ {0}, A \in Nat, B \in Nat :
        f = r.freqAvg /\ A = AvgChannelCount(r) /\ B = BandChannels(r) /\ A * f <= B
  BY RunNumbers
<1>2. PICK d \in Nat : c = d + 1 /\ d < A
  <2>1. c - 1 \in Nat /\ c = (c - 1) + 1 /\ c - 1 < A
    BY <1>1
  <2> QED BY <2>1
<1>3. d * f + f <= A * f /\ d * f \in Nat /\ A * f \in Nat
  BY <1>1, <1>2, ProductMonotone
<1>4. c - 1 = d /\ c * f = d * f + f
  BY <1>1, <1>2
<1>5. ASSUME NEW j \in 1..f PROVE d * f + j \in 1..B
  BY <1>1, <1>3
<1> QED BY <1>1, <1>3, <1>4, <1>5

(* The places of a group are those of its channels, each once.               *)
LEMMA GroupPlaces ==
  ASSUME NEW r \in Runs, NEW s \in Nat, NEW c \in 1..AvgChannelCount(r)
  PROVE  /\ Here(r, {s}, c) = {Place(r, s, c, j) : j \in 1..r.freqAvg}
         /\ \A i, j \in 1..r.freqAvg : Place(r, s, c, i) = Place(r, s, c, j) => i = j
<1>1. PICK f \in Nat \ {0}, p \in Nat :
        f = r.freqAvg /\ (c - 1) * r.freqAvg = p /\ c * r.freqAvg = p + f
  BY RunNumbers, InBand
<1>2. GroupChannels(r, c) = p..(p + f - 1)
  BY <1>1 DEF GroupChannels
<1>3. \A j \in 1..f : Place(r, s, c, j) = <<s, p + j - 1>>
  BY <1>1 DEF Place
<1>4. ASSUME NEW x \in Here(r, {s}, c) PROVE \E j \in 1..f : x = Place(r, s, c, j)
  <2>1. PICK k \in p..(p + f - 1) : x = <<s, k>>
    BY <1>2 DEF Here
  <2>2. k - p + 1 \in 1..f /\ p + (k - p + 1) - 1 = k
    BY <2>1
  <2> QED BY <1>3, <2>1, <2>2
<1>5. ASSUME NEW j \in 1..f PROVE Place(r, s, c, j) \in Here(r, {s}, c)
  <2>1. p + j - 1 \in p..(p + f - 1)
    OBVIOUS
  <2> QED BY <1>2, <1>3, <2>1 DEF Here
<1>6. ASSUME NEW i \in 1..f, NEW j \in 1..f, Place(r, s, c, i) = Place(r, s, c, j) PROVE i = j
  BY <1>3, <1>6
<1>7. Here(r, {s}, c) = {Place(r, s, c, j) : j \in 1..f}
  BY <1>4, <1>5
<1> QED BY <1>1, <1>6, <1>7

(* A group of Cotter's row is made of the samples at its places.             *)
LEMMA GroupCells ==
  ASSUME NEW r \in Runs, NEW b, NEW s \in Nat, NEW c \in 1..AvgChannelCount(r), NEW g,
         g = Group(BeforeAveraging(r, b, CotterCells(r, s)), r.freqAvg, c)
  PROVE  /\ Len(g) = r.freqAvg /\ DOMAIN g = 1..r.freqAvg
         /\ \A j \in 1..r.freqAvg :
              /\ g[j].samples = <<Sample(r, b, Place(r, s, c, j))>>
              /\ g[j].flag \in BOOLEAN /\ (g[j].flag <=> ~IsGood(r, Place(r, s, c, j)))
              /\ g[j].weight = SampleWeight(r, s)
<1> DEFINE cells == BeforeAveraging(r, b, CotterCells(r, s))
<1>1. \A i \in 1..BandChannels(r) : CotterCellIs(r, b, s, i, cells[i])
  BY CotterCellsAre
<1> HIDE DEF cells
<1>2. r.freqAvg \in Nat \ {0} /\ c \in Nat \ {0}
  BY RunNumbers
<1>3. g = Group(cells, r.freqAvg, c)
  BY DEF cells
<1>4. /\ Len(g) = r.freqAvg /\ DOMAIN g = 1..r.freqAvg
      /\ \A j \in 1..r.freqAvg : g[j] = cells[(c - 1) * r.freqAvg + j]
  BY <1>2, <1>3, GroupIs
<1>5. ASSUME NEW j \in 1..r.freqAvg
      PROVE  CotterCellIs(r, b, s, (c - 1) * r.freqAvg + j, g[j])
  BY <1>1, <1>4, InBand
<1>6. ASSUME NEW j \in 1..r.freqAvg
      PROVE  /\ g[j].samples = <<Sample(r, b, Place(r, s, c, j))>>
             /\ g[j].flag \in BOOLEAN /\ (g[j].flag <=> ~IsGood(r, Place(r, s, c, j)))
             /\ g[j].weight = SampleWeight(r, s)
  <2>0. PICK p \in Nat : p = (c - 1) * r.freqAvg
    BY InBand
  <2>1. PICK i \in Nat : i = p + j
    BY <1>2
  <2>2. PICK x : x = <<s, p + j - 1>>
    OBVIOUS
  <2>3. x = Place(r, s, c, j) /\ x = <<s, i - 1>>
    BY <2>0, <2>1, <2>2 DEF Place
  <2>4. PICK z : z = g[j]
    OBVIOUS
  <2>5. CotterCellIs(r, b, s, i, z)
    BY <1>5, <2>0, <2>1, <2>4
  <2>6. /\ z.samples = <<Sample(r, b, x)>>
        /\ z.flag \in BOOLEAN /\ (z.flag <=> ~IsGood(r, x))
        /\ z.weight = SampleWeight(r, s)
    BY <2>3, <2>5 DEF CotterCellIs
  <2> QED BY <2>3, <2>4, <2>6
<1> QED BY <1>4, <1>6

(* What a group of Cotter's cells adds to the buffer of a baseline.          *)
LEMMA GroupAdds ==
  ASSUME NEW r \in Runs, NEW b, NEW s \in Nat, NEW c \in 1..AvgChannelCount(r), NEW g,
         g = Group(BeforeAveraging(r, b, CotterCells(r, s)), r.freqAvg, c)
  PROVE  /\ Lists(SamplesOf(g), Samples(r, b, Here(r, {s}, c)))
         /\ Lists(UnflaggedOf(g), Samples(r, b, Good(r, {s}, c)))
         /\ UnflaggedWeight(g) \in Nat
         /\ Good(r, {s}, c) # {} => UnflaggedWeight(g) > 0
<1>1. PICK f \in Nat \ {0} : f = r.freqAvg
  BY RunNumbers
<1> DEFINE P(j) == Place(r, s, c, j)
<1>2. /\ DOMAIN g = 1..f
      /\ \A j \in 1..f : /\ g[j].samples = <<Sample(r, b, P(j))>>
                         /\ g[j].flag \in BOOLEAN /\ (g[j].flag <=> ~IsGood(r, P(j)))
                         /\ g[j].weight = SampleWeight(r, s)
  BY <1>1, GroupCells
<1>3. /\ Here(r, {s}, c) = {P(j) : j \in 1..f}
      /\ \A i, j \in 1..f : P(i) = P(j) => i = j
  BY <1>1, GroupPlaces
<1>4. \A j \in 1..f : P(j) = <<s, P(j)[2]>>
  BY DEF Place
<1> HIDE DEF P
<1>5. ASSUME NEW i \in 1..f, NEW j \in 1..f, Sample(r, b, P(i)) = Sample(r, b, P(j)) PROVE i = j
  <2>1. P(i)[2] = P(j)[2]
    BY <1>5 DEF Sample
  <2>2. P(i) = P(j)
    BY <1>4, <2>1
  <2> QED BY <1>3, <2>2
<1>6. Lists(SamplesOf(g), Samples(r, b, Here(r, {s}, c)))
  <2> DEFINE q == [j \in DOMAIN g |-> g[j].samples]
             X == [j \in 1..f |-> {Sample(r, b, P(j))}]
  <2>1. Len(q) = f
    BY <1>2
  <2>2. ASSUME NEW j \in 1..f PROVE Lists(q[j], X[j])
    <3>1. q[j] = <<Sample(r, b, P(j))>> /\ X[j] = {Sample(r, b, P(j))}
      BY <1>2
    <3> HIDE DEF q, X
    <3> QED BY <3>1, ListsOne
  <2>3. ASSUME NEW i \in 1..f, NEW j \in 1..f, i # j PROVE X[i] \intersect X[j] = {}
    BY <1>5, <2>3
  <2>4. Pieces(X, f) = Samples(r, b, Here(r, {s}, c))
    <3>1. Samples(r, b, Here(r, {s}, c)) = {Sample(r, b, P(j)) : j \in 1..f}
      BY <1>3 DEF Samples
    <3>2. UNION {X[j] : j \in 1..f} = {Sample(r, b, P(j)) : j \in 1..f}
      OBVIOUS
    <3> QED BY <3>1, <3>2 DEF Pieces
  <2>5. SamplesOf(g) = FlattenSeq(q)
    BY DEF SamplesOf
  <2> HIDE DEF q, X
  <2> QED BY <2>1, <2>2, <2>3, <2>4, <2>5, FlattenLists
<1>7. Lists(UnflaggedOf(g), Samples(r, b, Good(r, {s}, c)))
  <2> DEFINE q == [j \in DOMAIN g |-> IF g[j].flag THEN <<>> ELSE g[j].samples]
             X == [j \in 1..f |-> IF IsGood(r, P(j)) THEN {Sample(r, b, P(j))} ELSE {}]
  <2>1. Len(q) = f
    BY <1>2
  <2>2. ASSUME NEW j \in 1..f PROVE Lists(q[j], X[j])
    <3>1. CASE IsGood(r, P(j))
      <4>1. q[j] = <<Sample(r, b, P(j))>> /\ X[j] = {Sample(r, b, P(j))}
        BY <1>2, <3>1
      <4> HIDE DEF q, X
      <4> QED BY <4>1, ListsOne
    <3>2. CASE ~IsGood(r, P(j))
      <4>1. q[j] = <<>> /\ X[j] = {}
        BY <1>2, <3>2
      <4> HIDE DEF q, X
      <4> QED BY <4>1, ListsNone
    <3> QED BY <3>1, <3>2
  <2>3. ASSUME NEW i \in 1..f, NEW j \in 1..f, i # j PROVE X[i] \intersect X[j] = {}
    BY <1>5, <2>3
  <2>4. Pieces(X, f) = Samples(r, b, Good(r, {s}, c))
    <3>1. ASSUME NEW y \in UNION {X[j] : j \in 1..f}
          PROVE  y \in Samples(r, b, Good(r, {s}, c))
      <4>1. PICK j \in 1..f : y \in X[j]
        OBVIOUS
      <4>2. IsGood(r, P(j)) /\ y = Sample(r, b, P(j))
        BY <4>1
      <4>3. P(j) \in Good(r, {s}, c)
        BY <1>3, <4>2 DEF Good
      <4> QED BY <4>2, <4>3 DEF Samples
    <3>2. ASSUME NEW y \in Samples(r, b, Good(r, {s}, c))
          PROVE  y \in UNION {X[j] : j \in 1..f}
      <4>1. PICK x \in Good(r, {s}, c) : y = Sample(r, b, x)
        BY DEF Samples
      <4>2. x \in Here(r, {s}, c) /\ IsGood(r, x)
        BY <4>1 DEF Good
      <4>3. PICK j \in 1..f : x = P(j)
        BY <1>3, <4>2
      <4>4. y \in X[j]
        BY <4>1, <4>2, <4>3
      <4> QED BY <4>4
    <3> QED BY <3>1, <3>2 DEF Pieces
  <2>5. UnflaggedOf(g) = FlattenSeq(q)
    BY DEF UnflaggedOf
  <2> HIDE DEF q, X
  <2> QED BY <2>1, <2>2, <2>3, <2>4, <2>5, FlattenLists
<1>8. UnflaggedWeight(g) \in Nat /\ (Good(r, {s}, c) # {} => UnflaggedWeight(g) > 0)
  <2> DEFINE w == [j \in DOMAIN g |-> IF g[j].flag THEN 0 ELSE g[j].weight]
  <2>1. SampleWeight(r, s) \in Nat
    BY DEF SampleWeight
  <2>2. w \in [1..f -> Nat]
    BY <1>2, <2>1
  <2>3. UnflaggedWeight(g) = Total(w)
    BY DEF UnflaggedWeight
  <2>4. \A j \in 1..f : IsGood(r, P(j)) => w[j] = SampleWeight(r, s)
    BY <1>2
  <2> HIDE DEF w
  <2>5. Total(w) \in Nat /\ \A j \in 1..f : Total(w) >= w[j]
    BY <2>2, TotalAtLeast
  <2>6. ASSUME Good(r, {s}, c) # {} PROVE Total(w) > 0
    <3>1. PICK x \in Here(r, {s}, c) : IsGood(r, x)
      BY <2>6 DEF Good
    <3>2. PICK j \in 1..f : x = P(j)
      BY <1>3, <3>1
    <3>3. P(j)[1] = s
      BY <1>4
    <3>4. SampleWeight(r, s) = 1
      BY <3>1, <3>2, <3>3 DEF IsGood, SampleWeight
    <3>5. w[j] = 1 /\ Total(w) >= w[j]
      BY <2>4, <2>5, <3>1, <3>2, <3>4
    <3> QED BY <2>5, <3>5
  <2> QED BY <2>3, <2>5, <2>6
<1> QED BY <1>6, <1>7, <1>8

(* The buffer of baseline b once the scans S have been added: what there is  *)
(* for channel c, and what the mean is made of.                              *)
HoldsAt(r, b, S, c, buffer) ==
  /\ Lists(buffer.all[c], Samples(r, b, Here(r, S, c)))
  /\ Lists(buffer.unflagged[c], Samples(r, b, Good(r, S, c)))
  /\ buffer.weight[c] \in Nat /\ (Good(r, S, c) # {} => buffer.weight[c] > 0)
BufferHolds(r, b, S, buffer) ==
  /\ DOMAIN buffer.all = 1..AvgChannelCount(r)
  /\ \A c \in 1..AvgChannelCount(r) : HoldsAt(r, b, S, c, buffer)

(* An empty buffer holds the samples of no scan.                             *)
LEMMA ZeroHolds ==
  ASSUME NEW r, NEW b
  PROVE  BufferHolds(r, b, {}, ZeroBuffer(r))
<1>1. ASSUME NEW c PROVE Here(r, {}, c) = {} /\ Good(r, {}, c) = {}
  BY DEF Here, Good
<1>2. ASSUME NEW c \in 1..AvgChannelCount(r) PROVE HoldsAt(r, b, {}, c, ZeroBuffer(r))
  <2>1. /\ ZeroBuffer(r).all[c] = <<>> /\ ZeroBuffer(r).unflagged[c] = <<>>
        /\ ZeroBuffer(r).weight[c] = 0
    BY DEF ZeroBuffer
  <2>2. Samples(r, b, {}) = {}
    BY DEF Samples
  <2>3. Samples(r, b, Here(r, {}, c)) = {} /\ Samples(r, b, Good(r, {}, c)) = {}
    BY <1>1, <2>2
  <2>4. Lists(ZeroBuffer(r).all[c], Samples(r, b, Here(r, {}, c)))
    BY <2>1, <2>3, ListsNone
  <2>5. Lists(ZeroBuffer(r).unflagged[c], Samples(r, b, Good(r, {}, c)))
    BY <2>1, <2>3, ListsNone
  <2> QED BY <1>1, <2>1, <2>4, <2>5 DEF HoldsAt
<1>3. DOMAIN ZeroBuffer(r).all = 1..AvgChannelCount(r)
  BY DEF ZeroBuffer
<1> QED BY <1>2, <1>3 DEF BufferHolds

OneMore(S, s, O, T) == s \notin S /\ O = {s} /\ T = S \union {s}

(* A scan that is not in the buffer has none of its samples there.           *)
LEMMA OneMoreScan ==
  ASSUME NEW r, NEW b, NEW S, NEW s, NEW O, NEW T, OneMore(S, s, O, T), NEW c
  PROVE  /\ Joins(Samples(r, b, Here(r, S, c)), Samples(r, b, Here(r, O, c)),
                  Samples(r, b, Here(r, T, c)))
         /\ Joins(Samples(r, b, Good(r, S, c)), Samples(r, b, Good(r, O, c)),
                  Samples(r, b, Good(r, T, c)))
         /\ Good(r, T, c) = {} <=> Good(r, S, c) = {} /\ Good(r, O, c) = {}
<1>0. s \notin S /\ O = {s} /\ T = S \union {s}
  BY DEF OneMore
<1>1. Here(r, S \union {s}, c) = Here(r, S, c) \union Here(r, {s}, c)
  BY DEF Here
<1>2. Good(r, S \union {s}, c) = Good(r, S, c) \union Good(r, {s}, c)
  BY <1>1 DEF Good
<1>3. ASSUME NEW X, NEW Y
      PROVE  Samples(r, b, X \union Y) = Samples(r, b, X) \union Samples(r, b, Y)
  BY DEF Samples
<1>4. Samples(r, b, Here(r, S, c)) \intersect Samples(r, b, Here(r, {s}, c)) = {}
  <2> SUFFICES ASSUME NEW x \in Here(r, S, c), NEW y \in Here(r, {s}, c),
                      Sample(r, b, x) = Sample(r, b, y)
               PROVE  FALSE
    BY DEF Samples
  <2>1. x[1] \in S /\ y[1] = s
    BY DEF Here
  <2>2. x[1] = y[1]
    BY DEF Sample
  <2> QED BY <1>0, <2>1, <2>2
<1>5. ASSUME NEW U PROVE Samples(r, b, Good(r, U, c)) \subseteq Samples(r, b, Here(r, U, c))
  BY DEF Samples, Good
<1>6. Samples(r, b, Good(r, S, c)) \intersect Samples(r, b, Good(r, {s}, c)) = {}
  BY <1>4, <1>5
<1>7. /\ Samples(r, b, Here(r, T, c)) = Samples(r, b, Here(r, S, c)) \union Samples(r, b, Here(r, O, c))
      /\ Samples(r, b, Good(r, T, c)) = Samples(r, b, Good(r, S, c)) \union Samples(r, b, Good(r, O, c))
  BY <1>0, <1>1, <1>2, <1>3
<1>8. Good(r, T, c) = {} <=> Good(r, S, c) = {} /\ Good(r, O, c) = {}
  BY <1>0, <1>2
<1> QED BY <1>0, <1>4, <1>6, <1>7, <1>8 DEF Joins

(* A row that is added brings the samples of its scan, each once.            *)
LEMMA AddedHolds ==
  ASSUME NEW r \in Runs, NEW b, NEW S, NEW s \in Nat, s \notin S, NEW buffer, NEW row,
         BufferHolds(r, b, S, buffer), row.cells = BeforeAveraging(r, b, CotterCells(r, s))
  PROVE  BufferHolds(r, b, S \union {s}, Added(r, buffer, row))
<1>0. PICK T, O : T = S \union {s} /\ O = {s} /\ OneMore(S, s, O, T)
  BY DEF OneMore
<1> DEFINE g(c) == Group(row.cells, r.freqAvg, c)
           w == Added(r, buffer, row)
<1>1. /\ DOMAIN w.all = DOMAIN buffer.all
      /\ \A c \in DOMAIN buffer.all :
           /\ w.all[c] = buffer.all[c] \o SamplesOf(g(c))
           /\ w.unflagged[c] = buffer.unflagged[c] \o UnflaggedOf(g(c))
           /\ w.weight[c] = buffer.weight[c] + UnflaggedWeight(g(c))
  BY DEF Added
<1> HIDE DEF w
<1>2. ASSUME NEW c \in 1..AvgChannelCount(r) PROVE HoldsAt(r, b, T, c, w)
  <2>1. /\ Lists(SamplesOf(g(c)), Samples(r, b, Here(r, O, c)))
        /\ Lists(UnflaggedOf(g(c)), Samples(r, b, Good(r, O, c)))
        /\ UnflaggedWeight(g(c)) \in Nat
        /\ Good(r, O, c) # {} => UnflaggedWeight(g(c)) > 0
    BY <1>0, GroupAdds
  <2> HIDE DEF g
  <2>2. /\ Lists(buffer.all[c], Samples(r, b, Here(r, S, c)))
        /\ Lists(buffer.unflagged[c], Samples(r, b, Good(r, S, c)))
        /\ buffer.weight[c] \in Nat /\ (Good(r, S, c) # {} => buffer.weight[c] > 0)
        /\ c \in DOMAIN buffer.all
    BY DEF BufferHolds, HoldsAt
  <2>3. /\ w.all[c] = buffer.all[c] \o SamplesOf(g(c))
        /\ w.unflagged[c] = buffer.unflagged[c] \o UnflaggedOf(g(c))
        /\ w.weight[c] = buffer.weight[c] + UnflaggedWeight(g(c))
    BY <1>1, <2>2
  <2>4. /\ Joins(Samples(r, b, Here(r, S, c)), Samples(r, b, Here(r, O, c)),
                 Samples(r, b, Here(r, T, c)))
        /\ Joins(Samples(r, b, Good(r, S, c)), Samples(r, b, Good(r, O, c)),
                 Samples(r, b, Good(r, T, c)))
        /\ Good(r, T, c) = {} <=> Good(r, S, c) = {} /\ Good(r, O, c) = {}
    BY <1>0, OneMoreScan
  <2>5. Lists(w.all[c], Samples(r, b, Here(r, T, c)))
    BY <2>1, <2>2, <2>3, <2>4, ListsConcat
  <2>6. Lists(w.unflagged[c], Samples(r, b, Good(r, T, c)))
    BY <2>1, <2>2, <2>3, <2>4, ListsConcat
  <2>7. w.weight[c] \in Nat /\ (Good(r, T, c) # {} => w.weight[c] > 0)
    BY <2>1, <2>2, <2>3, <2>4
  <2> QED BY <2>5, <2>6, <2>7 DEF HoldsAt
<1> QED BY <1>0, <1>1, <1>2 DEF BufferHolds, w

(* A visibility: the mean of the samples that are not flagged or, flagged, of *)
(* all that there are.  Above and below the writer that corrects what was     *)
(* averaged.                                                                 *)
Used(r, S, c) == IF Good(r, S, c) = {} THEN Here(r, S, c) ELSE Good(r, S, c)
Marked(r, S, c, z) == z.flag \in BOOLEAN /\ (z.flag <=> Good(r, S, c) = {})
Weighed(z) == z.weight \in Nat /\ (~z.flag => z.weight > 0)

UpperCell(r, b, S, c, z) ==
  /\ IsCell(z) /\ Marked(r, S, c, z) /\ Weighed(z)
  /\ Lists(z.samples, Samples(r, b, Used(r, S, c)))
UpperCells(r, b, S, cells) ==
  /\ DOMAIN cells = 1..AvgChannelCount(r)
  /\ \A c \in 1..AvgChannelCount(r) : UpperCell(r, b, S, c, cells[c])

RowCell(r, b, S, c, z) ==
  /\ IsCell(z) /\ Marked(r, S, c, z)
  /\ Lists(z.samples, FinalSamples(r, b, c, Used(r, S, c)))
RowCells(r, b, S, cells) ==
  /\ DOMAIN cells = 1..AvgChannelCount(r)
  /\ \A c \in 1..AvgChannelCount(r) : RowCell(r, b, S, c, cells[c])
WeighedCells(r, cells) == \A c \in 1..AvgChannelCount(r) : Weighed(cells[c])

(* The mean is made of what the buffer holds.                                *)
LEMMA AveragedCells ==
  ASSUME NEW r, NEW b, NEW S, NEW buffer, BufferHolds(r, b, S, buffer)
  PROVE  UpperCells(r, b, S, Averaged(buffer))
<1>1. DOMAIN Averaged(buffer) = 1..AvgChannelCount(r)
  BY DEF Averaged, BufferHolds
<1>2. ASSUME NEW c \in 1..AvgChannelCount(r)
      PROVE  UpperCell(r, b, S, c, Averaged(buffer)[c])
  <2>1. /\ Lists(buffer.all[c], Samples(r, b, Here(r, S, c)))
        /\ Lists(buffer.unflagged[c], Samples(r, b, Good(r, S, c)))
        /\ buffer.weight[c] \in Nat /\ (Good(r, S, c) # {} => buffer.weight[c] > 0)
        /\ c \in DOMAIN buffer.all
    BY DEF BufferHolds, HoldsAt
  <2>2. buffer.unflagged[c] = <<>> <=> Good(r, S, c) = {}
    <3>1. buffer.unflagged[c] = <<>> <=> Samples(r, b, Good(r, S, c)) = {}
      BY <2>1, ListsEmpty
    <3>2. Samples(r, b, Good(r, S, c)) = {} <=> Good(r, S, c) = {}
      BY DEF Samples
    <3> QED BY <3>1, <3>2
  <2>3. Averaged(buffer)[c] =
          IF Good(r, S, c) = {}
          THEN [samples |-> buffer.all[c], flag |-> TRUE, weight |-> buffer.weight[c]]
          ELSE [samples |-> buffer.unflagged[c], flag |-> FALSE, weight |-> buffer.weight[c]]
    BY <2>1, <2>2 DEF Averaged
  <2> DEFINE z == Averaged(buffer)[c]
  <2>4. CASE Good(r, S, c) = {}
    <3>1. z = [samples |-> buffer.all[c], flag |-> TRUE, weight |-> buffer.weight[c]]
      BY <2>3, <2>4
    <3> HIDE DEF z
    <3>2. z.samples = buffer.all[c] /\ z.flag = TRUE /\ z.weight = buffer.weight[c] /\ IsCell(z)
      BY <3>1 DEF IsCell
    <3>3. Lists(z.samples, Samples(r, b, Used(r, S, c)))
      BY <2>1, <2>4, <3>2 DEF Used
    <3> QED BY <2>1, <2>4, <3>2, <3>3 DEF UpperCell, Marked, Weighed, z
  <2>5. CASE Good(r, S, c) # {}
    <3>1. z = [samples |-> buffer.unflagged[c], flag |-> FALSE, weight |-> buffer.weight[c]]
      BY <2>3, <2>5
    <3> HIDE DEF z
    <3>2. z.samples = buffer.unflagged[c] /\ z.flag = FALSE /\ z.weight = buffer.weight[c] /\ IsCell(z)
      BY <3>1 DEF IsCell
    <3>3. Lists(z.samples, Samples(r, b, Used(r, S, c)))
      BY <2>1, <2>5, <3>2 DEF Used
    <3> QED BY <2>1, <2>5, <3>2, <3>3 DEF UpperCell, Marked, Weighed, z
  <2> QED BY <2>4, <2>5
<1> QED BY <1>1, <1>2 DEF UpperCells

(* A list of samples is corrected sample by sample, none twice.              *)
LEMMA CorrectedLists ==
  ASSUME NEW r, NEW b, NEW c, NEW X, NEW q, Lists(q, Samples(r, b, X)), r.solutions = "after"
  PROVE  Bare(q) /\ Lists(With(q, SolPair(r, b, c - 1)), FinalSamples(r, b, c, X))
<1> DEFINE pair == SolPair(r, b, c - 1)
           Y == Samples(r, b, X)
           g == [y \in Y |-> [scan |-> y.scan, ch |-> y.ch, by |-> pair]]
<1>1. ASSUME NEW x
      PROVE  /\ Sample(r, b, x) = [scan |-> x[1], ch |-> x[2], by |-> <<>>]
             /\ FinalSample(r, b, c, x) = [scan |-> x[1], ch |-> x[2], by |-> pair]
  BY DEF Sample, FinalSample, UpperBy, FinalBy
<1>2. ASSUME NEW y \in Y
      PROVE  /\ y = [scan |-> y.scan, ch |-> y.ch, by |-> <<>>]
             /\ g[y] = [scan |-> y.scan, ch |-> y.ch, by |-> pair]
             /\ g[y].scan = y.scan /\ g[y].ch = y.ch
  <2>1. PICK x \in X : y = Sample(r, b, x)
    BY DEF Samples
  <2>2. y = [scan |-> x[1], ch |-> x[2], by |-> <<>>]
    BY <1>1, <2>1
  <2> HIDE DEF pair
  <2> QED BY <2>2
<1>3. DOMAIN g = Y
  OBVIOUS
<1>4. ASSUME NEW x \in X
      PROVE  Sample(r, b, x) \in Y /\ g[Sample(r, b, x)] = FinalSample(r, b, c, x)
  <2>1. Sample(r, b, x) \in Y
    BY DEF Samples
  <2> HIDE DEF g, Y, pair
  <2>2. g[Sample(r, b, x)] = [scan |-> Sample(r, b, x).scan, ch |-> Sample(r, b, x).ch, by |-> pair]
    BY <1>2, <2>1
  <2>3. Sample(r, b, x).scan = x[1] /\ Sample(r, b, x).ch = x[2]
    BY DEF Sample
  <2> QED BY <1>1, <2>1, <2>2, <2>3
<1>5. {g[y] : y \in Y} = FinalSamples(r, b, c, X)
  <2>1. \A y \in Y : \E x \in X : y = Sample(r, b, x)
    BY DEF Samples
  <2> HIDE DEF g, Y
  <2> QED BY <1>4, <2>1 DEF FinalSamples
<1> HIDE DEF g, Y, pair
<1>6. ASSUME NEW x \in Y, NEW y \in Y, g[x] = g[y] PROVE x = y
  <2>1. g[x].scan = x.scan /\ g[x].ch = x.ch /\ g[y].scan = y.scan /\ g[y].ch = y.ch
    BY <1>2
  <2>2. x.scan = y.scan /\ x.ch = y.ch
    BY <1>6, <2>1
  <2> QED BY <1>2, <2>2
<1>7. Lists(q, Y)
  BY DEF Y
<1>8. Lists([k \in DOMAIN q |-> g[q[k]]], {g[y] : y \in Y})
  BY <1>3, <1>6, <1>7, ListsMap
<1>9. \A k \in DOMAIN q : q[k] \in Y
  <2>1. q \in Seq(Y) /\ DOMAIN q = 1..Len(q)
    BY <1>7, LenProperties DEF Lists
  <2> QED BY <2>1, ElementOfSeq
<1>10. [k \in DOMAIN q |-> g[q[k]]] = With(q, pair)
  BY <1>2, <1>9 DEF With
<1>11. Bare(q)
  BY <1>2, <1>9 DEF Bare
<1> QED BY <1>5, <1>8, <1>10, <1>11 DEF pair

(* What the writers below the averaging make of a row.                       *)
LEMMA AfterAveragingCells ==
  ASSUME NEW r, NEW b, NEW S, NEW cells, UpperCells(r, b, S, cells)
  PROVE  /\ RowCells(r, b, S, AfterAveraging(r, b, cells))
         /\ WeighedCells(r, AfterAveraging(r, b, cells))
<1> DEFINE below == AfterAveraging(r, b, cells)
<1>0. /\ DOMAIN cells = 1..AvgChannelCount(r)
      /\ \A c \in 1..AvgChannelCount(r) :
           /\ IsCell(cells[c]) /\ Marked(r, S, c, cells[c]) /\ Weighed(cells[c])
           /\ Lists(cells[c].samples, Samples(r, b, Used(r, S, c)))
  BY DEF UpperCells, UpperCell
<1>1. CASE r.solutions = "after"
  <2>1. below = CorrectedBy(r, b, cells)
    BY <1>1 DEF AfterAveraging
  <2>2. DOMAIN below = 1..AvgChannelCount(r)
    BY <1>0, <2>1 DEF CorrectedBy
  <2> HIDE DEF below
  <2>3. ASSUME NEW c \in 1..AvgChannelCount(r)
        PROVE  RowCell(r, b, S, c, below[c]) /\ Weighed(below[c])
    <3>1. /\ Bare(cells[c].samples)
          /\ Lists(With(cells[c].samples, SolPair(r, b, c - 1)), FinalSamples(r, b, c, Used(r, S, c)))
      BY <1>0, <1>1, CorrectedLists
    <3>2. /\ below[c].samples = With(cells[c].samples, SolPair(r, b, c - 1))
          /\ below[c].flag = cells[c].flag /\ below[c].weight = cells[c].weight
          /\ IsCell(below[c])
      <4>1. c \in DOMAIN cells /\ IsCell(cells[c])
        BY <1>0
      <4>2. /\ CorrectedBy(r, b, cells)[c].samples = With(cells[c].samples, SolPair(r, b, c - 1))
            /\ CorrectedBy(r, b, cells)[c].flag = cells[c].flag
            /\ CorrectedBy(r, b, cells)[c].weight = cells[c].weight
            /\ IsCell(CorrectedBy(r, b, cells)[c])
        BY <3>1, <4>1, Corrected
      <4> QED BY <2>1, <4>2
    <3>3. Marked(r, S, c, below[c]) /\ Weighed(below[c])
      BY <1>0, <3>2 DEF Marked, Weighed
    <3> QED BY <3>1, <3>2, <3>3 DEF RowCell
  <2> QED BY <2>2, <2>3 DEF RowCells, WeighedCells, below
<1>2. CASE r.solutions # "after"
  <2>1. below = cells
    BY <1>2 DEF AfterAveraging
  <2> HIDE DEF below
  <2>2. ASSUME NEW c \in 1..AvgChannelCount(r) PROVE RowCell(r, b, S, c, below[c])
    <3>1. \A x : FinalSample(r, b, c, x) = Sample(r, b, x)
      BY <1>2 DEF FinalSample, Sample, FinalBy
    <3>2. FinalSamples(r, b, c, Used(r, S, c)) = Samples(r, b, Used(r, S, c))
      BY <3>1 DEF FinalSamples, Samples
    <3> QED BY <1>0, <2>1, <3>2 DEF RowCell
  <2> QED BY <1>0, <2>1, <2>2 DEF RowCells, WeighedCells, below
<1> QED BY <1>1, <1>2

(* Without averaging, Cotter's row of scan s is one below the averaging.     *)
LEMMA UnaveragedCells ==
  ASSUME NEW r \in Runs, ~Averaging(r), NEW b, NEW s \in Nat
  PROVE  UpperCells(r, b, {s}, BeforeAveraging(r, b, CotterCells(r, s)))
<1> DEFINE cells == BeforeAveraging(r, b, CotterCells(r, s))
<1>1. r.freqAvg = 1
  BY DEF Averaging
<1>2. PICK B \in Nat : B = BandChannels(r) /\ AvgChannelCount(r) = B
  <2>1. PICK B \in Nat : B = BandChannels(r)
    BY RunNumbers
  <2>2. B \div 1 = B
    <3>1. PICK q \in Nat, z \in 0..(1 - 1) : B \div 1 = q /\ B = q * 1 + z
      BY Division
    <3>2. z = 0 /\ q * 1 = q
      OBVIOUS
    <3> QED BY <3>1, <3>2
  <2> QED BY <1>1, <2>1, <2>2 DEF AvgChannelCount
<1>3. DOMAIN cells = 1..B /\ \A i \in 1..B : CotterCellIs(r, b, s, i, cells[i])
  BY <1>2, CotterCellsAre
<1> HIDE DEF cells
<1>4. ASSUME NEW c \in 1..B PROVE UpperCell(r, b, {s}, c, cells[c])
  <2> DEFINE x == <<s, c - 1>>
             z == cells[c]
  <2>1. /\ IsCell(z) /\ z.samples = <<Sample(r, b, x)>>
        /\ z.flag \in BOOLEAN /\ (z.flag <=> ~IsGood(r, x))
        /\ z.weight = SampleWeight(r, s)
    BY <1>3 DEF CotterCellIs
  <2>2. GroupChannels(r, c) = {c - 1}
    <3>1. (c - 1) * 1 = c - 1 /\ c * 1 - 1 = c - 1
      OBVIOUS
    <3> QED BY <1>1, <3>1 DEF GroupChannels
  <2>3. Here(r, {s}, c) = {x}
    BY <2>2 DEF Here
  <2>4. x[1] = s
    OBVIOUS
  <2> HIDE DEF x, z
  <2>5. Good(r, {s}, c) = IF IsGood(r, x) THEN {x} ELSE {}
    BY <2>3 DEF Good
  <2>6. Used(r, {s}, c) = {x}
    BY <2>3, <2>5 DEF Used
  <2>7. Samples(r, b, {x}) = {Sample(r, b, x)}
    BY DEF Samples
  <2>8. Lists(z.samples, Samples(r, b, Used(r, {s}, c)))
    BY <2>1, <2>6, <2>7, ListsOne
  <2>9. Marked(r, {s}, c, z)
    BY <2>1, <2>5 DEF Marked
  <2>10. Weighed(z)
    BY <2>1, <2>4 DEF Weighed, SampleWeight, IsGood
  <2> QED BY <2>1, <2>8, <2>9, <2>10 DEF UpperCell, z
<1> QED BY <1>2, <1>3, <1>4 DEF UpperCells, cells

(* The file's cells hold what the row's do: the weight that FitsWriter gives  *)
(* a visibility is positive if and only if it is not flagged.                *)
LEMMA FileCells ==
  ASSUME NEW r, NEW b, NEW S, NEW cells, RowCells(r, b, S, cells), WeighedCells(r, cells)
  PROVE  RowCells(r, b, S, [c \in DOMAIN cells |-> CellInFile(r, cells[c])])
<1> DEFINE w == [c \in DOMAIN cells |-> CellInFile(r, cells[c])]
<1>1. DOMAIN cells = 1..AvgChannelCount(r)
  BY DEF RowCells
<1>2. DOMAIN w = 1..AvgChannelCount(r)
      /\ \A c \in 1..AvgChannelCount(r) : w[c] = CellInFile(r, cells[c])
  BY <1>1
<1> HIDE DEF w
<1>3. ASSUME NEW c \in 1..AvgChannelCount(r) PROVE RowCell(r, b, S, c, CellInFile(r, cells[c]))
  <2>1. /\ IsCell(cells[c]) /\ Marked(r, S, c, cells[c]) /\ Weighed(cells[c])
        /\ Lists(cells[c].samples, FinalSamples(r, b, c, Used(r, S, c)))
    BY DEF RowCells, RowCell, WeighedCells
  <2>2. CASE r.output = "ms"
    <3>1. CellInFile(r, cells[c]) = cells[c]
      BY <2>2 DEF CellInFile
    <3> QED BY <2>1, <3>1 DEF RowCell
  <2>3. CASE r.output # "ms"
    <3>1. PICK z : z = cells[c]
      OBVIOUS
    <3>2. PICK v, l : v = FitsWeight(z) /\ l \in BOOLEAN /\ (l <=> v <= 0)
      OBVIOUS
    <3>3. l <=> z.flag
      BY <2>1, <3>1, <3>2 DEF Weighed, Marked, FitsWeight
    <3>4. CellInFile(r, z) = [samples |-> z.samples, flag |-> FitsWeight(z) <= 0, weight |-> v]
      BY <2>3, <3>2 DEF CellInFile
    <3>5. CellInFile(r, z) = [samples |-> z.samples, flag |-> l, weight |-> v]
      BY <3>2, <3>4
    <3>6. PICK x : x = CellInFile(r, z)
      OBVIOUS
    <3>7. x.samples = z.samples /\ x.flag = l /\ x.weight = v /\ IsCell(x)
      BY <3>5, <3>6 DEF IsCell
    <3>8. Marked(r, S, c, x)
      BY <2>1, <3>1, <3>2, <3>3, <3>7 DEF Marked
    <3> QED BY <2>1, <3>1, <3>6, <3>7, <3>8 DEF RowCell
  <2> QED BY <2>2, <2>3
<1> QED BY <1>2, <1>3 DEF RowCells, w

-----------------------------------------------------------------------------
(* What the rows hold wherever they are, and what was announced of them.     *)
RowHolds(r, row) == RowCells(r, row.baseline, ToSet(row.scans), row.cells)

AnnouncedIs ==
  /\ pc # "setup" => bandInfo = <<SinkBandInfo(run)>>
  /\ header # <<>> => header = <<SinkBandInfo(run)>>
  /\ pc \notin {"setup", "refused"} => ~IncompatibleSolutions(run)
OuterHolds ==
  outer # <<>> => outer[1].cells =
    BeforeAveraging(run, outer[1].baseline, CotterCells(run, outer[1].scans[1]))
SumsHold ==
  Averaging(run) /\ pc # "setup" =>
    \A b \in Baselines : BufferHolds(run, b, ToSet(sums[b].scans), sums[b])
InnerHolds ==
  inner # <<>> => RowHolds(run, inner[1]) /\ WeighedCells(run, inner[1].cells)
TableHolds == \A i \in 1..Len(table) : RowHolds(run, table[i])

CInv == AnnouncedIs /\ OuterHolds /\ SumsHold /\ InnerHolds /\ TableHolds

LEMMA NoScans == ToSet(<<>>) = {}
BY DEF ToSet

LEMMA OneScan ==
  ASSUME NEW s
  PROVE  ToSet(<<s>>) = {s}
BY DEF ToSet

(* A scan that is appended to a list.                                        *)
LEMMA ScansAndOne ==
  ASSUME NEW p \in Seq(Nat), NEW s \in Nat, NEW w, w = p \o <<s>>
  PROVE  ToSet(w) = ToSet(p) \union {s}
<1>1. PICK n \in Nat : n = Len(p)
  BY LenProperties
<1>2. PICK one : one = <<s>>
  OBVIOUS
<1>3. one \in Seq(Nat) /\ Len(one) = 1 /\ one[1] = s
  BY <1>2
<1>4. /\ w \in Seq(Nat) /\ Len(w) = n + 1
      /\ \A i \in 1..(n + 1) : w[i] = IF i <= n THEN p[i] ELSE one[i - n]
  BY <1>1, <1>2, <1>3, ConcatProperties
<1>5. DOMAIN w = 1..(n + 1) /\ DOMAIN p = 1..n
  BY <1>1, <1>4, LenProperties
<1>6. \A i \in 1..n : i \in 1..(n + 1) /\ w[i] = p[i]
  BY <1>4
<1>7. n + 1 \in 1..(n + 1) /\ w[n + 1] = s
  <2>1. n + 1 - n = 1 /\ ~(n + 1 <= n)
    OBVIOUS
  <2> QED BY <1>3, <1>4, <2>1
<1>8. ASSUME NEW x \in ToSet(w) PROVE x \in ToSet(p) \union {s}
  <2>1. PICK i \in 1..(n + 1) : x = w[i]
    BY <1>5 DEF ToSet
  <2>2. i \in 1..n \/ i = n + 1
    OBVIOUS
  <2> QED BY <1>5, <1>6, <1>7, <2>1, <2>2 DEF ToSet
<1>9. ASSUME NEW x \in ToSet(p) PROVE x \in ToSet(w)
  BY <1>5, <1>6 DEF ToSet
<1>10. s \in ToSet(w)
  BY <1>5, <1>7 DEF ToSet
<1> QED BY <1>8, <1>9, <1>10

(* The scans in a buffer are earlier than the one that is added.             *)
LEMMA SinceEarlier ==
  ASSUME NEW t \in Nat \ {0}, NEW c \in Nat
  PROVE  Since(t, c) \in Seq(Nat) /\ c \notin ToSet(Since(t, c))
<1>1. PICK q \in Nat, z \in 0..(t - 1) : c \div t = q /\ c % t = z /\ c = q * t + z
  BY Division
<1>2. PICK p \in Nat : p = q * t
  BY <1>1
<1>3. Since(t, c) = [i \in 1..z |-> p + i - 1]
  BY <1>1, <1>2 DEF Since
<1>4. \A i \in 1..z : p + i - 1 \in Nat /\ p + i - 1 < c
  BY <1>1, <1>2
<1>5. Since(t, c) \in [1..z -> Nat]
  BY <1>3, <1>4
<1>6. DOMAIN Since(t, c) = 1..z /\ \A i \in 1..z : Since(t, c)[i] # c
  BY <1>3, <1>4
<1> QED BY <1>5, <1>6 DEF ToSet

(* Which steps change what.                                                  *)
LEMMA Changes ==
  ASSUME [Next]_vars
  PROVE  /\ run' = run
         /\ outer' = outer \/ WriteRow \/ Accumulate \/ Emit
         /\ (sums' = sums /\ (pc = "setup" <=> pc' = "setup")) \/ SetUp \/ Accumulate \/ Emit
         /\ inner' = inner \/ WriteRow \/ Emit \/ PutRow
         /\ table' = table \/ PutRow
<1>1. CASE SetUp
  BY <1>1 DEF SetUp
<1>2. CASE AddRows
  BY <1>2 DEF AddRows
<1>3. CASE WriteRow
  BY <1>3 DEF WriteRow, fileVars
<1>4. CASE ScanWritten
  BY <1>4 DEF ScanWritten, fileVars
<1>5. CASE WriteAlignmentScan
  BY <1>5 DEF WriteAlignmentScan, fileVars
<1>6. CASE Aligned
  BY <1>6 DEF Aligned, fileVars
<1>7. CASE Destroy
  BY <1>7 DEF Destroy
<1>8. CASE Accumulate
  BY <1>8 DEF Accumulate, clientVars, fileVars
<1>9. CASE Emit
  BY <1>9 DEF Emit, clientVars, fileVars
<1>10. CASE PutRow
  BY <1>10 DEF PutRow, clientVars
<1>11. CASE UNCHANGED vars
  BY <1>11 DEF vars, clientVars, fileVars
<1> QED BY <1>1, <1>2, <1>3, <1>4, <1>5, <1>6, <1>7, <1>8, <1>9, <1>10, <1>11
        DEF Next, Client, OuterThread, Terminated

(* CInv is inductive, with IInv: one lemma for each of its parts.            *)
LEMMA AnnouncedSteps ==
  ASSUME AnnouncedIs, [Next]_vars
  PROVE  AnnouncedIs'
<1>1. CASE SetUp
  <2>1. /\ bandInfo' = <<SinkBandInfo(run)>> /\ header' = header /\ run' = run
        /\ pc' = IF IncompatibleSolutions(run) THEN "refused"
                 ELSE IF run.skipWriting THEN "ask" ELSE "rows"
    BY <1>1 DEF SetUp
  <2> QED BY <2>1 DEF AnnouncedIs
<1>2. CASE AddRows
  <2>1. /\ pc = "rows" /\ pc' = pc /\ run' = run /\ bandInfo' = bandInfo
        /\ header' = header \/ header' = Initialized
    BY <1>2 DEF AddRows, FileAddRows
  <2> QED BY <2>1 DEF AnnouncedIs, Initialized
<1>3. CASE Destroy
  <2>1. /\ pc = "closing" /\ pc' = "destroyed" /\ run' = run /\ bandInfo' = bandInfo
        /\ header' = header \/ header' = Initialized
    BY <1>3 DEF Destroy, FileClosed
  <2> QED BY <2>1 DEF AnnouncedIs, Initialized
<1>4. ASSUME run' = run, bandInfo' = bandInfo, header' = header,
             pc' = pc \/ (pc \notin {"setup", "refused"} /\ pc' \notin {"setup", "refused"})
      PROVE  AnnouncedIs'
  BY <1>4 DEF AnnouncedIs
<1>5. CASE WriteRow
  BY <1>4, <1>5 DEF WriteRow, fileVars
<1>6. CASE ScanWritten
  BY <1>4, <1>6 DEF ScanWritten, fileVars
<1>7. CASE WriteAlignmentScan
  BY <1>4, <1>7 DEF WriteAlignmentScan, fileVars
<1>8. CASE Aligned
  BY <1>4, <1>8 DEF Aligned, fileVars
<1>9. CASE Accumulate
  BY <1>4, <1>9 DEF Accumulate, clientVars, fileVars
<1>10. CASE Emit
  BY <1>4, <1>10 DEF Emit, clientVars, fileVars
<1>11. CASE PutRow
  BY <1>4, <1>11 DEF PutRow, clientVars
<1>12. CASE UNCHANGED vars
  BY <1>4, <1>12 DEF vars, clientVars, fileVars
<1> QED BY <1>1, <1>2, <1>3, <1>5, <1>6, <1>7, <1>8, <1>9, <1>10, <1>11, <1>12
        DEF Next, Client, OuterThread, Terminated

LEMMA OuterHoldsSteps ==
  ASSUME OuterHolds, [Next]_vars
  PROVE  OuterHolds'
<1>0. run' = run /\ (outer' = outer \/ WriteRow \/ Accumulate \/ Emit)
  BY Changes
<1>1. CASE outer' = outer
  BY <1>0, <1>1 DEF OuterHolds
<1>2. CASE WriteRow
  <2>1. outer' = outer \/ outer' = <<CotterRow>>
    BY <1>2 DEF WriteRow
  <2>2. PICK r, b, s, row : r = run /\ b = OutputOrder[next + 1] /\ s = scan /\ row = CotterRow
    OBVIOUS
  <2>3. row = [baseline |-> b, scans |-> <<s>>, cells |-> BeforeAveraging(r, b, CotterCells(r, s))]
    BY <2>2 DEF CotterRow
  <2>4. row.cells = BeforeAveraging(r, row.baseline, CotterCells(r, row.scans[1]))
    BY <2>3
  <2>5. CASE outer' = <<row>>
    <3>1. outer'[1] = row
      BY <2>5
    <3> QED BY <1>0, <2>2, <2>4, <3>1 DEF OuterHolds
  <2> QED BY <1>1, <2>1, <2>2, <2>5
<1>3. CASE Accumulate
  <2>1. outer' = outer \/ outer' = <<>>
    BY <1>3 DEF Accumulate
  <2> QED BY <1>1, <2>1 DEF OuterHolds
<1>4. CASE Emit
  <2>1. outer' = <<>>
    BY <1>4 DEF Emit
  <2> QED BY <2>1 DEF OuterHolds
<1> QED BY <1>0, <1>1, <1>2, <1>3, <1>4

(* The row that the outer thread handles: whose buffer it is for, and that   *)
(* its scan is not in there.                                                 *)
LEMMA HandledRow ==
  ASSUME ClientIs, OuterIs, SumsAre, OuterHolds, outer # <<>>
  PROVE  /\ run \in Runs /\ pc # "setup" /\ Averaging(run) /\ DOMAIN sums = Baselines
         /\ outer[1].baseline \in Baselines
         /\ ~emitting =>
              \E s \in Nat :
                /\ outer[1].scans = <<s>>
                /\ sums[outer[1].baseline].scans \in Seq(Nat)
                /\ s \notin ToSet(sums[outer[1].baseline].scans)
                /\ outer[1].cells = BeforeAveraging(run, outer[1].baseline, CotterCells(run, s))
<1>1. PICK t \in Nat \ {0}, n \in Nat, c \in Nat : t = run.timeAvg /\ n = N /\ c = HandledScan
  BY OuterFacts
<1>2. PICK h \in 0..(n - 1) : h = HandledRows /\ outer[1].baseline = OutputOrder[h + 1]
  BY <1>1, OuterFacts
<1>3. outer[1].scans = <<c>> /\ pc # "setup" /\ Averaging(run)
  BY <1>1, OuterFacts
<1>4. h + 1 \in 1..n /\ ~(h + 1 <= h)
  OBVIOUS
<1>5. outer[1].baseline \in Baselines
  BY <1>1, <1>2, <1>4, OrderIs DEF OutputBaselines
<1>6. DOMAIN sums = Baselines /\ sums[OutputOrder[h + 1]].scans = SumOf(h + 1)
  BY <1>1, <1>3, <1>4 DEF SumsAre
<1>7. ASSUME ~emitting PROVE SumOf(h + 1) = Since(t, c)
  BY <1>1, <1>2, <1>4, <1>7 DEF SumOf
<1>8. Since(t, c) \in Seq(Nat) /\ c \notin ToSet(Since(t, c))
  BY SinceEarlier
<1>9. outer[1].cells = BeforeAveraging(run, outer[1].baseline, CotterCells(run, c))
  <2>1. outer[1].scans[1] = c
    BY <1>3
  <2> QED BY <2>1 DEF OuterHolds
<1> QED BY <1>2, <1>3, <1>5, <1>6, <1>7, <1>8, <1>9 DEF ClientIs

LEMMA SumsHoldSteps ==
  ASSUME ClientIs, OuterIs, SumsAre, OuterHolds, SumsHold, [Next]_vars
  PROVE  SumsHold'
<1>0. run' = run /\ Baselines' = Baselines
      /\ ((sums' = sums /\ (pc = "setup" <=> pc' = "setup")) \/ SetUp \/ Accumulate \/ Emit)
  BY Changes
<1>1. CASE sums' = sums /\ (pc = "setup" <=> pc' = "setup")
  BY <1>0, <1>1 DEF SumsHold
<1>2. CASE SetUp
  <2> SUFFICES ASSUME Averaging(run)', NEW b \in Baselines
               PROVE  BufferHolds(run', b, ToSet(sums'[b].scans), sums'[b])
    BY <1>0 DEF SumsHold
  <2>1. PICK r : r = run
    OBVIOUS
  <2>2. sums' = [a \in Baselines |-> ZeroBuffer(r)]
    BY <1>0, <1>2, <2>1 DEF SetUp, Averaging
  <2>3. sums'[b] = ZeroBuffer(r)
    BY <2>2
  <2>4. ZeroBuffer(r).scans = <<>>
    BY DEF ZeroBuffer
  <2> QED BY <1>0, <2>1, <2>3, <2>4, NoScans, ZeroHolds
<1>3. ASSUME outer # <<>>, NEW r, r = run, NEW a, a = outer[1].baseline, NEW new,
             sums' = [sums EXCEPT ![a] = new], BufferHolds(r, a, ToSet(new.scans), new)
      PROVE  SumsHold'
  <2> SUFFICES ASSUME NEW b \in Baselines
               PROVE  BufferHolds(run', b, ToSet(sums'[b].scans), sums'[b])
    BY <1>0 DEF SumsHold
  <2>1. a \in Baselines /\ DOMAIN sums = Baselines /\ Averaging(run) /\ pc # "setup"
    BY <1>3, HandledRow
  <2>2. CASE b = a
    BY <1>0, <1>3, <2>1, <2>2
  <2>3. CASE b # a
    <3>1. sums'[b] = sums[b]
      BY <1>3, <2>1, <2>3
    <3> QED BY <1>0, <2>1, <3>1 DEF SumsHold
  <2> QED BY <2>2, <2>3
<1>4. CASE Accumulate
  <2>1. PICK r, row, a, buffer, new :
          /\ r = run /\ row = outer[1] /\ a = row.baseline /\ buffer = sums[a]
          /\ new = Added(r, buffer, row)
    OBVIOUS
  <2>2. outer # <<>> /\ ~emitting /\ sums' = [sums EXCEPT ![a] = new]
    BY <1>4, <2>1 DEF Accumulate
  <2>3. /\ r \in Runs /\ a \in Baselines /\ Averaging(run) /\ pc # "setup"
        /\ \E s \in Nat : /\ row.scans = <<s>> /\ buffer.scans \in Seq(Nat)
                          /\ s \notin ToSet(buffer.scans)
                          /\ row.cells = BeforeAveraging(r, a, CotterCells(r, s))
    BY <2>1, <2>2, HandledRow
  <2>4. PICK s \in Nat : /\ row.scans = <<s>> /\ buffer.scans \in Seq(Nat)
                         /\ s \notin ToSet(buffer.scans)
                         /\ row.cells = BeforeAveraging(r, a, CotterCells(r, s))
    BY <2>3
  <2>5. PICK S : S = ToSet(buffer.scans)
    OBVIOUS
  <2>6. BufferHolds(r, a, S, buffer)
    BY <2>1, <2>3, <2>5 DEF SumsHold
  <2>7. BufferHolds(r, a, S \union {s}, new)
    BY <2>1, <2>3, <2>4, <2>5, <2>6, AddedHolds
  <2>8. ToSet(new.scans) = S \union {s}
    <3>1. new.scans = buffer.scans \o <<s>>
      <4>1. Added(r, buffer, row).scans = buffer.scans \o row.scans
        BY AddedScans
      <4> QED BY <2>1, <2>4, <4>1
    <3> QED BY <2>4, <2>5, <3>1, ScansAndOne
  <2>9. BufferHolds(r, a, ToSet(new.scans), new)
    BY <2>7, <2>8
  <2> QED BY <1>3, <2>1, <2>2, <2>9
<1>5. CASE Emit
  <2>1. PICK r, a, new : r = run /\ a = outer[1].baseline /\ new = ZeroBuffer(r)
    OBVIOUS
  <2>2. emitting /\ sums' = [sums EXCEPT ![a] = new]
    BY <1>5, <2>1 DEF Emit
  <2>3. outer # <<>>
    BY <2>2 DEF OuterIs
  <2>4. new.scans = <<>>
    BY <2>1 DEF ZeroBuffer
  <2>5. BufferHolds(r, a, ToSet(new.scans), new)
    BY <2>1, <2>4, NoScans, ZeroHolds
  <2> QED BY <1>3, <2>1, <2>2, <2>3, <2>5
<1> QED BY <1>0, <1>1, <1>2, <1>4, <1>5

LEMMA InnerHoldsSteps ==
  ASSUME ClientIs, OuterIs, SumsAre, OuterHolds, SumsHold, InnerHolds, [Next]_vars
  PROVE  InnerHolds'
<1>0. run' = run /\ (inner' = inner \/ WriteRow \/ Emit \/ PutRow)
  BY Changes
<1>1. CASE inner' = inner
  BY <1>0, <1>1 DEF InnerHolds
<1>2. ASSUME NEW r, r = run, NEW row, inner' = <<row>>, RowHolds(r, row), WeighedCells(r, row.cells)
      PROVE  InnerHolds'
  <2>1. inner'[1] = row
    BY <1>2
  <2> QED BY <1>0, <1>2, <2>1 DEF InnerHolds
<1>3. CASE WriteRow
  <2>1. CASE Averaging(run)
    BY <1>1, <1>3, <2>1 DEF WriteRow
  <2>2. CASE ~Averaging(run)
    <3>1. PICK r, b, s, top, cells, row :
            /\ r = run /\ b = OutputOrder[next + 1] /\ s = scan /\ top = CotterRow
            /\ cells = AfterAveraging(r, top.baseline, top.cells)
            /\ row = WithCells(top, cells)
      OBVIOUS
    <3>2. r \in Runs /\ s \in Nat /\ ~Averaging(r)
      BY <2>2, <3>1 DEF ClientIs
    <3>3. top = [baseline |-> b, scans |-> <<s>>, cells |-> BeforeAveraging(r, b, CotterCells(r, s))]
      BY <3>1 DEF CotterRow
    <3>4. /\ top.baseline = b /\ top.scans = <<s>>
          /\ top.cells = BeforeAveraging(r, b, CotterCells(r, s))
      BY <3>3
    <3>5. row.baseline = b /\ row.scans = <<s>> /\ row.cells = cells
      BY <3>1, <3>4 DEF WithCells
    <3>6. inner' = <<row>>
      BY <1>3, <2>2, <3>1 DEF WriteRow
    <3>7. UpperCells(r, b, {s}, top.cells)
      BY <3>2, <3>4, UnaveragedCells
    <3>8. RowCells(r, b, {s}, cells) /\ WeighedCells(r, cells)
      BY <3>1, <3>4, <3>7, AfterAveragingCells
    <3>9. RowHolds(r, row) /\ WeighedCells(r, row.cells)
      BY <3>5, <3>8, OneScan DEF RowHolds
    <3> QED BY <1>2, <3>1, <3>6, <3>9
  <2> QED BY <2>1, <2>2
<1>4. CASE Emit
  <2>1. PICK r, b, buffer, cells, row :
          /\ r = run /\ b = outer[1].baseline /\ buffer = sums[b]
          /\ cells = AfterAveraging(r, b, Averaged(buffer)) /\ row = AveragedRow
    OBVIOUS
  <2>2. row.baseline = b /\ row.scans = buffer.scans /\ row.cells = cells
    BY <2>1 DEF AveragedRow
  <2>3. emitting /\ inner' = <<row>>
    BY <1>4, <2>1 DEF Emit
  <2>4. outer # <<>>
    BY <2>3 DEF OuterIs
  <2>5. b \in Baselines /\ Averaging(r) /\ pc # "setup"
    BY <2>1, <2>4, HandledRow
  <2>6. BufferHolds(r, b, ToSet(buffer.scans), buffer)
    BY <2>1, <2>5 DEF SumsHold
  <2>7. UpperCells(r, b, ToSet(buffer.scans), Averaged(buffer))
    BY <2>6, AveragedCells
  <2>8. RowCells(r, b, ToSet(buffer.scans), cells) /\ WeighedCells(r, cells)
    BY <2>1, <2>7, AfterAveragingCells
  <2>9. RowHolds(r, row) /\ WeighedCells(r, row.cells)
    BY <2>2, <2>8 DEF RowHolds
  <2> QED BY <1>2, <2>1, <2>3, <2>9
<1>5. CASE PutRow
  <2>1. inner' = <<>>
    BY <1>5 DEF PutRow
  <2> QED BY <2>1 DEF InnerHolds
<1> QED BY <1>0, <1>1, <1>3, <1>4, <1>5

LEMMA TableHoldsSteps ==
  ASSUME RowsAre, InnerHolds, TableHolds, [Next]_vars
  PROVE  TableHolds'
<1>0. run' = run /\ (table' = table \/ PutRow)
  BY Changes
<1>1. CASE table' = table
  BY <1>0, <1>1 DEF TableHolds
<1>2. CASE PutRow
  <2>1. PICK r, from, cells, row :
          /\ r = run /\ from = inner[1]
          /\ cells = [c \in DOMAIN from.cells |-> CellInFile(r, from.cells[c])]
          /\ row = WithCells(from, cells)
    OBVIOUS
  <2>2. inner # <<>> /\ table' = Append(table, row)
    BY <1>2, <2>1 DEF PutRow
  <2>3. row.baseline = from.baseline /\ row.scans = from.scans /\ row.cells = cells
    BY <2>1 DEF WithCells
  <2>4. RowHolds(r, from) /\ WeighedCells(r, from.cells)
    BY <2>1, <2>2 DEF InnerHolds
  <2>5. RowHolds(r, row)
    BY <2>1, <2>3, <2>4, FileCells DEF RowHolds
  <2>6. PICK n \in Nat : n = Len(table)
    BY DEF RowsAre
  <2>7. /\ Len(table') = n + 1 /\ table'[n + 1] = row
        /\ \A i \in 1..n : table'[i] = table[i]
    BY <2>2, <2>6, AppendIs DEF RowsAre
  <2>8. ASSUME NEW i \in 1..(n + 1) PROVE RowHolds(r, table'[i])
    <3>1. CASE i \in 1..n
      BY <2>1, <2>6, <2>7, <3>1 DEF TableHolds
    <3>2. CASE i = n + 1
      BY <2>5, <2>7, <3>2
    <3> QED BY <3>1, <3>2
  <2> QED BY <1>0, <2>1, <2>7, <2>8 DEF TableHolds
<1> QED BY <1>0, <1>1, <1>2

(* In every state the rows hold, wherever they are, what was recorded.       *)
LEMMA ContentsInvariant == Spec => [](IInv /\ CInv)
<1>1. Init => CInv
  <2> SUFFICES ASSUME Init PROVE CInv
    OBVIOUS
  <2>1. pc = "setup" /\ header = <<>> /\ outer = <<>> /\ inner = <<>> /\ table = <<>>
    BY DEF Init
  <2>2. Len(table) = 0
    BY <2>1
  <2> QED BY <2>1, <2>2 DEF CInv, AnnouncedIs, OuterHolds, SumsHold, InnerHolds, TableHolds
<1>2. IInv /\ CInv /\ [Next]_vars => CInv'
  <2> SUFFICES ASSUME IInv, CInv, [Next]_vars PROVE CInv'
    OBVIOUS
  <2>1. ClientIs /\ OuterIs /\ SumsAre /\ RowsAre
    BY DEF IInv
  <2>2. AnnouncedIs /\ OuterHolds /\ SumsHold /\ InnerHolds /\ TableHolds
    BY DEF CInv
  <2>3. AnnouncedIs'
    BY <2>2, AnnouncedSteps
  <2>4. OuterHolds'
    BY <2>2, OuterHoldsSteps
  <2>5. SumsHold'
    BY <2>1, <2>2, SumsHoldSteps
  <2>6. InnerHolds'
    BY <2>1, <2>2, InnerHoldsSteps
  <2>7. TableHolds'
    BY <2>1, <2>2, TableHoldsSteps
  <2> QED BY <2>3, <2>4, <2>5, <2>6, <2>7 DEF CInv
<1>3. Spec => []IInv
  BY Invariant
<1> QED BY <1>1, <1>2, <1>3, PTL DEF Spec

-----------------------------------------------------------------------------
(* The frequencies of the channels.                                          *)
LEMMA TotalOfSeries ==
  ASSUME NEW n \in Nat, NEW s \in [1..n -> Int], NEW a \in Int,
         \A j \in 1..n : s[j] = a + 12 * (j - 1)
  PROVE  Total(s) = n * (a + 6 * (n - 1))
<1>1. PICK t : Total(s) = t[n] /\ Adds(s, n, t)
  BY TotalIs
<1>2. /\ t[0] = 0
      /\ \A k \in 0..(n - 1) : t[k] \in Int /\ t[k + 1] = t[k] + s[k + 1]
  BY <1>1 DEF Adds
<1> DEFINE T == {m \in Nat : m <= n => t[m] = m * (a + 6 * (m - 1))}
<1>3. 0 \in T
  <2>1. 0 * (a + 6 * (0 - 1)) = 0
    OBVIOUS
  <2> QED BY <1>2, <2>1
<1>4. ASSUME NEW m \in T PROVE m + 1 \in T
  <2>1. m \in Nat /\ (m <= n => t[m] = m * (a + 6 * (m - 1)))
    OBVIOUS
  <2>2. ASSUME m + 1 <= n PROVE t[m + 1] = (m + 1) * (a + 6 * ((m + 1) - 1))
    <3>1. m \in 0..(n - 1) /\ m + 1 \in 1..n
      BY <2>1, <2>2
    <3>2. t[m + 1] = t[m] + s[m + 1] /\ s[m + 1] = a + 12 * m /\ t[m] = m * (a + 6 * (m - 1))
      BY <1>2, <2>1, <2>2, <3>1
    <3>3. m * (a + 6 * (m - 1)) = m * a + 6 * (m * m) - 6 * m
      BY <2>1
    <3>4. (m + 1) * (a + 6 * ((m + 1) - 1)) = m * a + 6 * (m * m) + a + 6 * m
      BY <2>1
    <3>5. m * a \in Int /\ m * m \in Int
      BY <2>1
    <3> QED BY <2>1, <3>2, <3>3, <3>4, <3>5
  <2> QED BY <2>1, <2>2
<1>5. n \in T
  <2>1. T \in SUBSET Nat
    OBVIOUS
  <2> HIDE DEF T
  <2> QED BY <1>3, <1>4, <2>1, Inductive
<1> QED BY <1>1, <1>5

(* The sum of n equal widths.                                                *)
LEMMA TotalOfSame ==
  ASSUME NEW n \in Nat, NEW s \in [1..n -> Int], \A j \in 1..n : s[j] = 12
  PROVE  Total(s) = 12 * n
<1>1. PICK t : Total(s) = t[n] /\ Adds(s, n, t)
  BY TotalIs
<1>2. /\ t[0] = 0
      /\ \A k \in 0..(n - 1) : t[k + 1] = t[k] + s[k + 1]
  BY <1>1 DEF Adds
<1> DEFINE T == {m \in Nat : m <= n => t[m] = 12 * m}
<1>3. 0 \in T
  BY <1>2
<1>4. ASSUME NEW m \in T PROVE m + 1 \in T
  <2>1. m \in Nat /\ (m <= n => t[m] = 12 * m)
    OBVIOUS
  <2>2. ASSUME m + 1 <= n PROVE t[m + 1] = 12 * (m + 1)
    <3>1. m \in 0..(n - 1) /\ m + 1 \in 1..n
      BY <2>1, <2>2
    <3>2. t[m + 1] = t[m] + s[m + 1] /\ s[m + 1] = 12 /\ t[m] = 12 * m
      BY <1>2, <2>1, <2>2, <3>1
    <3> QED BY <2>1, <3>2
  <2> QED BY <2>1, <2>2
<1>5. n \in T
  <2>1. T \in SUBSET Nat
    OBVIOUS
  <2> HIDE DEF T
  <2> QED BY <1>3, <1>4, <2>1, Inductive
<1> QED BY <1>1, <1>5

(* The mean frequency of the fine channels (c - 1) * f .. c * f - 1 of a band, *)
(* whose channel 0 is P fine channels above zero.                            *)
BandBase(r) == r.numbers[r.sbStart + 1] * r.chPerSb
MeanFrequency(P, f, c) == 12 * (P + (c - 1) * f) + 6 * (f - 1)

(* The first channel of the band, counted like those of the observation.     *)
LEMMA BandBaseIs ==
  ASSUME NEW r \in Runs
  PROVE  BandBase(r) \in Nat
<1>1. r.sbStart < r.sbEnd /\ r.sbEnd <= Len(r.numbers)
  BY RunAssumption
<1>2. /\ r.sbStart \in Nat /\ r.sbEnd \in Nat /\ r.chPerSb \in Nat /\ r.numbers \in Seq(Nat)
      /\ Len(r.numbers) \in Nat
  BY RunNumbers
<1>3. r.sbStart + 1 \in 1..Len(r.numbers)
  BY <1>1, <1>2
<1>4. PICK x \in Nat, p \in Nat : x = r.numbers[r.sbStart + 1] /\ p = r.chPerSb
  BY <1>2, <1>3, ElementOfSeq
<1> QED BY <1>4 DEF BandBase

(* The channels that Cotter announces for the band, before averaging.        *)
LEMMA ChannelsOfSPW ==
  ASSUME NEW r \in Runs
  PROVE  /\ DOMAIN SPW(r).channels = 1..BandChannels(r)
         /\ Len(SPW(r).channels) = BandChannels(r)
         /\ \A i \in 1..BandChannels(r) :
              /\ SPW(r).channels[i].chanFreq = 12 * (BandBase(r) + i - 1)
              /\ SPW(r).channels[i].chanWidth = 12
         /\ SPW(r).totalBandwidth = BandChannels(r) * 12
<1>1. PICK B \in Nat, P \in Nat : B = BandChannels(r) /\ P = BandBase(r)
  BY RunNumbers, BandBaseIs
<1> DEFINE channels == [i \in 1..B |-> [chanFreq |-> ChannelFrequencyHz(r, i - 1), chanWidth |-> 12]]
<1>2. SPW(r) = [channels |-> channels, totalBandwidth |-> B * 12]
  BY <1>1 DEF SPW, ChWidth
<1>3. SPW(r).channels = channels /\ SPW(r).totalBandwidth = B * 12
  <2> HIDE DEF channels
  <2> QED BY <1>2
<1>4. DOMAIN channels = 1..B /\ Len(channels) = B
  OBVIOUS
<1>5. ASSUME NEW i \in 1..B
      PROVE  channels[i].chanFreq = 12 * (P + i - 1) /\ channels[i].chanWidth = 12
  <2>1. channels[i] = [chanFreq |-> ChannelFrequencyHz(r, i - 1), chanWidth |-> 12]
    OBVIOUS
  <2>2. ChannelFrequencyHz(r, i - 1) = (P + (i - 1)) * 12
    BY <1>1 DEF ChannelFrequencyHz, BandBase, ChWidth
  <2>3. (P + (i - 1)) * 12 = 12 * (P + i - 1)
    OBVIOUS
  <2> HIDE DEF channels
  <2> QED BY <2>1, <2>2, <2>3
<1> HIDE DEF channels
<1> QED BY <1>1, <1>3, <1>4, <1>5

(* What the file is told of the averaged channels: each has the mean of the  *)
(* frequencies of its group, and their width.                                *)
LEMMA SinkChannels ==
  ASSUME NEW r \in Runs, NEW info, info = SinkBandInfo(r)
  PROVE  /\ DOMAIN info.channels = 1..AvgChannelCount(r)
         /\ Len(info.channels) = AvgChannelCount(r)
         /\ \A c \in 1..AvgChannelCount(r) :
              /\ info.channels[c].chanFreq = MeanFrequency(BandBase(r), r.freqAvg, c)
              /\ info.channels[c].chanWidth = 12 * r.freqAvg
         /\ info.totalBandwidth = BandChannels(r) * 12
<1>1. PICK f \in Nat \ {0}, A \in Nat, B \in Nat, P \in Nat :
        /\ f = r.freqAvg /\ A = AvgChannelCount(r) /\ B = BandChannels(r) /\ P = BandBase(r)
        /\ A = B \div f
  BY RunNumbers, BandBaseIs DEF AvgChannelCount
<1>2. PICK spw, above : spw = SPW(r) /\ above = spw.channels
  OBVIOUS
<1>3. /\ DOMAIN above = 1..B /\ Len(above) = B
      /\ \A i \in 1..B : above[i].chanFreq = 12 * (P + i - 1) /\ above[i].chanWidth = 12
      /\ spw.totalBandwidth = B * 12
  BY <1>1, <1>2, ChannelsOfSPW
<1>4. CASE ~Averaging(r)
  <2>1. info = spw
    BY <1>2, <1>4 DEF SinkBandInfo
  <2>2. f = 1
    BY <1>1, <1>4 DEF Averaging
  <2>3. A = B
    <3>1. PICK q \in Nat, z \in 0..(1 - 1) : B \div 1 = q /\ B = q * 1 + z
      BY Division
    <3>2. z = 0 /\ q * 1 = q
      OBVIOUS
    <3> QED BY <1>1, <2>2, <3>1, <3>2
  <2>4. ASSUME NEW c \in 1..B PROVE 12 * (P + c - 1) = MeanFrequency(P, 1, c)
    <3>1. (c - 1) * 1 = c - 1 /\ 6 * (1 - 1) = 0
      OBVIOUS
    <3> QED BY <3>1 DEF MeanFrequency
  <2> QED BY <1>1, <1>2, <1>3, <2>1, <2>2, <2>3, <2>4
<1>5. CASE Averaging(r)
  <2> DEFINE Freqs(g) == [j \in DOMAIN g |-> g[j].chanFreq]
             Widths(g) == [j \in DOMAIN g |-> g[j].chanWidth]
             channels == [c \in 1..A |->
               [chanFreq |-> Total(Freqs(Group(above, f, c))) \div f,
                chanWidth |-> Total(Widths(Group(above, f, c)))]]
  <2>1. info = [spw EXCEPT !.channels = channels]
    BY <1>1, <1>2, <1>5 DEF SinkBandInfo, AveragedBandInfo
  <2>2. ASSUME NEW c \in 1..A
        PROVE  /\ channels[c].chanFreq = MeanFrequency(P, f, c)
               /\ channels[c].chanWidth = 12 * f
    <3>1. PICK g : g = Group(above, f, c)
      OBVIOUS
    <3>2. PICK p \in Nat : p = (c - 1) * f /\ \A j \in 1..f : p + j \in 1..B
      BY <1>1, InBand
    <3>3. DOMAIN g = 1..f /\ \A j \in 1..f : g[j] = above[p + j]
      BY <3>1, <3>2, GroupIs
    <3>4. ASSUME NEW j \in 1..f
          PROVE  g[j].chanFreq = 12 * (P + p) + 12 * (j - 1) /\ g[j].chanWidth = 12
      <4>1. p + j \in 1..B /\ g[j] = above[p + j]
        BY <3>2, <3>3
      <4>2. 12 * (P + (p + j) - 1) = 12 * (P + p) + 12 * (j - 1)
        OBVIOUS
      <4> QED BY <1>3, <4>1, <4>2
    <3>5. Total(Freqs(g)) = f * (12 * (P + p) + 6 * (f - 1))
      <4>1. PICK s, a : s = Freqs(g) /\ a = 12 * (P + p)
        OBVIOUS
      <4>2. a \in Int
        BY <4>1
      <4>3. DOMAIN s = 1..f /\ s = [j \in 1..f |-> s[j]] /\ \A j \in 1..f : s[j] = a + 12 * (j - 1)
        BY <3>3, <3>4, <4>1
      <4>4. s \in [1..f -> Int]
        BY <4>2, <4>3
      <4> QED BY <4>1, <4>2, <4>3, <4>4, TotalOfSeries
    <3>6. Total(Widths(g)) = 12 * f
      <4>1. PICK s : s = Widths(g)
        OBVIOUS
      <4>2. DOMAIN s = 1..f /\ s = [j \in 1..f |-> s[j]] /\ \A j \in 1..f : s[j] = 12
        BY <3>3, <3>4, <4>1
      <4>3. s \in [1..f -> Int]
        BY <4>2
      <4> QED BY <4>1, <4>2, <4>3, TotalOfSame
    <3>7. Total(Freqs(g)) \div f = 12 * (P + p) + 6 * (f - 1)
      <4>1. PICK q \in Nat : q = 12 * (P + p) + 6 * (f - 1)
        OBVIOUS
      <4>2. f * q = q * f + 0 /\ 0 \in 0..(f - 1)
        OBVIOUS
      <4>3. (q * f + 0) \div f = q
        BY <4>2, DivisionOf
      <4> QED BY <3>5, <4>1, <4>2, <4>3
    <3>8. channels[c] = [chanFreq |-> Total(Freqs(g)) \div f, chanWidth |-> Total(Widths(g))]
      BY <3>1
    <3> HIDE DEF channels, Freqs, Widths
    <3> QED BY <3>2, <3>6, <3>7, <3>8 DEF MeanFrequency
  <2>3. DOMAIN channels = 1..A /\ Len(channels) = A
    OBVIOUS
  <2>4. PICK x, y : spw = [channels |-> x, totalBandwidth |-> y]
    BY <1>2 DEF SPW
  <2> HIDE DEF channels
  <2>5. info.channels = channels /\ info.totalBandwidth = spw.totalBandwidth
    BY <2>1, <2>4
  <2> QED BY <1>1, <1>3, <2>2, <2>3, <2>5
<1> QED BY <1>4, <1>5

(* The frequency and width that the file gives, in both formats.             *)
LEMMA FrequencyIs ==
  ASSUME NEW r \in Runs, NEW info, info = SinkBandInfo(r),
         r.output = "fits" => BandChannels(r) % r.freqAvg = 0, NEW c \in 1..AvgChannelCount(r)
  PROVE  /\ FrequencyInFile(r, info, c) = MeanFrequency(BandBase(r), r.freqAvg, c)
         /\ WidthInFile(r, info, c) = 12 * r.freqAvg
<1>1. PICK f \in Nat \ {0}, A \in Nat, B \in Nat, P \in Nat :
        /\ f = r.freqAvg /\ A = AvgChannelCount(r) /\ B = BandChannels(r) /\ P = BandBase(r)
        /\ A = B \div f
  BY RunNumbers, BandBaseIs DEF AvgChannelCount
<1>2. /\ DOMAIN info.channels = 1..A /\ Len(info.channels) = A
      /\ \A k \in 1..A : /\ info.channels[k].chanFreq = MeanFrequency(P, f, k)
                         /\ info.channels[k].chanWidth = 12 * f
      /\ info.totalBandwidth = B * 12
  BY <1>1, SinkChannels
<1>3. CASE r.output = "ms"
  BY <1>1, <1>2, <1>3 DEF FrequencyInFile, WidthInFile
<1>4. CASE r.output # "ms"
  <2>1. r.output = "fits"
    BY <1>4, RunNumbers
  <2>2. B = A * f
    <3>1. PICK q \in Nat, z \in 0..(f - 1) : B \div f = q /\ B % f = z /\ B = q * f + z
      BY Division
    <3>2. z = 0
      BY <1>1, <2>1, <3>1
    <3>3. q * f \in Nat
      OBVIOUS
    <3> QED BY <1>1, <3>1, <3>2, <3>3
  <2>3. PICK d \in Nat : d = 12 * f
    OBVIOUS
  <2>4. (B * 12) \div A = d
    <3>1. A \in Nat \ {0}
      BY <1>1
    <3>2. B * 12 = d * A + 0
      <4>1. (A * f) * 12 = (12 * f) * A
        OBVIOUS
      <4>2. d * A \in Nat
        BY <2>3
      <4> QED BY <2>2, <2>3, <4>1, <4>2
    <3>3. (d * A + 0) \div A = d
      <4>1. 0 \in 0..(A - 1)
        BY <3>1
      <4> QED BY <2>3, <3>1, <4>1, DivisionOf
    <3> QED BY <3>2, <3>3
  <2>5. PICK h \in Nat : h = A \div 2 /\ h + 1 \in 1..A
    <3>1. PICK q \in Nat, z \in 0..(2 - 1) : A \div 2 = q /\ A = q * 2 + z
      BY Division
    <3>2. A >= 1
      BY <1>1
    <3> QED BY <3>1, <3>2
  <2>6. PICK axis : axis = FitsAxis(info)
    OBVIOUS
  <2>7. axis.value = MeanFrequency(P, f, h + 1) /\ axis.pixel = h + 1 /\ axis.delta = d
    BY <1>2, <2>4, <2>5, <2>6 DEF FitsAxis
  <2>8. WidthInFile(r, info, c) = d
    BY <1>4, <2>6, <2>7 DEF WidthInFile
  <2>9. FrequencyInFile(r, info, c) = MeanFrequency(P, f, h + 1) + (c - (h + 1)) * d
    BY <1>4, <2>6, <2>7 DEF FrequencyInFile
  <2>10. MeanFrequency(P, f, h + 1) + (c - (h + 1)) * d = MeanFrequency(P, f, c)
    <3>1. c \in Nat
      BY <1>1
    <3>2. /\ ((h + 1) - 1) * f = h * f /\ (c - 1) * f = c * f - f
          /\ (c - (h + 1)) * (12 * f) = 12 * (c * f) - 12 * (h * f) - 12 * f
          /\ h * f \in Int /\ c * f \in Int
      BY <3>1
    <3>3. /\ MeanFrequency(P, f, h + 1) = 12 * (P + h * f) + 6 * (f - 1)
          /\ MeanFrequency(P, f, c) = 12 * (P + (c * f - f)) + 6 * (f - 1)
      BY <3>2 DEF MeanFrequency
    <3>4. (c - (h + 1)) * d = 12 * (c * f) - 12 * (h * f) - 12 * f
      BY <2>3, <3>2
    <3> QED BY <3>2, <3>3, <3>4
  <2> QED BY <1>1, <2>3, <2>8, <2>9, <2>10
<1> QED BY <1>3, <1>4

(* A channel of the file covers the channels of its group and no others.     *)
LEMMA CoveredIs ==
  ASSUME run \in Runs, header = <<SinkBandInfo(run)>>,
         run.output = "fits" => BandChannels(run) % run.freqAvg = 0,
         NEW c \in 1..AvgChannelCount(run)
  PROVE  Covered(c) = GroupChannels(run, c)
<1>1. PICK r, info : r = run /\ info = header[1]
  OBVIOUS
<1>2. r \in Runs /\ info = SinkBandInfo(r) /\ c \in 1..AvgChannelCount(r)
  BY <1>1
<1>3. PICK f \in Nat \ {0}, B \in Nat, P \in Nat, p \in Nat :
        /\ f = r.freqAvg /\ B = BandChannels(r) /\ P = BandBase(r)
        /\ p = (c - 1) * f /\ c * f = p + f /\ p + f <= B
  <2>1. c \in 1..AvgChannelCount(r)
    BY <1>2
  <2>2. /\ (c - 1) * r.freqAvg \in Nat /\ c * r.freqAvg = (c - 1) * r.freqAvg + r.freqAvg
        /\ c * r.freqAvg <= BandChannels(r)
    BY <1>2, <2>1, InBand
  <2>3. /\ r.freqAvg \in Nat \ {0} /\ BandChannels(r) \in Nat /\ BandBase(r) \in Nat
    BY <1>2, RunNumbers, BandBaseIs
  <2> QED BY <2>2, <2>3
<1>4. PICK freq \in Int, width \in Nat :
        /\ freq = FrequencyInFile(r, info, c) /\ width = WidthInFile(r, info, c)
        /\ freq = 12 * (P + p) + 6 * (f - 1) /\ width = 12 * f
  <2>1. /\ FrequencyInFile(r, info, c) = MeanFrequency(P, f, c)
        /\ WidthInFile(r, info, c) = 12 * f
    BY <1>1, <1>2, <1>3, FrequencyIs
  <2>2. MeanFrequency(P, f, c) = 12 * (P + p) + 6 * (f - 1)
    BY <1>3 DEF MeanFrequency
  <2>3. 12 * (P + p) + 6 * (f - 1) \in Int /\ 12 * f \in Nat
    OBVIOUS
  <2> QED BY <2>1, <2>2, <2>3
<1>5. ASSUME NEW k \in 0..(B - 1)
      PROVE  ChannelFrequencyHz(r, k) = 12 * (P + k)
  <2>1. ChannelFrequencyHz(r, k) = (P + k) * 12
    BY <1>3 DEF ChannelFrequencyHz, BandBase, ChWidth
  <2> QED BY <2>1
<1>6. Covered(c) =
        {k \in 0..(B - 1) : /\ -width < 2 * (ChannelFrequencyHz(r, k) - freq)
                            /\ 2 * (ChannelFrequencyHz(r, k) - freq) < width}
  BY <1>1, <1>3, <1>4 DEF Covered
<1>7. ASSUME NEW k \in 0..(B - 1)
      PROVE  (/\ -width < 2 * (ChannelFrequencyHz(r, k) - freq)
              /\ 2 * (ChannelFrequencyHz(r, k) - freq) < width)
             <=> k \in p..(p + f - 1)
  BY <1>4, <1>5
<1>8. p..(p + f - 1) \subseteq 0..(B - 1)
  BY <1>3
<1>9. GroupChannels(run, c) = p..(p + f - 1)
  BY <1>1, <1>3 DEF GroupChannels
<1> QED BY <1>6, <1>7, <1>8, <1>9

-----------------------------------------------------------------------------
(* The solutions.  With n channels and m solution channels, of which one      *)
(* number is a multiple of the other, solution s is the one for channel k.   *)
SolutionFor(m, n, k) == IF m > n THEN k * (m \div n) ELSE k \div (n \div m)

(* The solution is one of those there are, and begins before the channel     *)
(* ends and ends after it begins, whichever of them are more.                *)
LEMMA SolutionRange ==
  ASSUME NEW m \in Nat \ {0}, NEW n \in Nat \ {0}, NEW k \in 0..(n - 1),
         IF m > n THEN m % n = 0 ELSE n % m = 0
  PROVE  LET s == SolutionFor(m, n, k)
         IN  /\ s \in 0..(m - 1) /\ s * n <= k * m /\ k * m < (s + 1) * n
             /\ m <= n => (k + 1) * m <= (s + 1) * n
<1>1. k \in Nat /\ k < n
  OBVIOUS
<1>2. CASE m > n
  <2>1. PICK q \in Nat : m \div n = q /\ m = q * n
    <3>1. PICK q \in Nat, z \in 0..(n - 1) : m \div n = q /\ m % n = z /\ m = q * n + z
      BY Division
    <3>2. z = 0 /\ q * n \in Nat
      BY <1>2, <3>1
    <3> QED BY <3>1, <3>2
  <2>2. PICK s \in Nat : s = k * q /\ SolutionFor(m, n, k) = s
    BY <1>1, <1>2, <2>1 DEF SolutionFor
  <2>3. s * n = k * m
    <3>1. (k * q) * n = k * (q * n)
      BY <1>1
    <3> QED BY <2>1, <2>2, <3>1
  <2>4. s < m
    <3>1. q >= 1
      <4>1. CASE q = 0
        BY <2>1, <4>1
      <4> QED BY <4>1
    <3>2. k * q + q <= n * q
      BY <1>1, ProductMonotone
    <3>3. n * q = m
      BY <2>1
    <3> QED BY <2>2, <3>1, <3>2, <3>3
  <2>5. (s + 1) * n = s * n + n
    OBVIOUS
  <2>6. PICK x \in Int : x = k * m
    BY <1>1
  <2> QED BY <1>2, <2>2, <2>3, <2>4, <2>5, <2>6
<1>3. CASE ~(m > n)
  <2>1. PICK q \in Nat : n \div m = q /\ n = q * m
    <3>1. PICK q \in Nat, z \in 0..(m - 1) : n \div m = q /\ n % m = z /\ n = q * m + z
      BY Division
    <3>2. z = 0 /\ q * m \in Nat
      BY <1>3, <3>1
    <3> QED BY <3>1, <3>2
  <2>2. q \in Nat \ {0}
    <3>1. CASE q = 0
      BY <2>1, <3>1
    <3> QED BY <3>1
  <2>3. PICK s \in Nat, w \in 0..(q - 1) : k \div q = s /\ k = s * q + w
    BY <1>1, <2>2, Division
  <2>4. SolutionFor(m, n, k) = s
    BY <1>3, <2>1, <2>3 DEF SolutionFor
  <2>5. s < m
    <3> SUFFICES ASSUME m <= s PROVE FALSE
      OBVIOUS
    <3>1. m * q <= s * q
      <4>1. CASE m = s
        <5>1. s * q \in Int
          OBVIOUS
        <5> QED BY <4>1, <5>1
      <4>2. CASE m < s
        <5>1. m * q + q <= s * q /\ m * q \in Nat /\ s * q \in Nat
          BY <2>2, <4>2, ProductMonotone
        <5> QED BY <5>1
      <4> QED BY <4>1, <4>2
    <3>2. m * q = n /\ s * q \in Nat
      BY <2>1
    <3> QED BY <1>1, <2>3, <3>1, <3>2
  <2>6. PICK x \in Nat : x = s * (q * m)
    <3>1. q * m \in Nat
      OBVIOUS
    <3> QED BY <3>1
  <2>7. s * n = x /\ (s + 1) * n = x + n
    <3>1. (s + 1) * n = s * n + n
      OBVIOUS
    <3> QED BY <2>1, <2>6, <3>1
  <2>8. PICK v \in Nat : v = w * m /\ k * m = x + v /\ (k + 1) * m = x + v + m
    <3>1. (s * q + w) * m = s * (q * m) + w * m
      OBVIOUS
    <3>2. (k + 1) * m = k * m + m
      BY <1>1
    <3>3. w * m \in Nat
      OBVIOUS
    <3> QED BY <2>3, <2>6, <3>1, <3>2, <3>3
  <2>9. v + m <= n
    <3>1. w \in Nat /\ w < q
      OBVIOUS
    <3>2. w * m + m <= q * m
      BY <3>1, ProductMonotone
    <3> QED BY <2>1, <2>8, <3>2
  <2> QED BY <2>4, <2>5, <2>7, <2>8, <2>9
<1> QED BY <1>2, <1>3

(* An interval that meets f channels in a row meets one of them.             *)
LEMMA SomeChannel ==
  ASSUME NEW lo \in Nat, NEW hi \in Nat, lo <= hi, NEW m \in Nat \ {0}, NEW u \in Nat, NEW v \in Nat,
         u < v, u < (hi + 1) * m, lo * m < v
  PROVE  \E e \in lo..hi : u < (e + 1) * m /\ e * m < v
<1>1. PICK d \in Nat, w \in 0..(m - 1) : u = d * m + w
  BY Division
<1>2. (d + 1) * m = d * m + m /\ d * m \in Nat
  OBVIOUS
<1>3. CASE d <= lo
  <2>1. (d + 1) * m <= (lo + 1) * m
    <3>1. CASE d = lo
      <4>1. (lo + 1) * m \in Int
        OBVIOUS
      <4> QED BY <3>1, <4>1
    <3>2. CASE d < lo
      <4>1. d + 1 \in Nat /\ lo + 1 \in Nat /\ d + 1 < lo + 1
        BY <1>3, <3>2
      <4>2. (d + 1) * m + m <= (lo + 1) * m /\ (d + 1) * m \in Nat /\ (lo + 1) * m \in Nat
        BY <4>1, ProductMonotone
      <4> QED BY <4>2
    <3> QED BY <1>3, <3>1, <3>2
  <2>2. PICK x \in Nat : x = (lo + 1) * m
    OBVIOUS
  <2>3. u < (lo + 1) * m
    BY <1>1, <1>2, <2>1, <2>2
  <2>4. lo \in lo..hi
    OBVIOUS
  <2> QED BY <2>3, <2>4
<1>4. CASE lo < d
  <2>1. d <= hi
    <3> SUFFICES ASSUME hi + 1 <= d PROVE FALSE
      OBVIOUS
    <3>1. (hi + 1) * m <= d * m
      <4>1. CASE hi + 1 = d
        BY <1>2, <4>1
      <4>2. CASE hi + 1 < d
        <5>1. hi + 1 \in Nat
          OBVIOUS
        <5>2. (hi + 1) * m + m <= d * m /\ (hi + 1) * m \in Nat
          BY <4>2, <5>1, ProductMonotone
        <5> QED BY <1>2, <5>2
      <4> QED BY <4>1, <4>2
    <3>2. PICK x \in Nat : x = (hi + 1) * m
      OBVIOUS
    <3> QED BY <1>1, <1>2, <3>1, <3>2
  <2>2. u < (d + 1) * m /\ d * m < v
    BY <1>1, <1>2
  <2>3. d \in lo..hi
    BY <1>4, <2>1
  <2> QED BY <2>2, <2>3
<1> QED BY <1>3, <1>4

(* The k-th averaged channel is made of f channels of the observation.  If   *)
(* averaged channels of the observation and those of the band do not begin    *)
(* together (z), there must not be more solutions than averaged channels.    *)
LEMMA ExtentCovers ==
  ASSUME NEW m \in Nat \ {0}, NEW n \in Nat \ {0}, NEW k \in 0..(n - 1),
         IF m > n THEN m % n = 0 ELSE n % m = 0,
         NEW f \in Nat \ {0}, NEW y \in 0..(f - 1), NEW z \in 0..(f - 1), m > n => z = 0,
         NEW n0 \in Nat, n0 = n * f + y, NEW lo \in Nat, lo = k * f + z,
         NEW s, s = SolutionFor(m, n, k)
  PROVE  \E e \in lo..(lo + f - 1) : s * n0 < (e + 1) * m /\ e * m < (s + 1) * n0
<1>1. /\ s \in 0..(m - 1) /\ s * n <= k * m /\ k * m < (s + 1) * n
      /\ m <= n => (k + 1) * m <= (s + 1) * n
  BY SolutionRange
<1>0. s \in Nat /\ s < m /\ k \in Nat
  BY <1>1
<1>2. PICK a \in Nat, b \in Nat, d \in Nat : a = k * m /\ b = s * n /\ d = (s + 1) * n
  <2>1. k * m \in Nat /\ s * n \in Nat /\ s + 1 \in Nat
    BY <1>0
  <2>2. (s + 1) * n \in Nat
    BY <2>1
  <2> QED BY <2>1, <2>2
<1>3. b <= a /\ a < d /\ (m <= n => a + m <= d)
  <2>1. (k + 1) * m = k * m + m
    BY <1>0
  <2> QED BY <1>1, <1>2, <2>1
<1>4. PICK af \in Nat, bf \in Nat, df \in Nat, mf \in Nat :
        /\ af = a * f /\ bf = b * f /\ df = d * f /\ mf = m * f
        /\ bf <= af /\ af + f <= df /\ (m <= n => af + mf <= df)
  <2>1. a * f \in Nat /\ b * f \in Nat /\ d * f \in Nat /\ m * f \in Nat
    OBVIOUS
  <2>2. b * f <= a * f
    BY <1>3, ProductLeq
  <2>3. a * f + f <= d * f
    BY <1>3, ProductMonotone
  <2>4. m <= n => a * f + m * f <= d * f
    <3> SUFFICES ASSUME m <= n PROVE a * f + m * f <= d * f
      OBVIOUS
    <3>1. a + m \in Nat /\ a + m <= d
      BY <1>3
    <3>2. (a + m) * f <= d * f
      BY <3>1, ProductLeq
    <3>3. (a + m) * f = a * f + m * f
      OBVIOUS
    <3> QED BY <3>2, <3>3
  <2> QED BY <2>1, <2>2, <2>3, <2>4
<1>5. PICK sy \in Nat, zm \in Nat : sy = s * y /\ zm = z * m /\ sy < mf /\ zm < mf
  <2>1. y \in Nat /\ y < f /\ z \in Nat /\ z < f
    OBVIOUS
  <2>2. s * y \in Nat /\ z * m \in Nat /\ s * f \in Nat
    BY <1>0, <2>1
  <2>3. s * f + f <= m * f
    BY <1>0, ProductMonotone
  <2>4. s * y <= s * f
    <3>1. y * s <= f * s
      BY <1>0, <2>1, ProductLeq
    <3>2. y * s = s * y /\ f * s = s * f
      BY <1>0, <2>1
    <3> QED BY <3>1, <3>2
  <2>5. z * m + m <= f * m /\ f * m = m * f
    BY <2>1, ProductMonotone
  <2> QED BY <1>4, <2>2, <2>3, <2>4, <2>5
<1>6. PICK u \in Nat, v \in Nat : u = s * n0 /\ v = (s + 1) * n0 /\ u = bf + sy /\ v = u + n0
  <2>1. s * n0 \in Nat /\ (s + 1) * n0 = s * n0 + n0
    BY <1>0
  <2>2. s * (n * f + y) = (s * n) * f + s * y
    BY <1>0
  <2>3. s * n0 = bf + sy
    BY <1>2, <1>4, <1>5, <2>2
  <2> QED BY <2>1, <2>3
<1>7. v >= df
  <2>1. (s + 1) * (n * f + y) = ((s + 1) * n) * f + s * y + y
    BY <1>0
  <2>2. v = df + sy + y
    BY <1>2, <1>4, <1>5, <1>6, <2>1
  <2> QED BY <2>2
<1>8. lo * m = af + zm /\ (lo + f - 1 + 1) * m = af + zm + mf
  <2>1. (k * f + z) * m = (k * m) * f + z * m
    BY <1>0
  <2>2. (lo + f - 1 + 1) * m = lo * m + m * f
    OBVIOUS
  <2> QED BY <1>2, <1>4, <1>5, <2>1, <2>2
<1>9. u < v
  <2>1. n * f \in Nat /\ n * f >= 1
    <3>1. f <= n * f
      <4>1. 1 * f <= n * f /\ 1 * f = f
        BY ProductLeq
      <4> QED BY <4>1
    <3> QED BY <3>1
  <2> QED BY <1>6, <2>1
<1>10. u < (lo + f - 1 + 1) * m
  BY <1>4, <1>5, <1>6, <1>8
<1>11. lo * m < v
  <2>1. CASE m > n
    <3>1. zm = 0
      BY <1>5, <2>1
    <3> QED BY <1>4, <1>7, <1>8, <3>1
  <2>2. CASE m <= n
    BY <1>4, <1>5, <1>7, <1>8, <2>2
  <2> QED BY <2>1, <2>2
<1>12. lo + f - 1 \in Nat /\ lo <= lo + f - 1
  OBVIOUS
<1>13. \E e \in lo..(lo + f - 1) : u < (e + 1) * m /\ e * m < v
  BY <1>9, <1>10, <1>11, <1>12, SomeChannel
<1> QED BY <1>6, <1>13

(* Where the band is in the observation, in fine channels and in averaged ones. *)
LEMMA ObservationIs ==
  ASSUME NEW r \in Runs
  PROVE  /\ NChannels(r) \in Nat \ {0} /\ r.sbStart * r.chPerSb \in Nat
         /\ BandFineChanStart(r) = (r.sbStart * r.chPerSb) \div Divisor(r)
         /\ r.sbStart * r.chPerSb + BandChannels(r) <= NChannels(r)
<1>1. PICK L \in Nat \ {0}, p \in Nat \ {0}, S \in Nat, E \in Nat :
        /\ L = Len(r.numbers) /\ p = r.chPerSb /\ S = r.sbStart /\ E = r.sbEnd
        /\ S < E /\ E <= L
  BY RunNumbers, RunAssumption
<1>2. PICK x \in Nat, n \in Nat : x = S * p /\ n = L * p
  <2>1. S * p \in Nat /\ L * p \in Nat
    OBVIOUS
  <2> QED BY <2>1
<1>3. NChannels(r) = n
  BY <1>1, <1>2 DEF NChannels
<1>4. n \in Nat \ {0}
  <2>1. 0 * p + p <= L * p /\ 0 * p = 0
    BY ProductMonotone
  <2> QED BY <1>2, <2>1
<1>5. BandFineChanStart(r) = x \div Divisor(r)
  <2>1. S * n = x * L + 0
    <3>1. S * (L * p) = (S * p) * L
      OBVIOUS
    <3>2. x * L \in Nat
      BY <1>2
    <3> QED BY <1>2, <3>1, <3>2
  <2>2. (x * L + 0) \div L = x
    <3>1. 0 \in 0..(L - 1)
      OBVIOUS
    <3> QED BY <1>2, <3>1, DivisionOf
  <2> QED BY <1>1, <1>3, <2>1, <2>2 DEF BandFineChanStart
<1>6. x + BandChannels(r) <= n
  <2>1. BandChannels(r) = (E - S) * p
    BY <1>1 DEF BandChannels
  <2>2. x + (E - S) * p = E * p
    BY <1>2
  <2>3. E * p <= L * p
    BY <1>1, ProductLeq
  <2> QED BY <1>2, <2>1, <2>2, <2>3
<1> QED BY <1>1, <1>2, <1>3, <1>4, <1>5, <1>6

(* Solutions that are applied before the averaging, of a channel of the      *)
(* band.                                                                     *)
LEMMA SolutionFitsBefore ==
  ASSUME NEW r \in Runs, r.solutions = "before", ~IncompatibleSolutions(r),
         NEW ch \in 0..(BandChannels(r) - 1)
  PROVE  LET s == SolChannel(r, ch)
             k == r.sbStart * r.chPerSb + ch
         IN  /\ s \in 0..(r.nSolutionChannels - 1)
             /\ s * NChannels(r) < (k + 1) * r.nSolutionChannels
             /\ k * r.nSolutionChannels < (s + 1) * NChannels(r)
<1>1. PICK n \in Nat \ {0}, x \in Nat, B \in Nat, m \in Nat \ {0} :
        /\ n = NChannels(r) /\ x = r.sbStart * r.chPerSb /\ B = BandChannels(r)
        /\ m = r.nSolutionChannels /\ x + B <= n
  BY RunNumbers, ObservationIs
<1>2. \A i \in Nat : i \div 1 = i
  <2> SUFFICES ASSUME NEW i \in Nat PROVE i \div 1 = i
    OBVIOUS
  <2>1. PICK q \in Nat, z \in 0..(1 - 1) : i \div 1 = q /\ i = q * 1 + z
    BY Division
  <2>2. z = 0 /\ q * 1 = q
    OBVIOUS
  <2> QED BY <2>1, <2>2
<1>3. BandFineChanStart(r) = x /\ NTotalFineChannels(r) = n
  BY <1>1, <1>2, ObservationIs DEF Divisor, NTotalFineChannels
<1>4. IF m > n THEN m % n = 0 ELSE n % m = 0
  BY <1>1, <1>3 DEF IncompatibleSolutions
<1>5. PICK k \in 0..(n - 1) : k = x + ch /\ k = ch + x
  BY <1>1
<1>6. SolChannel(r, ch) = SolutionFor(m, n, k)
  BY <1>1, <1>3, <1>5 DEF SolChannel, SolutionFor
<1>7. PICK s : s = SolutionFor(m, n, k)
  OBVIOUS
<1>8. s \in 0..(m - 1) /\ s * n <= k * m /\ k * m < (s + 1) * n
  BY <1>4, <1>7, SolutionRange
<1>9. s * n < (k + 1) * m
  <2>1. s * n \in Nat /\ k * m \in Nat /\ (k + 1) * m = k * m + m
    BY <1>8
  <2> QED BY <1>8, <2>1
<1> QED BY <1>1, <1>5, <1>6, <1>7, <1>8, <1>9

(* Solutions that are applied after it, of the channels of a group.          *)
LEMMA SolutionFitsAfter ==
  ASSUME NEW r \in Runs, r.solutions = "after", ~IncompatibleSolutions(r),
         r.nSolutionChannels > NTotalFineChannels(r) =>
           (r.sbStart * r.chPerSb) % r.freqAvg = 0,
         NEW c \in 1..AvgChannelCount(r)
  PROVE  LET s == SolChannel(r, c - 1)
         IN  /\ s \in 0..(r.nSolutionChannels - 1)
             /\ \E j \in GroupChannels(r, c) :
                  LET k == r.sbStart * r.chPerSb + j
                  IN  /\ s * NChannels(r) < (k + 1) * r.nSolutionChannels
                      /\ k * r.nSolutionChannels < (s + 1) * NChannels(r)
<1>1. PICK n0 \in Nat \ {0}, x \in Nat, B \in Nat, m \in Nat \ {0}, f \in Nat \ {0} :
        /\ n0 = NChannels(r) /\ x = r.sbStart * r.chPerSb /\ B = BandChannels(r)
        /\ m = r.nSolutionChannels /\ x + B <= n0 /\ f = r.freqAvg
  BY RunNumbers, ObservationIs
<1>2. PICK p \in Nat : p = (c - 1) * f /\ p + f <= B /\ c - 1 \in Nat
  <2>1. (c - 1) * f \in Nat /\ c * f = (c - 1) * f + f /\ c * f <= B
    BY <1>1, InBand
  <2>2. c - 1 \in Nat
    BY RunNumbers
  <2> QED BY <2>1, <2>2
<1>3. PICK n \in Nat, y \in 0..(f - 1) : n0 \div f = n /\ n0 = n * f + y
  BY Division
<1>4. PICK S \in Nat, z \in 0..(f - 1) : x \div f = S /\ x % f = z /\ x = S * f + z
  BY Division
<1>5. BandFineChanStart(r) = S /\ NTotalFineChannels(r) = n
  BY <1>1, <1>3, <1>4, ObservationIs DEF Divisor, NTotalFineChannels
<1>6. PICK k \in Nat : k = c - 1 + S
  BY <1>2
<1>7. k * f = p + S * f
  BY <1>2, <1>6
<1>8. k < n
  <2> SUFFICES ASSUME n <= k PROVE FALSE
    OBVIOUS
  <2>1. n * f <= k * f
    BY ProductLeq
  <2>2. n * f \in Nat /\ S * f \in Nat
    OBVIOUS
  <2> QED BY <1>1, <1>2, <1>3, <1>4, <1>7, <2>1, <2>2
<1>9. n \in Nat \ {0} /\ k \in 0..(n - 1)
  BY <1>8
<1>10. IF m > n THEN m % n = 0 ELSE n % m = 0
  BY <1>1, <1>5 DEF IncompatibleSolutions
<1>11. PICK s : s = SolutionFor(m, n, k)
  OBVIOUS
<1>12. SolChannel(r, c - 1) = s
  BY <1>1, <1>5, <1>6, <1>11 DEF SolChannel, SolutionFor
<1>13. s \in 0..(m - 1)
  BY <1>9, <1>10, <1>11, SolutionRange
<1>14. PICK lo \in Nat : lo = k * f + z /\ lo = x + p
  <2>1. S * f \in Nat
    OBVIOUS
  <2> QED BY <1>2, <1>4, <1>7, <2>1
<1>15. m > n => z = 0
  BY <1>1, <1>4, <1>5
<1>16. \E e \in lo..(lo + f - 1) : s * n0 < (e + 1) * m /\ e * m < (s + 1) * n0
  BY <1>3, <1>9, <1>10, <1>11, <1>14, <1>15, ExtentCovers
<1>17. PICK e \in lo..(lo + f - 1) : s * n0 < (e + 1) * m /\ e * m < (s + 1) * n0
  BY <1>16
<1>18. PICK j \in p..(p + f - 1) : x + j = e
  <2>1. e - x \in p..(p + f - 1) /\ x + (e - x) = e
    BY <1>14
  <2> QED BY <2>1
<1>19. GroupChannels(r, c) = p..(p + f - 1)
  <2>1. c * f = p + f
    BY <1>2
  <2>2. GroupChannels(r, c) = ((c - 1) * f)..(c * f - 1)
    BY <1>1 DEF GroupChannels
  <2> QED BY <1>2, <2>1, <2>2
<1> QED BY <1>1, <1>12, <1>13, <1>17, <1>18, <1>19

-----------------------------------------------------------------------------
(* The samples of a cell, by their places.                                   *)
LEMMA PlacesUsed ==
  ASSUME NEW r, NEW b, NEW c, NEW X, \A x \in X : x = <<x[1], x[2]>>,
         NEW q, Lists(q, FinalSamples(r, b, c, X))
  PROVE  /\ {<<q[k].scan, q[k].ch>> : k \in DOMAIN q} = X
         /\ Cardinality(X) = Len(q)
         /\ \A k \in DOMAIN q : \E x \in X : q[k] = FinalSample(r, b, c, x)
<1> DEFINE Y == FinalSamples(r, b, c, X)
           g == [y \in Y |-> <<y.scan, y.ch>>]
           w == [k \in DOMAIN q |-> g[q[k]]]
<1>1. \A y \in Y : \E x \in X : y = FinalSample(r, b, c, x)
  BY DEF FinalSamples
<1>2. ASSUME NEW x \in X
      PROVE  /\ FinalSample(r, b, c, x) \in Y
             /\ FinalSample(r, b, c, x).scan = x[1] /\ FinalSample(r, b, c, x).ch = x[2]
  BY DEF FinalSample, FinalSamples
<1>3. DOMAIN g = Y /\ \A y \in Y : g[y] = <<y.scan, y.ch>>
  OBVIOUS
<1>4. DOMAIN q = 1..Len(q) /\ q \in Seq(Y) /\ Len(q) \in Nat
  BY LenProperties DEF Lists
<1>5. \A k \in DOMAIN q : q[k] \in Y
  BY <1>4, ElementOfSeq
<1>6. DOMAIN w = DOMAIN q /\ \A k \in DOMAIN q : w[k] = <<q[k].scan, q[k].ch>>
  BY <1>3, <1>5
<1> HIDE DEF Y, g
<1>7. ASSUME NEW x \in X PROVE g[FinalSample(r, b, c, x)] = x
  BY <1>2, <1>3
<1>8. \A x, y \in Y : g[x] = g[y] => x = y
  <2> SUFFICES ASSUME NEW y \in Y, NEW z \in Y, g[y] = g[z] PROVE y = z
    OBVIOUS
  <2>1. PICK u \in X : y = FinalSample(r, b, c, u)
    BY <1>1
  <2>2. PICK v \in X : z = FinalSample(r, b, c, v)
    BY <1>1
  <2>3. u = v
    BY <1>7, <2>1, <2>2
  <2> QED BY <2>1, <2>2, <2>3
<1>9. {g[y] : y \in Y} = X
  <2>1. ASSUME NEW y \in Y PROVE g[y] \in X
    BY <1>1, <1>7
  <2> QED BY <1>2, <1>7, <2>1
<1>10. Lists(q, Y)
  BY DEF Y
<1>11. Lists(w, X) /\ Len(w) = Len(q)
  BY <1>3, <1>8, <1>9, <1>10, ListsMap
<1> HIDE DEF w
<1>12. Cardinality(X) = Len(q)
  BY <1>11, ListsCount
<1>13. ASSUME NEW x \in X PROVE \E k \in DOMAIN q : w[k] = x
  BY <1>4, <1>11 DEF Lists
<1>14. ASSUME NEW k \in DOMAIN q PROVE w[k] \in X
  BY <1>4, <1>11, ElementOfSeq DEF Lists
<1>15. {<<q[k].scan, q[k].ch>> : k \in DOMAIN q} = X
  BY <1>6, <1>13, <1>14
<1> QED BY <1>1, <1>5, <1>12, <1>15

(* The solutions of both antennas are of the same channel, and each its own. *)
LEMMA PairOfSolutions ==
  ASSUME NEW r \in Runs, NEW b, b[1] \in Nat, b[2] \in Nat, NEW k,
         SolChannel(r, k) \in 0..(r.nSolutionChannels - 1)
  PROVE  /\ Len(SolPair(r, b, k)) = 2
         /\ \A side \in {1, 2} : /\ SolPair(r, b, k)[side][1] = b[side]
                                 /\ SolPair(r, b, k)[side][2] = SolChannel(r, k)
<1>0. PICK m \in Nat \ {0} : m = r.nSolutionChannels
  BY RunNumbers
<1>1. PICK s \in 0..(m - 1) : m = r.nSolutionChannels /\ s = SolChannel(r, k)
  BY <1>0
<1>2. ASSUME NEW a \in Nat PROVE Sol(r, a, k) = <<a, s>>
  <2>1. (a * m + s) \div m = a /\ (a * m + s) % m = s
    BY DivisionOf
  <2> QED BY <1>1, <2>1 DEF Sol, SolutionAt
<1>3. SolPair(r, b, k) = <<<<b[1], s>>, <<b[2], s>>>>
  BY <1>2 DEF SolPair
<1> QED BY <1>1, <1>3

(* What the theorem about the contents supposes of a run: the channels of a  *)
(* UVFITS file fill the groups of the averaging, and where there are more    *)
(* solutions than averaged channels, those of the band and of the            *)
(* observation are averaged in the same groups.                              *)
ChannelsFit ==
  /\ run.output = "fits" => BandChannels(run) % run.freqAvg = 0
  /\ run.solutions = "after" /\ run.nSolutionChannels > NTotalFineChannels(run) =>
       (run.sbStart * run.chPerSb) % run.freqAvg = 0

(* What ContentsAtFrequency says of the solutions, by, that a sample at ch was *)
(* corrected with.                                                           *)
RightlyCorrected(b, c, ch, by) ==
  LET extent == InObservation(IF run.solutions = "before" THEN {ch} ELSE Covered(c))
  IN  IF run.solutions = "none" THEN by = <<>>
      ELSE /\ Len(by) = 2
           /\ \A side \in {1, 2} : /\ by[side][1] = b[side]
                                   /\ SolutionCovers(by[side][2], extent)

(* A sample was corrected for its frequency, by solutions of its row's       *)
(* antennas, once.                                                           *)
LEMMA CorrectedForFrequency ==
  ASSUME run \in Runs, ~IncompatibleSolutions(run), ChannelsFit, NEW b, b[1] \in Nat, b[2] \in Nat,
         NEW c \in 1..AvgChannelCount(run), Covered(c) = GroupChannels(run, c),
         NEW ch \in GroupChannels(run, c), NEW by, by = FinalBy(run, b, c, ch)
  PROVE  RightlyCorrected(b, c, ch, by)
<1>0. PICK r : r = run
  OBVIOUS
<1>1. r \in Runs /\ c \in 1..AvgChannelCount(r) /\ r.solutions \in {"none", "after", "before"}
  BY <1>0, RunNumbers
<1>2. CASE r.solutions = "none"
  BY <1>0, <1>2 DEF FinalBy, UpperBy, RightlyCorrected
<1>3. CASE r.solutions = "before"
  <2>1. by = SolPair(r, b, ch)
    BY <1>0, <1>3 DEF FinalBy, UpperBy
  <2>2. ch \in 0..(BandChannels(r) - 1)
    <3>1. PICK f \in Nat \ {0}, p \in Nat, B \in Nat :
            /\ f = r.freqAvg /\ B = BandChannels(r) /\ p = (c - 1) * r.freqAvg
            /\ c * r.freqAvg = p + f /\ p + f <= B
      <4>1. /\ (c - 1) * r.freqAvg \in Nat /\ c * r.freqAvg = (c - 1) * r.freqAvg + r.freqAvg
            /\ c * r.freqAvg <= BandChannels(r)
        BY <1>1, InBand
      <4>2. r.freqAvg \in Nat \ {0} /\ BandChannels(r) \in Nat
        BY <1>1, RunNumbers
      <4> QED BY <4>1, <4>2
    <3>2. ch \in p..(p + f - 1)
      BY <1>0, <3>1 DEF GroupChannels
    <3> QED BY <3>1, <3>2
  <2>3. PICK s, k : s = SolChannel(r, ch) /\ k = r.sbStart * r.chPerSb + ch
    OBVIOUS
  <2>4. /\ s \in 0..(r.nSolutionChannels - 1)
        /\ s * NChannels(r) < (k + 1) * r.nSolutionChannels
        /\ k * r.nSolutionChannels < (s + 1) * NChannels(r)
    BY <1>0, <1>1, <1>3, <2>2, <2>3, SolutionFitsBefore
  <2>5. k \in InObservation({ch})
    BY <1>0, <2>3 DEF InObservation
  <2>6. SolutionCovers(s, InObservation({ch}))
    BY <1>0, <2>4, <2>5 DEF SolutionCovers
  <2>7. /\ Len(by) = 2
        /\ \A side \in {1, 2} : by[side][1] = b[side] /\ by[side][2] = s
    BY <1>1, <2>1, <2>3, <2>4, PairOfSolutions
  <2> QED BY <1>0, <1>3, <2>6, <2>7 DEF RightlyCorrected
<1>4. CASE r.solutions = "after"
  <2>1. by = SolPair(r, b, c - 1)
    BY <1>0, <1>4 DEF FinalBy
  <2>2. PICK s : s = SolChannel(r, c - 1)
    OBVIOUS
  <2>3. /\ s \in 0..(r.nSolutionChannels - 1)
        /\ \E j \in GroupChannels(r, c) :
             LET k == r.sbStart * r.chPerSb + j
             IN  /\ s * NChannels(r) < (k + 1) * r.nSolutionChannels
                 /\ k * r.nSolutionChannels < (s + 1) * NChannels(r)
    BY <1>0, <1>1, <1>4, <2>2, SolutionFitsAfter DEF ChannelsFit
  <2>4. PICK j \in GroupChannels(r, c) :
          LET k == r.sbStart * r.chPerSb + j
          IN  /\ s * NChannels(r) < (k + 1) * r.nSolutionChannels
              /\ k * r.nSolutionChannels < (s + 1) * NChannels(r)
    BY <2>3
  <2>5. r.sbStart * r.chPerSb + j \in InObservation(Covered(c))
    BY <1>0, <2>4 DEF InObservation
  <2>6. SolutionCovers(s, InObservation(Covered(c)))
    BY <1>0, <2>4, <2>5 DEF SolutionCovers
  <2>7. /\ Len(by) = 2
        /\ \A side \in {1, 2} : by[side][1] = b[side] /\ by[side][2] = s
    BY <1>1, <2>1, <2>2, <2>3, PairOfSolutions
  <2> QED BY <1>0, <1>4, <2>6, <2>7 DEF RightlyCorrected
<1> QED BY <1>1, <1>2, <1>3, <1>4

(* There are no rows without output baselines.                               *)
LEMMA RowHasBaseline ==
  ASSUME IInv, NEW i \in 1..Len(table)
  PROVE  table[i].baseline \in OutputBaselines
<1>1. PICK t \in Nat \ {0}, n \in Nat : t = run.timeAvg /\ n = N
  BY ClientFacts DEF IInv
<1>2. PICK m \in Nat : m = Len(table) /\ i \in 1..m
  BY DEF IInv, RowsAre
<1>3. n # 0
  <2> SUFFICES ASSUME n = 0 PROVE FALSE
    OBVIOUS
  <2>1. outer = <<>> /\ next \in -1..0
    BY <1>1 DEF IInv, OuterIs, ClientIs
  <2>2. HandledRows = 0 /\ HandledScan \in Nat
    BY <2>1 DEF HandledRows, HandledScan, IInv, ClientIs
  <2>3. PICK q \in Nat : HandledScan \div t = q
    BY <2>2, Division
  <2>4. Emitted = 0
    BY <1>1, <2>2, <2>3 DEF Emitted, RowsOut
  <2>5. m + Len(inner) = 0 /\ Len(inner) \in Nat
    <3>1. inner = <<>> \/ Len(inner) = 1
      BY DEF IInv, RowsAre
    <3>2. Len(<<>>) = 0
      OBVIOUS
    <3> QED BY <1>2, <2>4, <3>1, <3>2 DEF IInv, RowsAre
  <2> QED BY <1>2, <2>5
<1>4. PICK q \in Nat, z \in 0..(n - 1) : (i - 1) % n = z
  BY <1>2, <1>3, Division
<1>5. z + 1 \in 1..n
  BY <1>3, <1>4
<1>6. OutputOrder[z + 1] \in OutputBaselines
  BY <1>1, <1>5, OrderIs
<1>7. table[i].baseline = OutputOrder[z + 1]
  BY <1>1, <1>4 DEF IInv, RowsAre, RowIs
<1> QED BY <1>6, <1>7

(* A row in the file was announced by a header of this run, whose solutions  *)
(* were found to match.                                                      *)
LEMMA RowWasAnnounced ==
  ASSUME IInv, CInv, NEW i \in 1..Len(table)
  PROVE  header = <<SinkBandInfo(run)>> /\ ~IncompatibleSolutions(run)
<1>1. header # <<>>
  <2>1. Len(table) \in Nat /\ Len(table) > 0
    BY DEF IInv, RowsAre
  <2>2. Len(inner) \in Nat
    <3>1. inner = <<>> \/ Len(inner) = 1
      BY DEF IInv, RowsAre
    <3> QED BY <3>1
  <2>3. Len(table) + Len(inner) > 0
    BY <2>1, <2>2
  <2> QED BY <2>3, RowsWereAllocated DEF RowsAllocated
<1>2. pc \notin {"setup", "refused"}
  <2> SUFFICES ASSUME pc \in {"setup", "refused"} PROVE FALSE
    OBVIOUS
  <2>1. scan = 0 /\ next = -1
    BY DEF IInv, ClientIs
  <2>2. Begun = 0
    BY <2>1 DEF Begun
  <2> QED BY <1>1, <2>2 DEF IInv, FileIs
<1> QED BY <1>1, <1>2 DEF CInv, AnnouncedIs

(* The places of a row of the file are in a scan and in a channel.           *)
LEMMA SomewhereHere ==
  ASSUME NEW r \in Runs, NEW g \in Nat, NEW c \in 1..AvgChannelCount(r)
  PROVE  Here(r, ToSet(GroupOf(r.timeAvg, g)), c) # {}
<1>1. PICK t \in Nat \ {0}, f \in Nat \ {0}, p \in Nat :
        /\ t = r.timeAvg /\ f = r.freqAvg
        /\ p = (c - 1) * r.freqAvg /\ c * r.freqAvg = p + f
  BY RunNumbers, InBand
<1>2. p \in GroupChannels(r, c)
  <2>1. p \in p..(p + f - 1)
    OBVIOUS
  <2> QED BY <1>1, <2>1 DEF GroupChannels
<1>3. GroupOf(t, g)[1] \in ToSet(GroupOf(t, g))
  <2>1. 1 \in 1..t /\ DOMAIN GroupOf(t, g) = 1..t
    BY DEF GroupOf
  <2> QED BY <2>1 DEF ToSet
<1>4. <<GroupOf(t, g)[1], p>> \in Here(r, ToSet(GroupOf(t, g)), c)
  BY <1>2, <1>3 DEF Here
<1> QED BY <1>1, <1>4

(* What ContentsAtFrequency says of the c-th visibility of a row.            *)
VisibilityIs(row, c, cell) ==
  LET here == ToSet(row.scans) \X Covered(c)
      good == {s \in here : s[1] < run.nScans /\ s \notin run.bad}
      used == {<<cell.samples[k].scan, cell.samples[k].ch>> : k \in DOMAIN cell.samples}
  IN  /\ here # {}
      /\ used = IF good # {} THEN good ELSE here
      /\ Cardinality(used) = Len(cell.samples)
      /\ cell.flag <=> good = {}
      /\ \A k \in DOMAIN cell.samples :
           RightlyCorrected(row.baseline, c, cell.samples[k].ch, cell.samples[k].by)

(* ContentsAtFrequency, from what the rows hold.                             *)
LEMMA ContentsFollow ==
  ASSUME IInv, CInv, ChannelsFit
  PROVE  ContentsAtFrequency
<1> SUFFICES ASSUME NEW i \in 1..Len(table)
             PROVE  /\ DOMAIN table[i].cells = DOMAIN header[1].channels
                    /\ \A c \in DOMAIN table[i].cells :
                         VisibilityIs(table[i], c, table[i].cells[c])
  BY DEF ContentsAtFrequency, VisibilityIs, RightlyCorrected
<1>1. run \in Runs
  BY DEF IInv, ClientIs
<1>2. header = <<SinkBandInfo(run)>> /\ ~IncompatibleSolutions(run)
  BY RowWasAnnounced
<1>3. PICK r, b, S, cells :
        r = run /\ b = table[i].baseline /\ S = ToSet(table[i].scans) /\ cells = table[i].cells
  OBVIOUS
<1>4. RowCells(r, b, S, cells)
  BY <1>3 DEF CInv, TableHolds, RowHolds
<1>5. r \in Runs /\ b[1] \in Nat /\ b[2] \in Nat
  <2>1. b \in Nat \X Nat
    BY <1>3, RowHasBaseline, OutputBaselinesFinite
  <2> QED BY <1>1, <1>3, <2>1
<1>6. DOMAIN cells = 1..AvgChannelCount(r) /\ DOMAIN header[1].channels = 1..AvgChannelCount(r)
  <2>1. DOMAIN SinkBandInfo(r).channels = 1..AvgChannelCount(r)
    BY <1>5, SinkChannels
  <2> QED BY <1>2, <1>3, <1>4, <2>1 DEF RowCells
<1>7. PICK g \in Nat : S = ToSet(GroupOf(r.timeAvg, g))
  <2>1. PICK n \in Nat : n = N
    BY OrderIs
  <2>2. n # 0
    <3>1. PICK k \in 1..N : OutputOrder[k] = table[i].baseline
      BY RowHasBaseline, OrderIs
    <3> QED BY <2>1, <3>1
  <2>3. i - 1 \in Nat
    BY DEF IInv, RowsAre
  <2>4. PICK q \in Nat : (i - 1) \div n = q
    BY <2>2, <2>3, Division
  <2>5. table[i].scans = GroupOf(r.timeAvg, q)
    BY <1>3, <2>1, <2>4 DEF IInv, RowsAre, RowIs
  <2> QED BY <1>3, <2>5
<1>8. ASSUME NEW c \in DOMAIN table[i].cells
      PROVE  VisibilityIs(table[i], c, table[i].cells[c])
  <2>1. c \in 1..AvgChannelCount(r) /\ c \in 1..AvgChannelCount(run)
    BY <1>3, <1>6
  <2>2. Covered(c) = GroupChannels(r, c)
    BY <1>1, <1>2, <1>3, <2>1, CoveredIs DEF ChannelsFit
  <2>3. PICK z : z = table[i].cells[c]
    OBVIOUS
  <2>4. Marked(r, S, c, z) /\ Lists(z.samples, FinalSamples(r, b, c, Used(r, S, c)))
    BY <1>3, <1>4, <2>1, <2>3 DEF RowCells, RowCell
  <2>5. PICK H, G, U : H = Here(r, S, c) /\ G = Good(r, S, c) /\ U = Used(r, S, c)
    OBVIOUS
  <2>6. H = ToSet(table[i].scans) \X Covered(c)
    BY <1>3, <2>2, <2>5 DEF Here
  <2>7. G = {s \in H : s[1] < run.nScans /\ s \notin run.bad}
    BY <1>3, <2>5 DEF Good, IsGood
  <2>8. H # {}
    BY <1>5, <1>7, <2>1, <2>5, SomewhereHere
  <2>9. U = IF G # {} THEN G ELSE H
    BY <2>5 DEF Used
  <2>10. \A x \in U : x = <<x[1], x[2]>> /\ x[2] \in GroupChannels(r, c)
    <3>1. \A x \in H : x \in S \X GroupChannels(r, c)
      BY <2>5 DEF Here
    <3>2. U \subseteq H
      BY <2>7, <2>9
    <3> QED BY <3>1, <3>2
  <2>11. PICK q : q = z.samples
    OBVIOUS
  <2>12. /\ {<<q[k].scan, q[k].ch>> : k \in DOMAIN q} = U
         /\ Cardinality(U) = Len(q)
         /\ \A k \in DOMAIN q : \E x \in U : q[k] = FinalSample(r, b, c, x)
    <3>1. Lists(q, FinalSamples(r, b, c, U))
      BY <2>4, <2>5, <2>11
    <3>2. \A x \in U : x = <<x[1], x[2]>>
      BY <2>10
    <3> QED BY <3>1, <3>2, PlacesUsed
  <2>13. z.flag <=> G = {}
    BY <2>4, <2>5 DEF Marked
  <2>14. ASSUME NEW k \in DOMAIN q
         PROVE  RightlyCorrected(b, c, q[k].ch, q[k].by)
    <3>1. PICK x \in U : q[k] = FinalSample(r, b, c, x)
      BY <2>12
    <3>2. PICK ch, by : ch = q[k].ch /\ by = q[k].by
      OBVIOUS
    <3>3. ch = x[2] /\ by = FinalBy(r, b, c, x[2])
      BY <3>1, <3>2 DEF FinalSample
    <3>4. ch \in GroupChannels(run, c) /\ by = FinalBy(run, b, c, ch)
      BY <1>3, <2>10, <3>1, <3>3
    <3>5. Covered(c) = GroupChannels(run, c)
      BY <1>3, <2>2
    <3> QED BY <1>1, <1>2, <1>5, <2>1, <3>2, <3>4, <3>5, CorrectedForFrequency
  <2>15. \A k \in DOMAIN z.samples : RightlyCorrected(table[i].baseline, c, z.samples[k].ch, z.samples[k].by)
    BY <1>3, <2>11, <2>14
  <2>16. {<<z.samples[k].scan, z.samples[k].ch>> : k \in DOMAIN z.samples} = U
         /\ Cardinality(U) = Len(z.samples)
    BY <2>11, <2>12
  <2>17. U = IF G # {} THEN G ELSE H
    BY <2>9
  <2>18. VisibilityIs(table[i], c, z)
    BY <2>6, <2>7, <2>8, <2>13, <2>15, <2>16, <2>17 DEF VisibilityIs
  <2> QED BY <2>3, <2>18
<1> QED BY <1>3, <1>6, <1>8

(* Every visibility of the file is the mean of what was recorded in its scans *)
(* and at its frequency, flagged only if all of that was, and was corrected  *)
(* once, for its two antennas, by solutions of its frequency: for every       *)
(* number of antennas, scans, channels and subbands, every averaging, every   *)
(* choice of bad samples and of solutions, as far as ChannelsFit.            *)
THEOREM ContentsAreAtFrequency == Spec => [](ChannelsFit => ContentsAtFrequency)
<1>1. IInv /\ CInv => (ChannelsFit => ContentsAtFrequency)
  BY ContentsFollow
<1> QED BY <1>1, ContentsInvariant, PTL

=============================================================================
