------------------------- MODULE BaselinePoolProofs -------------------------
(***************************************************************************)
(* Proofs about InputMapping, for every number of antennas, every shape of  *)
(* the polyphase filter banks and every table of tiles, and about           *)
(* BaselinePool, which uses it, for every number of antennas, threads and   *)
(* chunks and every set of observations.                                    *)
(***************************************************************************)
EXTENDS BaselinePool, NumberProofs, SequenceTheorems, FiniteSetTheorems, FunctionTheorems, TLAPS

-----------------------------------------------------------------------------
(* The table of a polyphase filter bank is a permutation of the inputs: each  *)
(* bank is a matrix of PFBRows by PFBColumns, which is transposed.           *)
LEMMA PFBShape ==
  ASSUME NEW o \in Outputs
  PROVE  \E q \in Nat, c \in 0..(PFBColumns - 1), r \in 0..(PFBRows - 1) :
           /\ o = q * (PFBColumns * PFBRows) + (r * PFBColumns + c)
           /\ PFBOutputToInput(o) = q * (PFBColumns * PFBRows) + (c * PFBRows + r)
           /\ r * PFBColumns + c \in 0..(PFBColumns * PFBRows - 1)
           /\ c * PFBRows + r \in 0..(PFBColumns * PFBRows - 1)
<1>0. /\ PFBColumns \in Nat \ {0} /\ PFBRows \in Nat \ {0} /\ o \in Nat
      /\ PFBColumns * PFBRows \in Nat \ {0}
  BY MappingAssumption DEF Outputs
<1>1. PICK size \in Nat \ {0} : size = PFBColumns * PFBRows
  BY <1>0
<1>2. PICK q \in Nat, i \in 0..(size - 1) : o \div size = q /\ o % size = i /\ o = q * size + i
  BY <1>0, Division
<1>3. PICK r \in Nat, c \in 0..(PFBColumns - 1) :
        i \div PFBColumns = r /\ i % PFBColumns = c /\ i = r * PFBColumns + c
  BY <1>0, Division
<1>4. r < PFBRows
  <2> SUFFICES ASSUME r >= PFBRows PROVE FALSE
    BY <1>0
  <2>1. r * PFBColumns >= PFBRows * PFBColumns
    <3>1. CASE r = PFBRows
      BY <1>0, <3>1
    <3>2. CASE PFBRows < r
      BY <1>0, <3>2, ProductMonotone
    <3> QED BY <1>0, <3>1, <3>2
  <2>2. PFBRows * PFBColumns = size /\ r * PFBColumns \in Nat
    BY <1>0, <1>1
  <2> QED BY <1>3, <2>1, <2>2
<1>5. c * PFBRows + r \in 0..(size - 1)
  <2>1. c * PFBRows + PFBRows <= PFBColumns * PFBRows /\ c * PFBRows \in Nat
    BY <1>0, ProductMonotone
  <2> QED BY <1>0, <1>1, <1>4, <2>1
<1>6. PFBOutputToInput(o) = q * size + c * PFBRows + r
  BY <1>1, <1>2, <1>3 DEF PFBOutputToInput
<1>7. q * size + c * PFBRows + r = q * size + (c * PFBRows + r)
  BY <1>0
<1>8. r \in 0..(PFBRows - 1)
  BY <1>0, <1>4
<1>9. o = q * size + (r * PFBColumns + c) /\ r * PFBColumns + c \in 0..(size - 1)
  BY <1>2, <1>3
<1>10. /\ o = q * (PFBColumns * PFBRows) + (r * PFBColumns + c)
       /\ PFBOutputToInput(o) = q * (PFBColumns * PFBRows) + (c * PFBRows + r)
       /\ r * PFBColumns + c \in 0..(PFBColumns * PFBRows - 1)
       /\ c * PFBRows + r \in 0..(PFBColumns * PFBRows - 1)
  BY <1>1, <1>5, <1>6, <1>7, <1>9, Zenon
<1> QED BY <1>8, <1>10, Zenon

LEMMA PFBRange ==
  ASSUME NEW o \in Outputs
  PROVE  PFBOutputToInput(o) \in Outputs
<1>0. /\ NAntennae \in Nat \ {0} /\ o \in Nat /\ o < 2 * NAntennae
      /\ PFBColumns * PFBRows \in Nat \ {0} /\ 2 * NAntennae \in Nat
  BY MappingAssumption DEF Outputs
<1>1. PICK size \in Nat \ {0} : size = PFBColumns * PFBRows
  BY <1>0
<1>2. PICK q \in Nat, x \in 0..(size - 1), y \in 0..(size - 1) :
        o = q * size + x /\ PFBOutputToInput(o) = q * size + y
  BY <1>1, PFBShape
<1>3. PICK m \in Nat, z \in 0..(size - 1) : (2 * NAntennae) % size = z /\ 2 * NAntennae = m * size + z
  BY <1>0, Division
<1>4. z = 0 /\ 2 * NAntennae = m * size
  <2>1. (2 * NAntennae) % (PFBColumns * PFBRows) = 0
    BY MappingAssumption
  <2> QED BY <1>1, <1>3, <2>1
<1>5. q < m
  <2> SUFFICES ASSUME m <= q PROVE FALSE
    OBVIOUS
  <2>1. m * size <= q * size /\ q * size \in Nat
    <3>1. CASE m = q
      BY <3>1
    <3>2. CASE m < q
      BY <3>2, ProductMonotone
    <3> QED BY <3>1, <3>2
  <2> QED BY <1>0, <1>2, <1>4, <2>1
<1>6. q * size + size <= m * size /\ q * size \in Nat
  BY <1>5, ProductMonotone
<1> QED BY <1>0, <1>2, <1>4, <1>6 DEF Outputs

LEMMA PFBInjective ==
  ASSUME NEW o1 \in Outputs, NEW o2 \in Outputs, PFBOutputToInput(o1) = PFBOutputToInput(o2)
  PROVE  o1 = o2
<1>0. PFBColumns \in Nat \ {0} /\ PFBRows \in Nat \ {0} /\ PFBColumns * PFBRows \in Nat \ {0}
  BY MappingAssumption
<1>1. PICK q1 \in Nat, c1 \in 0..(PFBColumns - 1), r1 \in 0..(PFBRows - 1) :
           /\ o1 = q1 * (PFBColumns * PFBRows) + (r1 * PFBColumns + c1)
           /\ PFBOutputToInput(o1) = q1 * (PFBColumns * PFBRows) + (c1 * PFBRows + r1)
           /\ c1 * PFBRows + r1 \in 0..(PFBColumns * PFBRows - 1)
  BY PFBShape
<1>2. PICK q2 \in Nat, c2 \in 0..(PFBColumns - 1), r2 \in 0..(PFBRows - 1) :
           /\ o2 = q2 * (PFBColumns * PFBRows) + (r2 * PFBColumns + c2)
           /\ PFBOutputToInput(o2) = q2 * (PFBColumns * PFBRows) + (c2 * PFBRows + r2)
           /\ c2 * PFBRows + r2 \in 0..(PFBColumns * PFBRows - 1)
  BY PFBShape
<1>a. PICK size \in Nat : size = PFBColumns * PFBRows
  BY <1>0
<1>3. PICK x1 \in 0..(size - 1), x2 \in 0..(size - 1) :
        x1 = c1 * PFBRows + r1 /\ x2 = c2 * PFBRows + r2
  BY <1>a, <1>1, <1>2
<1>4. q1 = q2 /\ x1 = x2
  <2>1. q1 * size + x1 = q2 * size + x2
    BY <1>a, <1>1, <1>2, <1>3
  <2> QED BY <2>1, QuotientUnique
<1>5. c1 = c2 /\ r1 = r2
  <2>1. c1 * PFBRows + r1 = c2 * PFBRows + r2
    BY <1>3, <1>4
  <2> QED BY <1>0, <2>1, QuotientUnique
<1> QED BY <1>1, <1>2, <1>4, <1>5

-----------------------------------------------------------------------------
(* The inputs of the antennas.                                               *)
Typed(table) ==
  \A i \in Outputs : table[i].antenna \in Antennae /\ table[i].polarization \in Pols

LEMMA TilesTyped ==
  ASSUME NEW rows \in Seq(TileRow)
  PROVE  Typed(ReadTiles(rows))
<1> SUFFICES ASSUME NEW i \in Outputs
             PROVE  /\ ReadTiles(rows)[i].antenna \in Antennae
                    /\ ReadTiles(rows)[i].polarization \in Pols
  BY DEF Typed
<1> DEFINE Of == {k \in DOMAIN rows : rows[k].input = i}
           last == rows[Max(Of)]
<1>1. ReadTiles(rows)[i] =
        IF Of = {} THEN [antenna |-> 0, polarization |-> 0, isFlagged |-> FALSE]
        ELSE [antenna |-> last.antenna, polarization |-> IF last.pol = "X" THEN 0 ELSE 1,
              isFlagged |-> last.flag]
  BY DEF ReadTiles
<1>2. 0 \in Antennae /\ 0 \in Pols /\ 1 \in Pols
  BY MappingAssumption DEF Antennae, Pols
<1>3. ASSUME Of # {} PROVE last \in TileRow
  <2>1. Of \in SUBSET Nat /\ Len(rows) \in Nat /\ \A k \in Of : k <= Len(rows)
    OBVIOUS
  <2>2. Max(Of) \in Of
    BY <1>3, <2>1, MaxIsGreatest
  <2> QED BY <2>2
<1>4. ASSUME Of # {} PROVE last.antenna \in Antennae
  BY <1>3, <1>4 DEF TileRow
<1> HIDE DEF Of, last
<1>5. CASE Of = {}
  BY <1>1, <1>2, <1>5
<1>6. CASE Of # {}
  BY <1>1, <1>2, <1>4, <1>6
<1> QED BY <1>5, <1>6

(* An output is an antenna and a polarization.                               *)
LEMMA OutputShape ==
  /\ NAntennae \in Nat
  /\ \A o \in Outputs : o \in Nat /\ o \div 2 \in Antennae /\ o % 2 \in Pols
                        /\ (o \div 2) * 2 + (o % 2) = o
  /\ \A a \in Antennae, p \in Pols : a * 2 + p \in Outputs /\ (a * 2 + p) \div 2 = a
  /\ \A a \in Antennae, p \in Pols, c \in Antennae, q \in Pols :
       a * 2 + p = c * 2 + q => a = c /\ p = q
<1>1. NAntennae \in Nat /\ Pols = {0, 1}
  BY MappingAssumption DEF Pols
<1>2. ASSUME NEW o \in Outputs
      PROVE  o \in Nat /\ o \div 2 \in Antennae /\ o % 2 \in Pols /\ (o \div 2) * 2 + (o % 2) = o
  <2>1. o \in Nat /\ o < 2 * NAntennae
    BY <1>1 DEF Outputs
  <2>2. o \div 2 \in Nat /\ o % 2 \in 0..1 /\ o = (o \div 2) * 2 + (o % 2)
    BY <2>1
  <2>3. o \div 2 < NAntennae
    BY <1>1, <2>1, <2>2
  <2> QED BY <1>1, <2>1, <2>2, <2>3 DEF Antennae
<1>3. ASSUME NEW a \in Antennae, NEW p \in Pols
      PROVE  a * 2 + p \in Outputs /\ (a * 2 + p) \div 2 = a
  <2>1. a \in Nat /\ a < NAntennae /\ p \in {0, 1}
    BY <1>1 DEF Antennae
  <2> QED BY <1>1, <2>1 DEF Outputs
<1>4. ASSUME NEW a \in Antennae, NEW p \in Pols, NEW c \in Antennae, NEW q \in Pols,
             a * 2 + p = c * 2 + q
      PROVE  a = c /\ p = q
  BY <1>1, <1>4 DEF Antennae
<1> QED BY <1>1, <1>2, <1>3, <1>4

(* CheckSetup: every antenna has one input for each polarization, which is    *)
(* the one that the map from antennas to inputs gives.                       *)
Wired(table, inputOf) ==
  \A a \in Antennae, p \in Pols :
    /\ inputOf[p][a] \in Outputs
    /\ \A i \in Outputs :
         table[i].antenna = a /\ table[i].polarization = p <=> i = inputOf[p][a]

LEMMA EveryAntennaHasInputs ==
  ASSUME NEW table, Typed(table), CheckSetup(table), NEW a \in Antennae, NEW p \in Pols
  PROVE  \E i \in Outputs : table[i].antenna = a /\ table[i].polarization = p
<1> DEFINE S == {table[i].antenna : i \in InputsOf(table, p)}
<1>1. Cardinality(S) = NAntennae
  BY DEF CheckSetup
<1>2. IsFiniteSet(Antennae) /\ Cardinality(Antennae) = NAntennae
  BY FS_Interval, MappingAssumption DEF Antennae
<1>3. S \in SUBSET Antennae
  BY DEF Typed, InputsOf
<1>4. S = Antennae
  BY <1>1, <1>2, <1>3, FS_Subset
<1> QED BY <1>4 DEF InputsOf

LEMMA InputsAreWired ==
  ASSUME NEW table, Typed(table), CheckSetup(table)
  PROVE  Wired(table, AntennaInputs(table))
<1> DEFINE F == [i \in Outputs |-> table[i].antenna * 2 + table[i].polarization]
<1>1. F \in Surjection(Outputs, Outputs)
  <2>1. F \in [Outputs -> Outputs]
    <3>1. ASSUME NEW i \in Outputs
          PROVE  table[i].antenna * 2 + table[i].polarization \in Outputs
      <4>1. table[i].antenna \in Antennae /\ table[i].polarization \in Pols
        BY DEF Typed
      <4> QED BY <4>1, OutputShape
    <3> QED BY <3>1
  <2>2. ASSUME NEW o \in Outputs PROVE \E i \in Outputs : F[i] = o
    <3>1. PICK i \in Outputs : table[i].antenna = o \div 2 /\ table[i].polarization = o % 2
      BY OutputShape, EveryAntennaHasInputs
    <3>2. (o \div 2) * 2 + (o % 2) = o
      BY OutputShape
    <3> QED BY <3>1, <3>2
  <2> QED BY <2>1, <2>2 DEF Surjection
<1>2. F \in Injection(Outputs, Outputs)
  <2>1. IsFiniteSet(Outputs)
    BY FS_Interval, MappingAssumption DEF Outputs
  <2> QED BY <1>1, <2>1, FS_SurjSameCardinalityImpliesInj
<1>3. ASSUME NEW i \in Outputs, NEW j \in Outputs,
             table[i].antenna = table[j].antenna, table[i].polarization = table[j].polarization
      PROVE  i = j
  BY <1>2, <1>3 DEF Injection, IsInjective
<1> SUFFICES ASSUME NEW a \in Antennae, NEW p \in Pols
             PROVE  /\ AntennaInputs(table)[p][a] \in Outputs
                    /\ \A i \in Outputs : table[i].antenna = a /\ table[i].polarization = p
                                          <=> i = AntennaInputs(table)[p][a]
  BY DEF Wired
<1> DEFINE S == {i \in InputsOf(table, p) : table[i].antenna = a}
<1>4. PICK i \in Outputs : table[i].antenna = a /\ table[i].polarization = p
  BY EveryAntennaHasInputs
<1>5. Min(S) \in S
  <2>1. S \in SUBSET Nat /\ i \in S
    BY <1>4, OutputShape DEF InputsOf
  <2> HIDE DEF S
  <2>2. S # {}
    BY <2>1
  <2> QED BY <2>1, <2>2, MinIsLeast
<1>6. Min(S) = i
  BY <1>3, <1>4, <1>5 DEF InputsOf
<1>7. AntennaInputs(table)[p][a] = Min(S)
  BY DEF AntennaInputs
<1> QED BY <1>3, <1>4, <1>6, <1>7

(* Every input comes from one place of the filter banks' output.             *)
LEMMA SourceOf ==
  ASSUME NEW i \in Outputs
  PROVE  \E x \in Outputs : \A y \in Outputs : PFBOutputToInput(y) = i <=> y = x
<1> DEFINE P == [o \in Outputs |-> PFBOutputToInput(o)]
<1>1. P \in Injection(Outputs, Outputs)
  BY PFBRange, PFBInjective DEF Injection, IsInjective
<1>2. P \in Surjection(Outputs, Outputs)
  <2>1. IsFiniteSet(Outputs)
    BY FS_Interval, MappingAssumption DEF Outputs
  <2> QED BY <1>1, <2>1, FS_Injection
<1>3. PICK x \in Outputs : PFBOutputToInput(x) = i
  BY <1>2 DEF Surjection
<1> QED BY <1>3, PFBInjective

(* What happens to the product of two inputs on its way from the filter banks *)
(* through a gpubox file into a buffer: it ends up in the buffer of their     *)
(* antennas and polarizations, in this order or, when the buffer is marked,   *)
(* conjugated.                                                               *)
THEOREM ProductsArePlaced ==
  ASSUME NEW table, NEW inputOf, Typed(table), Wired(table, inputOf),
         NEW a1 \in Antennae, NEW p1 \in Pols, NEW a2 \in Antennae, NEW p2 \in Pols,
         a1 <= a2, a1 # a2 \/ p1 = p2
  PROVE  LET d == <<a1 * 2 + p1, a2 * 2 + p2>>
         IN  Shuffled(table, d) = IF IsConjugated(table, d)
                                   THEN <<inputOf[p2][a2], inputOf[p1][a1]>>
                                   ELSE <<inputOf[p1][a1], inputOf[p2][a2]>>
<1> DEFINE o1 == a1 * 2 + p1
           o2 == a2 * 2 + p2
           i1 == inputOf[p1][a1]
           i2 == inputOf[p2][a2]
<1>1. i1 \in Outputs /\ i2 \in Outputs
  BY DEF Wired
<1>2. PICK x1 \in Outputs : \A y \in Outputs : PFBOutputToInput(y) = i1 <=> y = x1
  BY <1>1, SourceOf
<1>3. PICK x2 \in Outputs : \A y \in Outputs : PFBOutputToInput(y) = i2 <=> y = x2
  BY <1>1, SourceOf
<1>4. ASSUME NEW a \in Antennae, NEW p \in Pols, NEW i \in Outputs
      PROVE  /\ CorrInputToOutput(table, i) \in Outputs
             /\ CorrInputToOutput(table, i) = a * 2 + p <=> i = inputOf[p][a]
  <2>1. table[i].antenna \in Antennae /\ table[i].polarization \in Pols
    BY DEF Typed
  <2>2. table[i].antenna = a /\ table[i].polarization = p <=> i = inputOf[p][a]
    BY DEF Wired
  <2>3. CorrInputToOutput(table, i) = a * 2 + p <=>
          table[i].antenna = a /\ table[i].polarization = p
    <3>1. PICK c \in Antennae, q \in Pols : c = table[i].antenna /\ q = table[i].polarization
      BY <2>1
    <3>2. CorrInputToOutput(table, i) = c * 2 + q
      BY <3>1 DEF CorrInputToOutput
    <3>3. c * 2 + q = a * 2 + p <=> c = a /\ q = p
      BY OutputShape
    <3> QED BY <3>1, <3>2, <3>3
  <2>4. CorrInputToOutput(table, i) \in Outputs
    BY <2>1, OutputShape DEF CorrInputToOutput
  <2> QED BY <2>2, <2>3, <2>4
<1> DEFINE G(y) == CorrInputToOutput(table, PFBOutputToInput(y))
<1>5. ASSUME NEW y \in Outputs
      PROVE  G(y) \in Outputs /\ (G(y) = o1 <=> y = x1) /\ (G(y) = o2 <=> y = x2)
  <2>1. PFBOutputToInput(y) \in Outputs
    BY PFBRange
  <2> QED BY <1>2, <1>3, <1>4, <2>1
<1>6. /\ a1 \in Nat /\ a2 \in Nat /\ p1 \in {0, 1} /\ p2 \in {0, 1} /\ o1 \in Nat /\ o2 \in Nat
      /\ o1 \div 2 = a1 /\ o2 \div 2 = a2
      /\ o1 <= o2 /\ (a1 = a2 => o1 = o2) /\ (o1 = o2 <=> x1 = x2) /\ (o1 = o2 => i1 = i2)
  <2>1. a1 \in Nat /\ a2 \in Nat /\ p1 \in {0, 1} /\ p2 \in {0, 1}
    BY DEF Antennae, Pols
  <2>2. o1 \in Nat /\ o2 \in Nat /\ o1 <= o2 /\ (a1 = a2 => o1 = o2)
    BY <2>1
  <2>3. o1 \div 2 = a1 /\ o2 \div 2 = a2
    BY OutputShape
  <2>4. o1 = o2 <=> x1 = x2
    <3>1. G(x1) = o1 /\ G(x2) = o2 /\ (G(x2) = o1 <=> x2 = x1)
      BY <1>5
    <3> QED BY <3>1
  <2>5. o1 = o2 => i1 = i2
    BY <1>2, <1>3, <2>4
  <2> QED BY <2>1, <2>2, <2>3, <2>4, <2>5
<1> HIDE DEF o1, o2, i1, i2
<1>7. ASSUME NEW e \in Elements
      PROVE  /\ Source1(e) \in Outputs /\ Source2(e) \in Outputs
             /\ Actual1(table, e) = G(Source1(e)) /\ Actual2(table, e) = G(Source2(e))
             /\ Destination(table, e) = <<o1, o2>> <=>
                  \/ Source1(e) = x1 /\ Source2(e) = x2
                  \/ Source1(e) = x2 /\ Source2(e) = x1
  <2>1. Source1(e) \in Outputs /\ Source2(e) \in Outputs
    BY OutputShape DEF Elements, Source1, Source2
  <2>2. Actual1(table, e) = G(Source1(e)) /\ Actual2(table, e) = G(Source2(e))
    BY DEF Actual1, Actual2
  <2>3. PICK A1 \in Nat, A2 \in Nat :
          /\ A1 = Actual1(table, e) /\ A2 = Actual2(table, e)
          /\ A1 = o1 <=> Source1(e) = x1
          /\ A1 = o2 <=> Source1(e) = x2
          /\ A2 = o1 <=> Source2(e) = x1
          /\ A2 = o2 <=> Source2(e) = x2
    <3>1. G(Source1(e)) \in Nat /\ G(Source2(e)) \in Nat
      BY <1>5, <2>1, OutputShape
    <3> HIDE DEF G
    <3> QED BY <1>5, <2>1, <2>2, <3>1
  <2>4. Destination(table, e) = IF A2 \div 2 <= A1 \div 2 THEN <<A2, A1>> ELSE <<A1, A2>>
    BY <2>3 DEF Destination
  <2>5. Destination(table, e) = <<o1, o2>> <=> (A1 = o1 /\ A2 = o2) \/ (A1 = o2 /\ A2 = o1)
    BY <1>6, <2>4
  <2> QED BY <2>1, <2>2, <2>3, <2>5
<1>8. PICK hi \in Outputs, lo \in Outputs :
        IF x2 <= x1 THEN hi = x1 /\ lo = x2 ELSE hi = x2 /\ lo = x1
  OBVIOUS
<1> DEFINE last == [s1 |-> hi \div 2, p1 |-> hi % 2, s2 |-> lo \div 2, p2 |-> lo % 2]
<1>9. hi \in Nat /\ lo \in Nat /\ x1 \in Nat /\ x2 \in Nat /\ lo <= hi
  <2>1. hi \in Nat /\ lo \in Nat /\ x1 \in Nat /\ x2 \in Nat
    BY OutputShape
  <2> QED BY <1>8, <2>1
<1>10. last \in Elements /\ Source1(last) = hi /\ Source2(last) = lo
  <2>1. /\ hi \div 2 \in Antennae /\ hi % 2 \in Pols /\ (hi \div 2) * 2 + (hi % 2) = hi
        /\ lo \div 2 \in Antennae /\ lo % 2 \in Pols /\ (lo \div 2) * 2 + (lo % 2) = lo
    BY OutputShape
  <2>2. lo \div 2 <= hi \div 2
    BY <1>9
  <2> QED BY <2>1, <2>2 DEF Elements, Source1, Source2
<1> HIDE DEF G
<1>11. PICK e \in Elements : /\ Source1(e) = hi /\ Source2(e) = lo
                             /\ Shuffled(table, <<o1, o2>>) = ElementProduct(e)
  <2> DEFINE W == Writers(table, <<o1, o2>>)
             Latest(e) == \A f \in W : 2 * f.p1 + f.p2 <= 2 * e.p1 + e.p2
  <2>1. ASSUME NEW f \in W
        PROVE  /\ f \in Elements
               /\ \/ Source1(f) = hi /\ Source2(f) = lo
                  \/ Source1(f) = lo /\ Source2(f) = hi
    BY <1>7, <1>8 DEF Writers
  <2>2. last \in W
    BY <1>7, <1>8, <1>10 DEF Writers
  <2>3. ASSUME NEW f \in Elements
        PROVE  /\ f.p1 \in {0, 1} /\ f.p2 \in {0, 1} /\ f.s1 \in Nat /\ f.s2 \in Nat
               /\ f.s2 <= f.s1
               /\ Source1(f) = f.s1 * 2 + f.p1 /\ Source2(f) = f.s2 * 2 + f.p2
    BY DEF Elements, Source1, Source2, Pols, Antennae
  <2>4. ASSUME NEW f \in W, Source1(f) = hi, Source2(f) = lo
        PROVE  f.p1 = last.p1 /\ f.p2 = last.p2
    <3>1. f.s1 * 2 + f.p1 = last.s1 * 2 + last.p1 /\ f.s2 * 2 + f.p2 = last.s2 * 2 + last.p2
      BY <1>10, <2>1, <2>3, <2>4
    <3> QED BY <1>10, <2>1, <2>3, <3>1
  <2>5. ASSUME NEW f \in W, ~(Source1(f) = hi /\ Source2(f) = lo)
        PROVE  f.p1 = 0 /\ f.p2 = 1 /\ last.p1 = 1 /\ last.p2 = 0
    <3>1. /\ f.s1 * 2 + f.p1 = last.s2 * 2 + last.p2 /\ f.s2 * 2 + f.p2 = last.s1 * 2 + last.p1
          /\ last.s2 * 2 + last.p2 < last.s1 * 2 + last.p1
      BY <1>9, <1>10, <2>1, <2>3, <2>5
    <3> QED BY <1>10, <2>1, <2>3, <3>1
  <2> HIDE DEF last
  <2>6. Latest(last)
    BY <1>10, <2>1, <2>3, <2>4, <2>5
  <2>7. ASSUME NEW f \in W, Latest(f) PROVE Source1(f) = hi /\ Source2(f) = lo
    BY <1>10, <2>1, <2>2, <2>3, <2>5, <2>7
  <2>8. Shuffled(table, <<o1, o2>>) = ElementProduct(CHOOSE f \in W : Latest(f))
    BY <2>2 DEF Shuffled
  <2>9. (CHOOSE f \in W : Latest(f)) \in W /\ Latest(CHOOSE f \in W : Latest(f))
    BY <2>2, <2>6
  <2> QED BY <2>1, <2>7, <2>8, <2>9
<1>12. ElementProduct(e) = <<PFBOutputToInput(hi), PFBOutputToInput(lo)>>
  BY <1>11 DEF ElementProduct
<1>13. PFBOutputToInput(x1) = i1 /\ PFBOutputToInput(x2) = i2
  BY <1>2, <1>3
<1>14. IsConjugated(table, <<o1, o2>>) <=> x1 < x2
  <2>1. ASSUME NEW f \in Elements, Destination(table, f) = <<o1, o2>>
        PROVE  (\/ Actual2(table, f) < Actual1(table, f) /\ Source2(f) < Source1(f)
                \/ Actual2(table, f) > Actual1(table, f) /\ Source2(f) > Source1(f))
               <=> x1 < x2
    <3>1. CASE Source1(f) = x1 /\ Source2(f) = x2
      <4>1. Actual1(table, f) = o1 /\ Actual2(table, f) = o2
        BY <1>5, <1>7, <3>1
      <4> QED BY <1>6, <1>9, <3>1, <4>1
    <3>2. CASE Source1(f) = x2 /\ Source2(f) = x1
      <4>1. Actual1(table, f) = o2 /\ Actual2(table, f) = o1
        BY <1>5, <1>7, <3>2
      <4> QED BY <1>6, <1>9, <3>2, <4>1
    <3> QED BY <1>7, <2>1, <3>1, <3>2
  <2>2. \E f \in Elements : Destination(table, f) = <<o1, o2>>
    BY <1>7, <1>8, <1>10
  <2> QED BY <2>1, <2>2 DEF IsConjugated
<1>15. Shuffled(table, <<o1, o2>>) = IF x1 < x2 THEN <<i2, i1>> ELSE <<i1, i2>>
  BY <1>8, <1>9, <1>11, <1>12, <1>13
<1> QED BY <1>14, <1>15 DEF o1, o2, i1, i2

(* A buffer holds a product of two inputs of the observation, or nothing.    *)
LEMMA ShuffledRange ==
  ASSUME NEW table, NEW d
  PROVE  Shuffled(table, d) \in (Outputs \X Outputs) \union {NoProduct}
<1> DEFINE W == Writers(table, d)
           Latest(e) == \A f \in W : 2 * f.p1 + f.p2 <= 2 * e.p1 + e.p2
           value(e) == 2 * e.p1 + e.p2
<1>1. ASSUME NEW e \in Elements PROVE ElementProduct(e) \in Outputs \X Outputs
  <2>1. Source1(e) \in Outputs /\ Source2(e) \in Outputs
    BY OutputShape DEF Elements, Source1, Source2
  <2> QED BY <2>1, PFBRange DEF ElementProduct
<1>2. ASSUME NEW e \in W PROVE e \in Elements /\ value(e) \in 0..3
  BY DEF Writers, Elements, Pols
<1>3. ASSUME W # {} PROVE \E e \in W : Latest(e)
  <2> DEFINE V == {value(e) : e \in W}
  <2> HIDE DEF W, value
  <2>1. V \in SUBSET Nat /\ V # {} /\ \A v \in V : v <= 3
    BY <1>2, <1>3
  <2>2. Max(V) \in V /\ \A v \in V : Max(V) >= v
    <3> HIDE DEF V
    <3> QED BY <2>1, MaxIsGreatest
  <2>3. PICK e \in W : Max(V) = value(e)
    BY <2>2
  <2>4. \A f \in W : value(f) <= value(e)
    BY <2>2, <2>3
  <2> QED BY <2>4 DEF value
<1>4. W # {} => /\ Shuffled(table, d) = ElementProduct(CHOOSE e \in W : Latest(e))
                /\ (CHOOSE e \in W : Latest(e)) \in W
  BY <1>3 DEF Shuffled
<1>5. W = {} => Shuffled(table, d) = NoProduct
  BY DEF Shuffled
<1> HIDE DEF W, Latest
<1> QED BY <1>1, <1>2, <1>4, <1>5

-----------------------------------------------------------------------------
(* How far the threads and the loops are.  A thread that has found the queue *)
(* empty leaves it empty, since nothing is queued while threads run.         *)
Returned == \A t \in Threads : at[t] = "returned"

Discipline ==
  /\ pc \notin {"done", "terminated"} => chunk \in 1..NChunks
  /\ pc = "done" => chunk = NChunks + 1
  /\ pc \notin {"join", "terminated"} => Returned
  /\ pc \in {"read", "write", "done"} => queue = <<>>
  /\ \A t \in Threads :
       /\ pc = "join" /\ at[t] \in {"merge", "add", "returned"} => queue = <<>>
       /\ at[t] \in {"front", "pop"} => queue # <<>>
       /\ at[t] = "pop" => baseline[t] = <<Head(queue)>>
       /\ Working(t) => baseline[t] # <<>>
       /\ at[t] = "add" => (sawNone[t] <=> statistics = <<>>)

(* The baselines queued are those before the one the loops are at; each is   *)
(* queued once, and no longer when a thread works on it.                     *)
Before(b, c) == b[1] < c[1] \/ (b[1] = c[1] /\ b[2] < c[2])

QueuedOnce ==
  /\ IsInjective(queue)
  /\ pc = "queue" => \A b \in Baselines : b \in ToSet(queue) <=> Before(b, loop)
  /\ \A t \in Threads : Working(t) => Held(t) \notin ToSet(queue)
  /\ \A t, u \in Threads : Working(t) /\ Working(u) /\ Held(t) = Held(u) => t = u

(* Baselines that are queued, or with a thread that is at one of the points S. *)
Pending(b, S) == b \in ToSet(queue) \/ \E t \in Threads : at[t] \in S /\ Held(t) = b

(* Image sets: those of the baselines that no thread has corrected are as     *)
(* they were read, the others are corrected.                                 *)
AsRead(b, p) == [of |-> Shuffled(inputs, Outs(b, p)), delays |-> <<>>, gains |-> <<>>]
AsCorrected(b, p) == Corrected(AsRead(b, p), b, p)
ConjugatedOuts == {d \in {Outs(b, p) : b \in Baselines, p \in Products} : IsConjugated(inputs, d)}

ImagesAre ==
  /\ pc \in {"queue", "join", "write"} =>
       /\ isConjugated = ConjugatedOuts
       /\ images = [b \in Baselines |-> [p \in Products |-> images[b][p]]]
  /\ pc = "queue" => \A b \in Baselines, p \in Products : images[b][p] = AsRead(b, p)
  /\ pc \in {"join", "write"} =>
       \A b \in Baselines, p \in Products :
         images[b][p] = IF Pending(b, {"correct"}) THEN AsRead(b, p) ELSE AsCorrected(b, p)

(* The map of flags, likewise.                                               *)
Unflagged == IF opt.flagFiles THEN {"file"} ELSE Placeholder
Flags(b) == IF IsAuto(b) /\ opt.flagAutos THEN {"all"} ELSE FlagMask(b, Unflagged)

FlagsAre ==
  /\ pc = "read" => \A b \in Baselines : flagBuffers[b] = NoMask
  /\ pc = "queue" =>
       \A b \in Baselines : flagBuffers[b] = IF Before(b, loop) THEN Placeholder ELSE NoMask
  /\ pc \in {"join", "write"} =>
       /\ \A b \in Baselines : flagBuffers[b] = IF Pending(b, {"correct", "flag", "store"})
                                                THEN Unflagged ELSE Flags(b)
       /\ \A t \in Threads : at[t] = "store" => mask[t] = FlagMask(Held(t), Unflagged)

(* Statistics: a baseline that is counted is so either in _statistics or in   *)
(* those of one thread that still has to add them.                           *)
Merged(c, b) == IF statistics = <<>> THEN 0 ELSE statistics[1][c][b]
Unmerged(t) == at[t] \notin {"start", "returned"}
Mine(t, c, b) == IF Unmerged(t) THEN counts[t][c][b] ELSE 0

CountedOnce(b) ==
  \/ Merged(chunk, b) = 1 /\ \A t \in Threads : Mine(t, chunk, b) = 0
  \/ /\ Merged(chunk, b) = 0
     /\ \E t \in Threads : Mine(t, chunk, b) = 1 /\ \A u \in Threads \ {t} : Mine(u, chunk, b) = 0

StatisticsAre ==
  opt.collectStatistics /\ pc # "terminated" =>
    /\ \A b \in Baselines, c \in 1..NChunks : c # chunk =>
         /\ Merged(c, b) = IF c < chunk THEN 1 ELSE 0
         /\ \A t \in Threads : Mine(t, c, b) = 0
    /\ pc \in {"read", "queue"} => \A b \in Baselines : Merged(chunk, b) = 0
    /\ pc \in {"join", "write"} =>
         \A b \in Baselines :
           IF Pending(b, {"correct", "flag"})
           THEN Merged(chunk, b) = 0 /\ \A t \in Threads : Mine(t, chunk, b) = 0
           ELSE CountedOnce(b)

-----------------------------------------------------------------------------
(* The constants.                                                            *)
LEMMA Constants ==
  /\ NAntennae \in Nat /\ NAntennae > 0
  /\ NChunks \in Nat /\ NChunks > 0
  /\ 1 \in Threads /\ Free \notin Threads
  /\ \A b \in Baselines : b[1] \in Antennae /\ b[2] \in Antennae /\ b = <<b[1], b[2]>>
                          /\ b[1] <= b[2] /\ b[1] \in Nat /\ b[2] \in Nat
  /\ <<0, 0>> \in Baselines
BY MappingAssumption, PoolAssumption DEF Threads, Free, Baselines, Antennae

(* The loops go through the baselines in the order Before.                   *)
LEMMA LoopFromStart ==
  /\ LoopEnd \notin Baselines
  /\ \A b \in Baselines : ~Before(b, <<0, 0>>)
  /\ \A b \in Baselines : Before(b, LoopEnd)
BY Constants DEF LoopEnd, Before, Antennae, Baselines

LEMMA LoopStep ==
  ASSUME NEW l \in Baselines
  PROVE  /\ NextInLoop(l) \in Baselines \union {LoopEnd}
         /\ ~Before(l, l)
         /\ \A b \in Baselines : Before(b, NextInLoop(l)) <=> Before(b, l) \/ b = l
<1>1. /\ NAntennae \in Nat /\ l[1] \in Nat /\ l[2] \in Nat /\ l[1] <= l[2] /\ l[2] < NAntennae
      /\ l = <<l[1], l[2]>>
  BY Constants DEF Antennae
<1>2. CASE l[2] + 1 < NAntennae
  <2>1. NextInLoop(l) = <<l[1], l[2] + 1>>
    BY <1>2 DEF NextInLoop
  <2>2. NextInLoop(l) \in Baselines
    BY <1>1, <1>2, <2>1 DEF Baselines, Antennae
  <2>3. ASSUME NEW b \in Baselines
        PROVE  Before(b, NextInLoop(l)) <=> Before(b, l) \/ b = l
    BY <1>1, <2>1, Constants DEF Before
  <2> QED BY <1>1, <2>2, <2>3 DEF Before
<1>3. CASE ~(l[2] + 1 < NAntennae)
  <2>1. NextInLoop(l) = <<l[1] + 1, l[1] + 1>>
    BY <1>3 DEF NextInLoop
  <2>2. NextInLoop(l) \in Baselines \union {LoopEnd}
    BY <1>1, <1>3, <2>1 DEF Baselines, Antennae, LoopEnd
  <2>3. ASSUME NEW b \in Baselines
        PROVE  Before(b, NextInLoop(l)) <=> Before(b, l) \/ b = l
    BY <1>1, <1>3, <2>1, Constants DEF Before, Antennae
  <2> QED BY <1>1, <2>2, <2>3 DEF Before
<1> QED BY <1>2, <1>3

(* What a queue holds after push and after pop.                              *)
LEMMA Pushed ==
  ASSUME NEW S, NEW q \in Seq(S), NEW b \in S
  PROVE  /\ ToSet(Append(q, b)) = ToSet(q) \union {b}
         /\ IsInjective(q) /\ b \notin ToSet(q) => IsInjective(Append(q, b))
<1>1. /\ Len(Append(q, b)) = Len(q) + 1 /\ Len(q) \in Nat
      /\ \A i \in 1..Len(q) : Append(q, b)[i] = q[i]
      /\ Append(q, b)[Len(q) + 1] = b
      /\ DOMAIN Append(q, b) = 1..(Len(q) + 1) /\ DOMAIN q = 1..Len(q)
  BY AppendProperties, LenProperties
<1> QED BY <1>1 DEF ToSet, IsInjective

LEMMA Popped ==
  ASSUME NEW S, NEW q \in Seq(S), q # <<>>
  PROVE  /\ Tail(q) \in Seq(S) /\ Head(q) \in S /\ Head(q) \in ToSet(q)
         /\ ToSet(Tail(q)) \subseteq ToSet(q)
         /\ IsInjective(q) => /\ ToSet(Tail(q)) = ToSet(q) \ {Head(q)}
                              /\ IsInjective(Tail(q))
<1>1. /\ Tail(q) \in Seq(S) /\ Head(q) = q[1] /\ Len(q) \in Nat /\ Len(q) > 0
      /\ Len(Tail(q)) = Len(q) - 1
      /\ \A i \in 1..Len(Tail(q)) : Tail(q)[i] = q[i + 1]
      /\ DOMAIN Tail(q) = 1..(Len(q) - 1) /\ DOMAIN q = 1..Len(q)
  BY HeadTailProperties, LenProperties, EmptySeq
<1>2. Head(q) \in S /\ Head(q) \in ToSet(q)
  BY <1>1 DEF ToSet
<1>3. ToSet(Tail(q)) \subseteq ToSet(q)
  BY <1>1 DEF ToSet
<1>4. ASSUME IsInjective(q)
      PROVE  IsInjective(Tail(q)) /\ ToSet(Tail(q)) = ToSet(q) \ {Head(q)}
  <2>1. IsInjective(Tail(q))
    BY <1>1, <1>4 DEF IsInjective
  <2>2. ASSUME NEW x \in ToSet(Tail(q)) PROVE x # Head(q)
    BY <1>1, <1>4 DEF ToSet, IsInjective
  <2>3. ASSUME NEW x \in ToSet(q), x # Head(q) PROVE x \in ToSet(Tail(q))
    <3>1. PICK i \in 1..Len(q) : x = q[i]
      BY <1>1 DEF ToSet
    <3>2. i # 1 /\ i - 1 \in 1..(Len(q) - 1) /\ Tail(q)[i - 1] = q[(i - 1) + 1] /\ (i - 1) + 1 = i
      BY <1>1, <2>3, <3>1
    <3> QED BY <1>1, <3>1, <3>2 DEF ToSet
  <2> QED BY <1>3, <2>1, <2>2, <2>3
<1> QED BY <1>1, <1>2, <1>3, <1>4

-----------------------------------------------------------------------------
(* Type correctness, together with the discipline of the threads.            *)
LEMMA CountsClosed ==
  /\ NoCounts \in Counts
  /\ \A u \in Counts, v \in Counts : Plus(u, v) \in Counts
  /\ \A u \in Counts, c \in 1..NChunks, b \in Baselines : Counted(u, c, b) \in Counts
<1>1. NoCounts \in Counts
  BY DEF NoCounts, Counts
<1>2. ASSUME NEW u \in Counts, NEW v \in Counts PROVE Plus(u, v) \in Counts
  <2>1. \A c \in 1..NChunks, b \in Baselines : u[c][b] + v[c][b] \in Nat
    BY DEF Counts
  <2> QED BY <2>1 DEF Plus, Counts
<1>3. ASSUME NEW u \in Counts, NEW c \in 1..NChunks, NEW b \in Baselines
      PROVE  Counted(u, c, b) \in Counts
  <2>1. u[c] \in [Baselines -> Nat] /\ u[c][b] \in Nat
    BY DEF Counts
  <2>2. [u[c] EXCEPT ![b] = @ + 1] \in [Baselines -> Nat]
    BY <2>1
  <2> QED BY <2>2 DEF Counted, Counts
<1> QED BY <1>1, <1>2, <1>3

LEMMA StateStep ==
  ASSUME StateOK, Discipline, [Next]_vars
  PROVE  StateOK'
<1> USE DEF StateOK
<1>1. CASE UNCHANGED vars
  BY <1>1 DEF vars, settings, imageVars, threadVars
<1>2. CASE Read
  BY <1>2, Constants DEF Read, threadVars, settings
<1>3. CASE QueueBaseline
  <2>1. loop \in Baselines /\ flagBuffers[loop] \in Masks /\ Placeholder \in Masks
    BY <1>3 DEF QueueBaseline, Placeholder, Masks
  <2>2. queue' \in Seq(Baselines) /\ loop' \in Baselines \union {LoopEnd}
    BY <1>3, <2>1, LoopStep, AppendProperties DEF QueueBaseline
  <2>3. flagBuffers' \in [Baselines -> Masks]
    BY <1>3, <2>1 DEF QueueBaseline
  <2> QED BY <1>3, <2>2, <2>3 DEF QueueBaseline, threadVars
<1>4. CASE StartThreads
  <2>1. flagBuffers' \in [Baselines -> Masks]
    BY <1>4 DEF StartThreads, Masks
  <2>2. \A t \in Threads : at[t] = "returned" /\ at'[t] = "start"
    BY <1>4 DEF StartThreads, Discipline, Returned
  <2>3. \A t \in Threads : at'[t] \in {"front", "pop", "merge", "add"} <=> mutex' = t
    BY <1>4, <2>2 DEF StartThreads
  <2> QED BY <1>4, <2>1, <2>2, <2>3 DEF StartThreads
<1>5. CASE Join
  BY <1>5 DEF Join, threadVars
<1>6. CASE Write
  <2>1. chunk' \in 1..(NChunks + 1)
    BY <1>6, Constants DEF Write, Discipline
  <2>2. flagBuffers' \in [Baselines -> Masks]
    BY <1>6 DEF Write, Masks, NoMask
  <2> QED BY <1>6, <2>1, <2>2 DEF Write, threadVars
<1>7. ASSUME NEW t \in Threads, Thread(t) \/ Throw(t) PROVE StateOK'
  <2>0. pc = "join" \/ pc = "terminated"
    BY <1>7 DEF Thread, Throw, Start, Lock, TakeFront, Pop, Correct, Flag, Store, FindStatistics,
                AddStatistics, At, Discipline, Returned
  <2>1. CASE Start(t)
    <3>1. counts' \in [Threads -> Counts]
      BY <2>1, CountsClosed DEF Start
    <3> QED BY <2>1, <3>1 DEF Start, At, Goto, imageVars
  <2>2. CASE Lock(t)
    BY <2>2, Constants DEF Lock, At, Goto, imageVars
  <2>3. CASE TakeFront(t)
    <3>1. Head(queue) \in Baselines
      BY <2>3, Popped DEF TakeFront
    <3>2. baseline' \in [Threads -> Seq(Baselines)] /\ \A u \in Threads : Len(baseline'[u]) <= 1
      <4>1. <<Head(queue)>> \in Seq(Baselines) /\ Len(<<Head(queue)>>) = 1
        BY <3>1
      <4> QED BY <2>3, <4>1 DEF TakeFront
    <3> QED BY <2>3, <3>2 DEF TakeFront, At, Goto, imageVars
  <2>4. CASE Pop(t)
    <3>1. queue' \in Seq(Baselines)
      BY <2>4, Popped DEF Pop
    <3> QED BY <2>4, <3>1, Constants DEF Pop, At, Goto, imageVars
  <2>5. CASE Correct(t)
    BY <2>5 DEF Correct, At, Goto
  <2>6. CASE Flag(t)
    <3>1. chunk \in 1..NChunks /\ Held(t) \in Baselines
      <4>1. baseline[t] \in Seq(Baselines) /\ baseline[t] # <<>>
        BY <2>6 DEF Flag, At, Discipline, Working
      <4> QED BY <2>0, <2>6, <4>1, EmptySeq DEF Flag, At, Discipline, Held
    <3>2. counts' \in [Threads -> Counts]
      <4>1. Counted(counts[t], chunk, Held(t)) \in Counts
        BY <3>1, CountsClosed
      <4> QED BY <2>6, <4>1 DEF Flag
    <3>3. mask' \in [Threads -> Masks]
      <4>1. FlagMask(Held(t), flagBuffers[Held(t)]) \in Masks
        BY <3>1 DEF FlagMask, Masks
      <4> QED BY <2>6, <4>1 DEF Flag
    <3> QED BY <2>6, <3>2, <3>3 DEF Flag, At, Goto, imageVars
  <2>7. CASE Store(t)
    <3>1. flagBuffers' \in [Baselines -> Masks]
      <4>1. {"all"} \in Masks /\ mask[t] \in Masks
        BY DEF Masks
      <4> QED BY <2>7, <4>1 DEF Store
    <3> QED BY <2>7, <3>1 DEF Store, At, Goto, imageVars
  <2>8. CASE FindStatistics(t)
    <3>1. sawNone' \in [Threads -> BOOLEAN]
      BY <2>8, Zenon DEF FindStatistics
    <3> QED BY <2>8, <3>1 DEF FindStatistics, At, Goto, imageVars
  <2>9. CASE AddStatistics(t)
    <3>1. statistics' \in Seq(Counts) /\ Len(statistics') <= 1
      <4>1. counts[t] \in Counts
        OBVIOUS
      <4>2. ~sawNone[t] => statistics # <<>>
        BY <2>9 DEF AddStatistics, At, Discipline
      <4>3. ~sawNone[t] => Plus(statistics[1], counts[t]) \in Counts
        BY <4>1, <4>2, CountsClosed, EmptySeq
      <4> QED BY <2>9, <4>1, <4>3 DEF AddStatistics
    <3> QED BY <2>9, <3>1, Constants DEF AddStatistics, At, Goto, imageVars
  <2>10. CASE Throw(t)
    BY <2>10 DEF Throw, threadVars
  <2> QED BY <1>7, <2>1, <2>2, <2>3, <2>4, <2>5, <2>6, <2>7, <2>8, <2>9, <2>10 DEF Thread
<1> QED BY <1>1, <1>2, <1>3, <1>4, <1>5, <1>6, <1>7 DEF Next, CotterStep, Stopped

(* A thread moves only while the others do, or have returned.                *)
LEMMA ThreadsRun ==
  ASSUME StateOK, Discipline, NEW t \in Threads, Thread(t)
  PROVE  /\ pc = "join" /\ pc' = "join" /\ chunk' = chunk /\ chunk \in 1..NChunks
         /\ UNCHANGED settings
<1>1. pc # "terminated" /\ at[t] # "returned" /\ pc' = pc /\ chunk' = chunk /\ UNCHANGED settings
  BY DEF Thread, Start, Lock, TakeFront, Pop, Correct, Flag, Store, FindStatistics,
         AddStatistics, At
<1> QED BY <1>1 DEF Discipline, Returned

LEMMA DisciplineStep ==
  ASSUME StateOK, Discipline, [Next]_vars
  PROVE  Discipline'
<1> DEFINE D(u) ==
      /\ pc = "join" /\ at[u] \in {"merge", "add", "returned"} => queue = <<>>
      /\ at[u] \in {"front", "pop"} => queue # <<>>
      /\ at[u] = "pop" => baseline[u] = <<Head(queue)>>
      /\ Working(u) => baseline[u] # <<>>
      /\ at[u] = "add" => (sawNone[u] <=> statistics = <<>>)
<1>0. \A u \in Threads : D(u)
  BY DEF Discipline
<1>1. CASE UNCHANGED vars
  BY <1>1 DEF vars, settings, imageVars, threadVars, Discipline, Returned, Working
<1>2. CASE Read
  BY <1>2 DEF Read, threadVars, Discipline, Returned, Working
<1>3. CASE QueueBaseline
  BY <1>3 DEF QueueBaseline, threadVars, Discipline, Returned, Working
<1>4. CASE StartThreads
  BY <1>4 DEF StartThreads, Discipline, Returned, Working, StateOK
<1>5. CASE Join
  BY <1>5, Constants DEF Join, threadVars, Discipline, Returned, Working
<1>6. CASE Write
  <2>1. chunk \in 1..NChunks /\ chunk \in Nat /\ NChunks \in Nat
    BY <1>6, Constants DEF Write, Discipline
  <2>2. pc' = "read" \/ pc' = "done"
    BY <1>6 DEF Write
  <2>3. pc' = "read" => chunk' \in 1..NChunks
    BY <1>6, <2>1 DEF Write
  <2>4. pc' = "done" => chunk' = NChunks + 1
    BY <1>6, <2>1 DEF Write
  <2> QED BY <1>6, <2>2, <2>3, <2>4 DEF Write, threadVars, Discipline, Returned, Working
<1>7. ASSUME NEW t \in Threads, Thread(t) PROVE Discipline'
  <2>0. /\ pc = "join" /\ pc' = "join" /\ chunk' = chunk /\ chunk \in 1..NChunks
    BY <1>7, ThreadsRun
  <2> SUFFICES ASSUME NEW u \in Threads PROVE D(u)'
    BY <2>0 DEF Discipline
  <2>a. D(u) /\ D(t)
    BY <1>0
  <2>b. /\ at[u] \in {"front", "pop", "merge", "add"} <=> mutex = u
        /\ at[t] \in {"front", "pop", "merge", "add"} <=> mutex = t
        /\ mutex # Free => mutex \in Threads
        /\ queue \in Seq(Baselines) /\ t \in DOMAIN at /\ u \in DOMAIN at /\ Free \notin Threads
    BY Constants DEF StateOK
  <2>1. CASE Start(t)
    BY <2>1, <2>a, <2>b, <2>0 DEF Start, At, Goto, Working
  <2>2. CASE Lock(t)
    BY <2>2, <2>a, <2>b, <2>0 DEF Lock, At, Goto, Working
  <2>3. CASE TakeFront(t)
    <3>1. baseline'[t] = <<Head(queue)>> /\ (u # t => baseline'[u] = baseline[u])
      BY <2>3 DEF TakeFront, StateOK
    <3> QED BY <2>3, <2>a, <2>b, <2>0, <3>1 DEF TakeFront, At, Goto, Working
  <2>4. CASE Pop(t)
    <3>1. at[t] = "pop" /\ queue # <<>> /\ baseline[t] = <<Head(queue)>> /\ baseline[t] # <<>>
      <4>1. at[t] = "pop" /\ queue # <<>> /\ baseline[t] = <<Head(queue)>>
        BY <2>4, <2>a DEF Pop, At
      <4>2. <<Head(queue)>> # <<>>
        OBVIOUS
      <4> QED BY <4>1, <4>2
    <3>2. CASE u = t
      BY <2>4, <2>b, <3>1, <3>2 DEF Pop, At, Goto, Working
    <3>3. CASE u # t
      <4>1. at'[u] = at[u] /\ at[u] \notin {"front", "pop", "merge", "add", "returned"}
        BY <2>4, <2>a, <2>b, <2>0, <3>1, <3>3 DEF Pop, At, Goto
      <4> QED BY <2>4, <2>a, <4>1 DEF Pop, Working
    <3> QED BY <3>2, <3>3
  <2>5. CASE Correct(t)
    BY <2>5, <2>a, <2>b, <2>0 DEF Correct, At, Goto, Working
  <2>6. CASE Flag(t)
    BY <2>6, <2>a, <2>b, <2>0 DEF Flag, At, Goto, Working
  <2>7. CASE Store(t)
    BY <2>7, <2>a, <2>b, <2>0 DEF Store, At, Goto, Working
  <2>8. CASE FindStatistics(t)
    <3>1. sawNone'[t] <=> statistics = <<>>
      BY <2>8, Zenon DEF FindStatistics, StateOK
    <3>2. u # t => sawNone'[u] = sawNone[u]
      BY <2>8 DEF FindStatistics, StateOK
    <3>3. CASE u = t
      BY <2>8, <2>a, <2>b, <2>0, <3>1, <3>3 DEF FindStatistics, At, Goto, Working
    <3>4. CASE u # t
      BY <2>8, <2>a, <2>b, <2>0, <3>2, <3>4 DEF FindStatistics, At, Goto, Working
    <3> QED BY <3>3, <3>4
  <2>9. CASE AddStatistics(t)
    BY <2>9, <2>a, <2>b, <2>0 DEF AddStatistics, At, Goto, Working
  <2> QED BY <1>7, <2>1, <2>2, <2>3, <2>4, <2>5, <2>6, <2>7, <2>8, <2>9 DEF Thread
<1>8. ASSUME NEW t \in Threads, Throw(t) PROVE Discipline'
  BY <1>8 DEF Throw, threadVars, Discipline, Returned, Working
<1> QED BY <1>1, <1>2, <1>3, <1>4, <1>5, <1>6, <1>7, <1>8 DEF Next, CotterStep, Stopped

(* No baseline is queued, or worked on, twice.                               *)
LEMMA QueuedOnceStep ==
  ASSUME StateOK, Discipline, QueuedOnce, [Next]_vars
  PROVE  QueuedOnce'
<1>1. CASE UNCHANGED vars
  BY <1>1 DEF vars, settings, imageVars, threadVars, QueuedOnce, Working, Held
<1>2. CASE Read
  <2>1. queue = <<>> /\ queue' = queue /\ at' = at /\ \A t \in Threads : at[t] = "returned"
    BY <1>2 DEF Read, threadVars, Discipline, Returned
  <2>2. ToSet(queue) = {} /\ loop' = <<0, 0>>
    BY <1>2, <2>1 DEF ToSet, Read
  <2> QED BY <1>2, <2>1, <2>2, LoopFromStart DEF QueuedOnce, Working
<1>3. CASE QueueBaseline
  <2>1. /\ loop \in Baselines /\ queue \in Seq(Baselines) /\ pc' = "queue" /\ at' = at
        /\ \A t \in Threads : at[t] = "returned"
    BY <1>3 DEF QueueBaseline, StateOK, threadVars, Discipline, Returned
  <2>2. \A b \in Baselines : b \in ToSet(queue) <=> Before(b, loop)
    BY <1>3 DEF QueueBaseline, QueuedOnce
  <2>3. loop \notin ToSet(queue)
    BY <2>1, <2>2, LoopStep
  <2>4. IsInjective(queue') /\ ToSet(queue') = ToSet(queue) \union {loop}
    BY <1>3, <2>1, <2>3, Pushed DEF QueueBaseline, QueuedOnce
  <2>5. ASSUME NEW b \in Baselines PROVE b \in ToSet(queue') <=> Before(b, loop')
    <3>1. Before(b, NextInLoop(loop)) <=> Before(b, loop) \/ b = loop
      BY <2>1, LoopStep
    <3> QED BY <1>3, <2>2, <2>4, <3>1 DEF QueueBaseline
  <2> QED BY <2>1, <2>4, <2>5 DEF QueuedOnce, Working
<1>4. CASE StartThreads
  BY <1>4 DEF StartThreads, QueuedOnce, Working, StateOK
<1>5. CASE Join
  BY <1>5 DEF Join, threadVars, QueuedOnce, Working, Held
<1>6. CASE Write
  BY <1>6 DEF Write, threadVars, QueuedOnce, Working, Held
<1>7. ASSUME NEW t \in Threads, Thread(t) PROVE QueuedOnce'
  <2>0. pc = "join" /\ pc' = "join" /\ t \in DOMAIN at /\ t \in DOMAIN baseline
    BY <1>7, ThreadsRun DEF StateOK
  <2>1. CASE Start(t)
    BY <2>1, <2>0 DEF Start, At, Goto, QueuedOnce, Working, Held
  <2>2. CASE Lock(t)
    BY <2>2, <2>0 DEF Lock, At, Goto, QueuedOnce, Working, Held
  <2>3. CASE TakeFront(t)
    BY <2>3, <2>0 DEF TakeFront, At, Goto, QueuedOnce, Working, Held
  <2>4. CASE Pop(t)
    <3>1. queue # <<>> /\ queue \in Seq(Baselines) /\ IsInjective(queue)
      BY <2>4 DEF Pop, StateOK, QueuedOnce
    <3>2. /\ ToSet(queue') = ToSet(queue) \ {Head(queue)} /\ IsInjective(queue')
          /\ Head(queue) \in ToSet(queue)
      BY <2>4, <3>1, Popped DEF Pop
    <3>3. baseline' = baseline /\ baseline[t] = <<Head(queue)>> /\ Held(t) = Head(queue)
      BY <2>4 DEF Pop, At, Discipline, Held
    <3>4. \A u \in Threads : Working(u)' <=> Working(u) \/ u = t
      BY <2>4, <2>0 DEF Pop, At, Goto, Working
    <3>5. \A u \in Threads : Held(u)' = Held(u)
      BY <3>3 DEF Held
    <3>6. \A u \in Threads : Working(u) => Held(u) \notin ToSet(queue)
      BY DEF QueuedOnce
    <3>7. \A u \in Threads : Working(u)' => Held(u)' \notin ToSet(queue')
      BY <3>2, <3>3, <3>4, <3>5, <3>6
    <3>8. \A u, v \in Threads : Working(u)' /\ Working(v)' /\ Held(u)' = Held(v)' => u = v
      BY <3>2, <3>3, <3>4, <3>5, <3>6 DEF QueuedOnce
    <3> QED BY <2>0, <3>2, <3>7, <3>8 DEF QueuedOnce
  <2>5. CASE Correct(t)
    BY <2>5, <2>0 DEF Correct, At, Goto, QueuedOnce, Working, Held
  <2>6. CASE Flag(t)
    BY <2>6, <2>0 DEF Flag, At, Goto, QueuedOnce, Working, Held
  <2>7. CASE Store(t)
    BY <2>7, <2>0 DEF Store, At, Goto, QueuedOnce, Working, Held
  <2>8. CASE FindStatistics(t)
    BY <2>8, <2>0 DEF FindStatistics, At, Goto, QueuedOnce, Working, Held
  <2>9. CASE AddStatistics(t)
    BY <2>9, <2>0 DEF AddStatistics, At, Goto, QueuedOnce, Working, Held
  <2> QED BY <1>7, <2>1, <2>2, <2>3, <2>4, <2>5, <2>6, <2>7, <2>8, <2>9 DEF Thread
<1>8. ASSUME NEW t \in Threads, Throw(t) PROVE QueuedOnce'
  BY <1>8 DEF Throw, threadVars, QueuedOnce, Working, Held
<1> QED BY <1>1, <1>2, <1>3, <1>4, <1>5, <1>6, <1>7, <1>8 DEF Next, CotterStep, Stopped

-----------------------------------------------------------------------------
(* The three invariants from the start on, and what they give.               *)
PoolInv == StateOK /\ Discipline /\ QueuedOnce

LEMMA PoolInit == Init => PoolInv
<1> SUFFICES ASSUME Init PROVE PoolInv
  OBVIOUS
<1>1. pc \in {"read", "terminated"}
  BY DEF Init, SetUpIs
<1>2. queue = <<>> /\ ToSet(queue) = {} /\ IsInjective(queue)
  BY DEF Init, ToSet, IsInjective
<1>3. StateOK
  <2>1. statistics \in Seq(Counts) /\ Len(statistics) <= 1
    BY DEF Init
  <2>2. baseline \in [Threads -> Seq(Baselines)] /\ \A t \in Threads : Len(baseline[t]) <= 1
    BY DEF Init
  <2>3. flagBuffers \in [Baselines -> Masks]
    BY DEF Init, Masks, NoMask
  <2>4. mask \in [Threads -> Masks]
    BY DEF Init, Masks
  <2>5. counts \in [Threads -> Counts]
    BY CountsClosed DEF Init
  <2>6. sawNone \in [Threads -> BOOLEAN]
    BY Zenon DEF Init
  <2>7. /\ mutex = Free /\ \A t \in Threads : at[t] = "returned"
        /\ at \in [Threads -> {"start", "lock", "front", "pop", "correct", "flag", "store",
                               "merge", "add", "returned"}]
    BY DEF Init
  <2>8. \A t \in Threads : at[t] \in {"front", "pop", "merge", "add"} <=> mutex = t
    BY <2>7, Constants
  <2>9. chunk \in 1..(NChunks + 1) /\ loop = LoopEnd
    BY Constants DEF Init
  <2> QED BY <1>1, <1>2, <2>1, <2>2, <2>3, <2>4, <2>5, <2>6, <2>7, <2>8, <2>9 DEF StateOK
<1>4. Discipline
  BY <1>1, <1>2, Constants DEF Init, Discipline, Returned, Working
<1>5. QueuedOnce
  BY <1>1, <1>2 DEF Init, QueuedOnce, Working
<1> QED BY <1>3, <1>4, <1>5 DEF PoolInv

LEMMA PoolStep == PoolInv /\ [Next]_vars => PoolInv'
BY StateStep, DisciplineStep, QueuedOnceStep DEF PoolInv

LEMMA PoolInvariant == Spec => []PoolInv
BY PoolInit, PoolStep, PTL DEF Spec

(* Two threads never work on the same baseline (in processBaseline, which     *)
(* changes its image set and its flags without the mutex).                   *)
THEOREM OneThreadPerBaseline == Spec => []BaselineExclusive
<1>1. PoolInv => BaselineExclusive
  BY DEF PoolInv, QueuedOnce, BaselineExclusive, Held
<1> QED BY <1>1, PoolInvariant, PTL

(* Which baselines are still to be processed after a step of a thread: one    *)
(* that is popped stays pending with the thread that has it.                 *)
LEMMA PendingStep ==
  ASSUME PoolInv, NEW t \in Threads, Thread(t), NEW b \in Baselines,
         NEW S \in {{"correct"}, {"correct", "flag"}, {"correct", "flag", "store"}}
  PROVE  Pending(b, S)' <=> Pending(b, S) /\ ~(at[t] \in S /\ at'[t] \notin S /\ b = Held(t))
<1> USE DEF PoolInv
<1>0. t \in DOMAIN at /\ t \in DOMAIN baseline
  BY DEF StateOK
<1>1. ASSUME queue' = queue, baseline' = baseline,
             NEW w, at' = [at EXCEPT ![t] = w], at[t] \in S => Working(t), at[t] \notin S => w \notin S
      PROVE  Pending(b, S)' <=> Pending(b, S) /\ ~(at[t] \in S /\ at'[t] \notin S /\ b = Held(t))
  <2>1. \A u \in Threads : Held(u)' = Held(u) /\ (u # t => at'[u] = at[u])
    BY <1>0, <1>1 DEF Held
  <2>2. \A u \in Threads : at[u] \in S => Working(u)
    BY DEF Working
  <2>3. CASE at[t] \in S /\ at'[t] \notin S
    <3>1. Held(t) \notin ToSet(queue)
      BY <2>2, <2>3 DEF QueuedOnce
    <3>2. \A u \in Threads : at[u] \in S /\ Held(u) = Held(t) => u = t
      BY <2>2, <2>3 DEF QueuedOnce
    <3> QED BY <1>0, <1>1, <2>1, <2>3, <3>1, <3>2 DEF Pending
  <2>4. CASE at[t] \in S /\ at'[t] \in S
    BY <1>0, <1>1, <2>1, <2>4 DEF Pending
  <2>5. CASE at[t] \notin S
    BY <1>0, <1>1, <2>1, <2>5 DEF Pending
  <2> QED BY <2>3, <2>4, <2>5
<1>2. CASE Start(t)
  BY <1>1, <1>2 DEF Start, At, Goto
<1>3. CASE Lock(t)
  BY <1>1, <1>3 DEF Lock, At, Goto
<1>4. CASE TakeFront(t)
  <2>1. at[t] = "front" /\ at'[t] = "pop" /\ queue' = queue
    BY <1>0, <1>4 DEF TakeFront, At, Goto
  <2>2. \A u \in Threads : u # t => at'[u] = at[u] /\ Held(u)' = Held(u)
    BY <1>0, <1>4 DEF TakeFront, At, Goto, Held
  <2> QED BY <2>1, <2>2 DEF Pending
<1>5. CASE Pop(t)
  <2>1. at[t] = "pop" /\ at'[t] = "correct" /\ queue' = Tail(queue) /\ queue # <<>>
    BY <1>0, <1>5 DEF Pop, At, Goto
  <2>2. \A u \in Threads : (u # t => at'[u] = at[u]) /\ Held(u)' = Held(u)
    BY <1>0, <1>5 DEF Pop, At, Goto, Held
  <2>3. Held(t) = Head(queue)
    BY <2>1 DEF Discipline, Held
  <2>4. ToSet(queue') = ToSet(queue) \ {Head(queue)} /\ Head(queue) \in ToSet(queue)
    BY <2>1, Popped DEF StateOK, QueuedOnce
  <2> QED BY <2>1, <2>2, <2>3, <2>4 DEF Pending
<1>6. CASE Correct(t)
  BY <1>1, <1>6 DEF Correct, At, Goto, Working
<1>7. CASE Flag(t)
  BY <1>1, <1>7 DEF Flag, At, Goto, Working
<1>8. CASE Store(t)
  BY <1>1, <1>8 DEF Store, At, Goto, Working
<1>9. CASE FindStatistics(t)
  BY <1>1, <1>9 DEF FindStatistics, At, Goto
<1>10. CASE AddStatistics(t)
  BY <1>1, <1>10 DEF AddStatistics, At, Goto
<1> QED BY <1>2, <1>3, <1>4, <1>5, <1>6, <1>7, <1>8, <1>9, <1>10 DEF Thread

-----------------------------------------------------------------------------
(* What the threads make of a chunk is what one thread would have made of it. *)
LEMMA SettingsFixed ==
  ASSUME UNCHANGED settings
  PROVE  /\ ConjugatedOuts' = ConjugatedOuts
         /\ \A b \in Baselines, p \in Products : AsRead(b, p)' = AsRead(b, p)
         /\ Unflagged' = Unflagged
         /\ \A b \in Baselines : /\ FlagMask(b, Unflagged)' = FlagMask(b, Unflagged)
                                 /\ Flags(b)' = Flags(b)
BY DEF settings, ConjugatedOuts, AsRead, Unflagged, FlagMask, Flags, SkipFlagging

LEMMA CorrectionFixed ==
  ASSUME UNCHANGED settings, isConjugated' = isConjugated
  PROVE  \A b \in Baselines, p \in Products : AsCorrected(b, p)' = AsCorrected(b, p)
BY DEF settings, AsCorrected, AsRead, Corrected, CorrectGains, GainsOf, InputsOfProduct

LEMMA HeldIsBaseline ==
  ASSUME PoolInv, NEW t \in Threads, Working(t)
  PROVE  Held(t) \in Baselines
<1>1. baseline[t] \in Seq(Baselines) /\ baseline[t] # <<>>
  BY DEF PoolInv, StateOK, Discipline
<1> QED BY <1>1, EmptySeq DEF Held

LEMMA ImagesStep ==
  ASSUME PoolInv, ImagesAre, [Next]_vars
  PROVE  ImagesAre'
<1>a. ASSUME UNCHANGED settings, UNCHANGED imageVars, pc' \in {"join", "write"},
             pc \in {"join", "write"},
             \A b \in Baselines : Pending(b, {"correct"})' <=> Pending(b, {"correct"})
      PROVE  ImagesAre'
  <2>1. isConjugated' = isConjugated /\ images' = images /\ ConjugatedOuts' = ConjugatedOuts
    BY <1>a, SettingsFixed DEF imageVars
  <2>2. ASSUME NEW b \in Baselines, NEW p \in Products
        PROVE  images'[b][p] = IF Pending(b, {"correct"})' THEN AsRead(b, p)' ELSE AsCorrected(b, p)'
    <3>1. AsRead(b, p)' = AsRead(b, p) /\ AsCorrected(b, p)' = AsCorrected(b, p)
      BY <1>a, <2>1, SettingsFixed, CorrectionFixed
    <3> QED BY <1>a, <2>1, <3>1 DEF ImagesAre
  <2> QED BY <1>a, <2>1, <2>2 DEF ImagesAre
<1>1. CASE UNCHANGED vars
  <2>1. UNCHANGED settings /\ UNCHANGED imageVars /\ pc' = pc
    BY <1>1 DEF vars
  <2>2. \A b \in Baselines : Pending(b, {"correct"})' <=> Pending(b, {"correct"})
    BY <1>1 DEF vars, threadVars, Pending, Held
  <2>3. CASE pc \in {"join", "write"}
    BY <1>a, <2>1, <2>2, <2>3
  <2>4. CASE pc \notin {"join", "write"}
    BY <2>1, <2>4, SettingsFixed DEF ImagesAre, imageVars
  <2> QED BY <2>3, <2>4
<1>2. CASE Read
  <2>1. UNCHANGED settings /\ pc' = "queue" /\ isConjugated' = ConjugatedOuts
        /\ images' = [b \in Baselines |-> [p \in Products |-> AsRead(b, p)]]
    BY <1>2 DEF Read, ConjugatedOuts, AsRead
  <2> QED BY <2>1, SettingsFixed DEF ImagesAre
<1>3. CASE QueueBaseline
  <2>1. UNCHANGED settings /\ UNCHANGED imageVars /\ pc' = "queue" /\ pc = "queue"
    BY <1>3 DEF QueueBaseline
  <2> QED BY <2>1, SettingsFixed DEF ImagesAre, imageVars
<1>4. CASE StartThreads
  <2>1. /\ UNCHANGED settings /\ UNCHANGED imageVars /\ pc' = "join" /\ pc = "queue"
        /\ queue' = queue
    BY <1>4 DEF StartThreads
  <2>2. \A b \in Baselines : Pending(b, {"correct"})'
    <3>1. \A b \in Baselines : b \in ToSet(queue)
      BY <1>4, LoopFromStart DEF StartThreads, PoolInv, QueuedOnce
    <3> QED BY <2>1, <3>1 DEF Pending
  <2> QED BY <2>1, <2>2, SettingsFixed DEF ImagesAre, imageVars
<1>5. CASE Join
  <2>1. \A b \in Baselines : Pending(b, {"correct"})' <=> Pending(b, {"correct"})
    BY <1>5 DEF Join, threadVars, Pending, Held
  <2> QED BY <1>a, <1>5, <2>1 DEF Join
<1>6. CASE Write
  BY <1>6 DEF Write, ImagesAre
<1>7. ASSUME NEW t \in Threads, Thread(t) PROVE ImagesAre'
  <2>0. pc = "join" /\ pc' = "join" /\ UNCHANGED settings /\ t \in DOMAIN at
    BY <1>7, ThreadsRun DEF PoolInv, StateOK
  <2>1. ASSUME NEW b \in Baselines
        PROVE  Pending(b, {"correct"})' <=>
                 Pending(b, {"correct"}) /\ ~(at[t] = "correct" /\ at'[t] # "correct" /\ b = Held(t))
    BY <1>7, PendingStep
  <2>2. CASE Correct(t)
    <3>0. at[t] = "correct" /\ at'[t] = "flag" /\ isConjugated' = isConjugated
      BY <2>0, <2>2 DEF Correct, At, Goto
    <3>1. PICK h \in Baselines : h = Held(t)
      BY <3>0, HeldIsBaseline DEF Working
    <3>2. Pending(h, {"correct"}) /\ ~Pending(h, {"correct"})'
      BY <2>1, <3>0, <3>1 DEF Pending
    <3>3. \A b \in Baselines : b # h => (Pending(b, {"correct"})' <=> Pending(b, {"correct"}))
      BY <2>1, <3>0, <3>1
    <3>4. images = [b \in Baselines |-> [p \in Products |-> images[b][p]]]
      BY <2>0 DEF ImagesAre
    <3>5. images' = [images EXCEPT ![h] = [p \in Products |-> Corrected(images[h][p], h, p)]]
      BY <2>2, <3>1 DEF Correct
    <3>6. \A p \in Products : images[h][p] = AsRead(h, p)
      BY <2>0, <3>2 DEF ImagesAre
    <3>7. \A p \in Products : images'[h][p] = AsCorrected(h, p)
      BY <3>4, <3>5, <3>6 DEF AsCorrected
    <3>8. \A b \in Baselines, p \in Products : b # h => images'[b][p] = images[b][p]
      BY <3>4, <3>5
    <3>9. images' = [b \in Baselines |-> [p \in Products |-> images'[b][p]]]
      BY <3>4, <3>5
    <3>10. ASSUME NEW b \in Baselines, NEW p \in Products
           PROVE  images'[b][p] = IF Pending(b, {"correct"})' THEN AsRead(b, p)' ELSE AsCorrected(b, p)'
      <4>1. AsRead(b, p)' = AsRead(b, p) /\ AsCorrected(b, p)' = AsCorrected(b, p)
        BY <2>0, <3>0, SettingsFixed, CorrectionFixed
      <4>2. images[b][p] = IF Pending(b, {"correct"}) THEN AsRead(b, p) ELSE AsCorrected(b, p)
        BY <2>0 DEF ImagesAre
      <4> QED BY <3>2, <3>3, <3>7, <3>8, <4>1, <4>2
    <3>11. isConjugated' = ConjugatedOuts'
      BY <2>0, <3>0, SettingsFixed DEF ImagesAre
    <3> QED BY <2>0, <3>9, <3>10, <3>11 DEF ImagesAre
  <2>3. CASE ~Correct(t)
    <3>1. UNCHANGED imageVars /\ at[t] # "correct"
      BY <1>7, <2>3 DEF Thread, Start, Lock, TakeFront, Pop, Flag, Store, FindStatistics,
                        AddStatistics, At
    <3>2. \A b \in Baselines : Pending(b, {"correct"})' <=> Pending(b, {"correct"})
      BY <2>1, <3>1
    <3> QED BY <1>a, <2>0, <3>1, <3>2
  <2> QED BY <2>2, <2>3
<1>8. ASSUME NEW t \in Threads, Throw(t) PROVE ImagesAre'
  BY <1>8 DEF Throw, ImagesAre
<1> QED BY <1>1, <1>2, <1>3, <1>4, <1>5, <1>6, <1>7, <1>8 DEF Next, CotterStep, Stopped

(* A step of a thread leaves what is the others' alone.                      *)
LEMMA OthersStay ==
  ASSUME StateOK, NEW t \in Threads, Thread(t), NEW u \in Threads, u # t
  PROVE  at'[u] = at[u] /\ Held(u)' = Held(u) /\ mask'[u] = mask[u] /\ counts'[u] = counts[u]
<1>0. t \in DOMAIN at /\ u \in DOMAIN at /\ u \in DOMAIN baseline /\ u \in DOMAIN mask
      /\ u \in DOMAIN counts
  BY DEF StateOK
<1>1. CASE Start(t)
  BY <1>0, <1>1 DEF Start, Goto, Held
<1>2. CASE Lock(t)
  BY <1>0, <1>2 DEF Lock, Goto, Held
<1>3. CASE TakeFront(t)
  BY <1>0, <1>3 DEF TakeFront, Goto, Held
<1>4. CASE Pop(t)
  BY <1>0, <1>4 DEF Pop, Goto, Held
<1>5. CASE Correct(t)
  BY <1>0, <1>5 DEF Correct, Goto, Held
<1>6. CASE Flag(t)
  BY <1>0, <1>6 DEF Flag, Goto, Held
<1>7. CASE Store(t)
  BY <1>0, <1>7 DEF Store, Goto, Held
<1>8. CASE FindStatistics(t)
  BY <1>0, <1>8 DEF FindStatistics, Goto, Held
<1>9. CASE AddStatistics(t)
  BY <1>0, <1>9 DEF AddStatistics, Goto, Held
<1> QED BY <1>1, <1>2, <1>3, <1>4, <1>5, <1>6, <1>7, <1>8, <1>9 DEF Thread

LEMMA FlagsStep ==
  ASSUME PoolInv, FlagsAre, [Next]_vars
  PROVE  FlagsAre'
<1> DEFINE W == {"correct", "flag", "store"}
<1>a. ASSUME UNCHANGED settings, flagBuffers' = flagBuffers, pc' \in {"join", "write"},
             pc \in {"join", "write"},
             \A b \in Baselines : Pending(b, W)' <=> Pending(b, W),
             \A t \in Threads : at'[t] = "store" => at[t] = "store" /\ mask'[t] = mask[t]
                                                    /\ Held(t)' = Held(t)
      PROVE  FlagsAre'
  <2>1. ASSUME NEW b \in Baselines
        PROVE  flagBuffers'[b] = IF Pending(b, W)' THEN Unflagged' ELSE Flags(b)'
    BY <1>a, SettingsFixed DEF FlagsAre
  <2>2. ASSUME NEW t \in Threads, at'[t] = "store"
        PROVE  mask'[t] = FlagMask(Held(t), Unflagged)'
    <3>1. at[t] = "store" /\ mask'[t] = mask[t] /\ Held(t)' = Held(t) /\ Held(t) \in Baselines
      BY <1>a, <2>2, HeldIsBaseline DEF Working
    <3>2. FlagMask(Held(t)', Unflagged') = FlagMask(Held(t), Unflagged)
      BY <1>a, <3>1, SettingsFixed DEF FlagMask, SkipFlagging, settings
    <3> QED BY <1>a, <3>1, <3>2 DEF FlagsAre, FlagMask, SkipFlagging, settings
  <2> QED BY <1>a, <2>1, <2>2 DEF FlagsAre
<1>1. CASE UNCHANGED vars
  <2>1. UNCHANGED settings /\ flagBuffers' = flagBuffers /\ pc' = pc /\ at' = at /\ mask' = mask
        /\ baseline' = baseline /\ loop' = loop
    BY <1>1 DEF vars, threadVars
  <2>2. (\A b \in Baselines : Pending(b, W)' <=> Pending(b, W)) /\ \A t \in Threads : Held(t)' = Held(t)
    BY <1>1 DEF vars, threadVars, Pending, Held
  <2>3. CASE pc \in {"join", "write"}
    BY <1>a, <2>1, <2>2, <2>3
  <2>4. CASE pc \notin {"join", "write"}
    BY <2>1, <2>4 DEF FlagsAre
  <2> QED BY <2>3, <2>4
<1>2. CASE Read
  BY <1>2, LoopFromStart DEF Read, FlagsAre
<1>3. CASE QueueBaseline
  <2>1. pc = "queue" /\ pc' = "queue" /\ loop \in Baselines /\ loop' = NextInLoop(loop)
        /\ flagBuffers \in [Baselines -> Masks]
    BY <1>3 DEF QueueBaseline, PoolInv, StateOK
  <2>2. flagBuffers[loop] = NoMask
    BY <2>1, LoopStep DEF FlagsAre
  <2>3. flagBuffers' = [flagBuffers EXCEPT ![loop] = Placeholder]
    BY <1>3, <2>1, <2>2 DEF QueueBaseline
  <2>4. ASSUME NEW b \in Baselines
        PROVE  flagBuffers'[b] = IF Before(b, loop') THEN Placeholder ELSE NoMask
    <3>1. Before(b, loop') <=> Before(b, loop) \/ b = loop
      BY <2>1, LoopStep
    <3> QED BY <2>1, <2>3, <3>1 DEF FlagsAre
  <2> QED BY <2>1, <2>4 DEF FlagsAre
<1>4. CASE StartThreads
  <2>1. pc = "queue" /\ pc' = "join" /\ UNCHANGED settings /\ queue' = queue
        /\ \A t \in Threads : at'[t] = "start"
    BY <1>4 DEF StartThreads
  <2>2. \A b \in Baselines : Pending(b, W)'
    <3>1. \A b \in Baselines : b \in ToSet(queue)
      BY <1>4, LoopFromStart DEF StartThreads, PoolInv, QueuedOnce
    <3> QED BY <2>1, <3>1 DEF Pending
  <2>3. \A b \in Baselines : flagBuffers[b] = Placeholder
    BY <1>4, LoopFromStart DEF StartThreads, FlagsAre
  <2>4. \A b \in Baselines : flagBuffers'[b] = Unflagged
    BY <1>4, <2>3 DEF StartThreads, Unflagged
  <2> QED BY <2>1, <2>2, <2>4, SettingsFixed DEF FlagsAre
<1>5. CASE Join
  <2>1. (\A b \in Baselines : Pending(b, W)' <=> Pending(b, W)) /\ \A t \in Threads : Held(t)' = Held(t)
    BY <1>5 DEF Join, threadVars, Pending, Held
  <2> QED BY <1>a, <1>5, <2>1 DEF Join, threadVars
<1>6. CASE Write
  BY <1>6 DEF Write, FlagsAre
<1>7. ASSUME NEW t \in Threads, Thread(t) PROVE FlagsAre'
  <2>0. pc = "join" /\ pc' = "join" /\ UNCHANGED settings
    BY <1>7, ThreadsRun DEF PoolInv
  <2>a. t \in DOMAIN at /\ t \in DOMAIN mask /\ t \in DOMAIN baseline
    BY DEF PoolInv, StateOK
  <2>1. ASSUME NEW b \in Baselines
        PROVE  Pending(b, W)' <=> Pending(b, W) /\ ~(at[t] \in W /\ at'[t] \notin W /\ b = Held(t))
    BY <1>7, PendingStep
  <2>2. CASE Flag(t)
    <3>0. at[t] = "flag" /\ at'[t] = "store" /\ flagBuffers' = flagBuffers /\ baseline' = baseline
      BY <2>a, <2>2 DEF Flag, At, Goto
    <3>1. PICK h \in Baselines : h = Held(t)
      BY <3>0, HeldIsBaseline DEF Working
    <3>2. \A b \in Baselines : Pending(b, W)' <=> Pending(b, W)
      BY <2>1, <3>0
    <3>3. flagBuffers[h] = Unflagged
      BY <2>0, <3>0, <3>1 DEF FlagsAre, Pending
    <3>4. mask' = [mask EXCEPT ![t] = FlagMask(h, Unflagged)]
      BY <2>2, <3>1, <3>3 DEF Flag
    <3>5. ASSUME NEW b \in Baselines
          PROVE  flagBuffers'[b] = IF Pending(b, W)' THEN Unflagged' ELSE Flags(b)'
      BY <2>0, <3>0, <3>2, SettingsFixed DEF FlagsAre
    <3>6. ASSUME NEW u \in Threads, at'[u] = "store"
          PROVE  mask'[u] = FlagMask(Held(u), Unflagged)'
      <4>1. Held(u)' = Held(u)
        BY <3>0 DEF Held
      <4>2. PICK g \in Baselines : g = Held(u)
        <5>1. Working(u)
          BY <2>a, <2>2, <3>0, <3>6 DEF Flag, Goto, Working
        <5> QED BY <5>1, HeldIsBaseline
      <4>3. FlagMask(g, Unflagged)' = FlagMask(g, Unflagged)
        BY <2>0, SettingsFixed
      <4>4. mask'[u] = FlagMask(g, Unflagged)
        <5>1. CASE u = t
          BY <2>a, <3>1, <3>4, <4>2, <5>1
        <5>2. CASE u # t
          <6>1. at[u] = "store" /\ mask'[u] = mask[u]
            BY <2>a, <2>2, <3>4, <3>6, <5>2 DEF Flag, Goto
          <6> QED BY <2>0, <4>2, <6>1 DEF FlagsAre
        <5> QED BY <5>1, <5>2
      <4>5. FlagMask(Held(u), Unflagged)' = FlagMask(g, Unflagged)'
        BY <4>1, <4>2
      <4> QED BY <4>3, <4>4, <4>5
    <3> QED BY <2>0, <3>5, <3>6 DEF FlagsAre
  <2>3. CASE Store(t)
    <3>0. at[t] = "store" /\ at' = [at EXCEPT ![t] = "lock"] /\ baseline' = baseline /\ mask' = mask
      BY <2>3 DEF Store, At, Goto
    <3>1. PICK h \in Baselines : h = Held(t)
      BY <3>0, HeldIsBaseline DEF Working
    <3>2. Pending(h, W) /\ ~Pending(h, W)'
      BY <2>a, <2>1, <3>0, <3>1 DEF Pending
    <3>3. \A b \in Baselines : b # h => (Pending(b, W)' <=> Pending(b, W))
      BY <2>1, <3>1
    <3>4. flagBuffers' = [flagBuffers EXCEPT ![h] = Flags(h)]
      <4>1. mask[t] = FlagMask(h, Unflagged)
        BY <2>0, <3>0, <3>1 DEF FlagsAre
      <4> QED BY <2>3, <3>1, <4>1 DEF Store, Flags
    <3>5. ASSUME NEW b \in Baselines
          PROVE  flagBuffers'[b] = IF Pending(b, W)' THEN Unflagged' ELSE Flags(b)'
      <4>1. Unflagged' = Unflagged /\ Flags(b)' = Flags(b)
        BY <2>0, SettingsFixed
      <4>2. DOMAIN flagBuffers = Baselines
        BY DEF PoolInv, StateOK
      <4>3. CASE b = h
        BY <3>2, <3>4, <4>1, <4>2, <4>3
      <4>4. CASE b # h
        BY <2>0, <3>3, <3>4, <4>1, <4>2, <4>4 DEF FlagsAre
      <4> QED BY <4>3, <4>4
    <3>6. ASSUME NEW u \in Threads, at'[u] = "store"
          PROVE  mask'[u] = FlagMask(Held(u), Unflagged)'
      <4>1. at[u] = "store" /\ Held(u)' = Held(u)
        BY <2>a, <3>0, <3>6 DEF Held
      <4>2. PICK g \in Baselines : g = Held(u)
        BY <4>1, HeldIsBaseline DEF Working
      <4>3. FlagMask(g, Unflagged)' = FlagMask(g, Unflagged)
        BY <2>0, SettingsFixed
      <4>4. mask'[u] = FlagMask(g, Unflagged)
        BY <2>0, <3>0, <4>1, <4>2 DEF FlagsAre
      <4>5. FlagMask(Held(u), Unflagged)' = FlagMask(g, Unflagged)'
        BY <4>1, <4>2
      <4> QED BY <4>3, <4>4, <4>5
    <3> QED BY <2>0, <3>5, <3>6 DEF FlagsAre
  <2>4. CASE ~Flag(t) /\ ~Store(t)
    <3>a. flagBuffers' = flagBuffers /\ mask' = mask
      BY <1>7, <2>4 DEF Thread, Start, Lock, TakeFront, Pop, Correct, FindStatistics, AddStatistics
    <3>b. at[t] \notin {"flag", "store"} /\ at'[t] # "store"
      BY <1>7, <2>a, <2>4 DEF Thread, Start, Lock, TakeFront, Pop, Correct, FindStatistics,
                              AddStatistics, At, Goto
    <3>1. \A u \in Threads : at'[u] = "store" => at[u] = "store" /\ mask'[u] = mask[u]
                                                 /\ Held(u)' = Held(u)
      BY <1>7, <3>a, <3>b, OthersStay DEF PoolInv
    <3>2. at[t] = "correct" => at'[t] = "flag"
      BY <1>7, <2>a, <2>4 DEF Thread, Start, Lock, TakeFront, Pop, Correct, FindStatistics,
                        AddStatistics, At, Goto
    <3>3. \A b \in Baselines : Pending(b, W)' <=> Pending(b, W)
      BY <2>1, <3>b, <3>2
    <3> QED BY <1>a, <2>0, <3>a, <3>1, <3>3
  <2> QED BY <2>2, <2>3, <2>4
<1>8. ASSUME NEW t \in Threads, Throw(t) PROVE FlagsAre'
  BY <1>8 DEF Throw, FlagsAre
<1> QED BY <1>1, <1>2, <1>3, <1>4, <1>5, <1>6, <1>7, <1>8 DEF Next, CotterStep, Stopped

-----------------------------------------------------------------------------
(* Statistics.  Every step but the counting of a baseline and the adding to   *)
(* _statistics leaves what each thread has still to add, and what is added.   *)
LEMMA CountTypes ==
  ASSUME StateOK
  PROVE  /\ \A t \in Threads, c \in 1..NChunks, b \in Baselines :
              counts[t][c][b] \in Nat /\ Mine(t, c, b) \in Nat
         /\ \A c \in 1..NChunks, b \in Baselines : Merged(c, b) \in Nat
<1>1. ASSUME NEW t \in Threads, NEW c \in 1..NChunks, NEW b \in Baselines
      PROVE  counts[t][c][b] \in Nat
  <2>1. counts[t] \in Counts
    BY DEF StateOK
  <2> QED BY <2>1 DEF Counts
<1>2. ASSUME NEW c \in 1..NChunks, NEW b \in Baselines, statistics # <<>>
      PROVE  statistics[1][c][b] \in Nat
  <2>1. statistics[1] \in Counts
    BY <1>2, EmptySeq DEF StateOK
  <2> QED BY <2>1 DEF Counts
<1> QED BY <1>1, <1>2 DEF Mine, Merged

LEMMA QuietStep ==
  ASSUME PoolInv, NEW t \in Threads, Thread(t), ~Flag(t), ~AddStatistics(t)
  PROVE  /\ \A u \in Threads, c \in 1..NChunks, b \in Baselines : Mine(u, c, b)' = Mine(u, c, b)
         /\ \A c \in 1..NChunks, b \in Baselines : Merged(c, b)' = Merged(c, b)
         /\ \A b \in Baselines :
              Pending(b, {"correct", "flag"})' <=> Pending(b, {"correct", "flag"})
<1>0. t \in DOMAIN at /\ t \in DOMAIN counts
  BY DEF PoolInv, StateOK
<1>1. statistics' = statistics
  BY DEF Thread, Start, Lock, TakeFront, Pop, Correct, Store, FindStatistics
<1>2. ASSUME NEW u \in Threads, NEW c \in 1..NChunks, NEW b \in Baselines
      PROVE  Mine(u, c, b)' = Mine(u, c, b)
  <2>1. CASE u # t
    <3>1. at'[u] = at[u] /\ counts'[u] = counts[u]
      BY <2>1, OthersStay DEF PoolInv
    <3> QED BY <3>1 DEF Mine, Unmerged
  <2>2. CASE u = t /\ Start(t)
    <3>1. at[t] = "start" /\ counts'[t] = NoCounts
      BY <1>0, <2>2 DEF Start, At
    <3>2. NoCounts[c][b] = 0
      BY DEF NoCounts
    <3> QED BY <2>2, <3>1, <3>2 DEF Mine, Unmerged
  <2>3. CASE u = t /\ ~Start(t)
    <3>1. counts' = counts
      BY <2>3 DEF Thread, Lock, TakeFront, Pop, Correct, Store, FindStatistics
    <3>2. at[t] \notin {"start", "returned"} /\ at'[t] \notin {"start", "returned"}
      BY <1>0, <2>3 DEF Thread, Lock, TakeFront, Pop, Correct, Store, FindStatistics, At, Goto
    <3> QED BY <2>3, <3>1, <3>2 DEF Mine, Unmerged
  <2> QED BY <2>1, <2>2, <2>3
<1>3. at[t] = "correct" => at'[t] = "flag"
  BY <1>0 DEF Thread, Start, Lock, TakeFront, Pop, Correct, Store, FindStatistics, At, Goto
<1>4. at[t] # "flag"
  BY DEF Thread, Start, Lock, TakeFront, Pop, Correct, Store, FindStatistics, At
<1>5. ASSUME NEW b \in Baselines
      PROVE  Pending(b, {"correct", "flag"})' <=> Pending(b, {"correct", "flag"})
  BY <1>3, <1>4, PendingStep
<1> QED BY <1>1, <1>2, <1>5 DEF Merged

LEMMA CountingStep ==
  ASSUME PoolInv, NEW t \in Threads, Flag(t), opt.collectStatistics
  PROVE  /\ \A u \in Threads, c \in 1..NChunks, b \in Baselines :
              Mine(u, c, b)' = IF u = t /\ c = chunk /\ b = Held(t) THEN Mine(u, c, b) + 1
                               ELSE Mine(u, c, b)
         /\ \A c \in 1..NChunks, b \in Baselines : Merged(c, b)' = Merged(c, b)
         /\ \A b \in Baselines : Pending(b, {"correct", "flag"})' <=>
                                   Pending(b, {"correct", "flag"}) /\ b # Held(t)
         /\ Held(t) \in Baselines /\ Pending(Held(t), {"correct", "flag"})
<1>0. t \in DOMAIN at /\ t \in DOMAIN counts /\ counts[t] \in Counts
  BY DEF PoolInv, StateOK
<1>1. at[t] = "flag" /\ at'[t] = "store" /\ statistics' = statistics
  BY <1>0 DEF Flag, At, Goto
<1>2. PICK h \in Baselines : h = Held(t)
  BY <1>1, HeldIsBaseline DEF Working
<1>3. counts'[t] = Counted(counts[t], chunk, h)
  BY <1>0, <1>2 DEF Flag
<1>4. \A c \in 1..NChunks, b \in Baselines :
        counts'[t][c][b] = IF c = chunk /\ b = h THEN counts[t][c][b] + 1 ELSE counts[t][c][b]
  BY <1>0, <1>3 DEF Counted, Counts
<1>5. ASSUME NEW u \in Threads, NEW c \in 1..NChunks, NEW b \in Baselines
      PROVE  Mine(u, c, b)' = IF u = t /\ c = chunk /\ b = h THEN Mine(u, c, b) + 1
                              ELSE Mine(u, c, b)
  <2>1. CASE u = t
    BY <1>1, <1>4, <2>1 DEF Mine, Unmerged
  <2>2. CASE u # t
    <3>1. at'[u] = at[u] /\ counts'[u] = counts[u]
      BY <2>2, OthersStay DEF PoolInv, Thread
    <3> QED BY <2>2, <3>1 DEF Mine, Unmerged
  <2> QED BY <2>1, <2>2
<1>6. ASSUME NEW b \in Baselines
      PROVE  Pending(b, {"correct", "flag"})' <=> Pending(b, {"correct", "flag"}) /\ b # h
  BY <1>1, <1>2, PendingStep DEF Thread
<1>7. Pending(h, {"correct", "flag"})
  BY <1>1, <1>2 DEF Pending
<1> QED BY <1>1, <1>2, <1>5, <1>6, <1>7 DEF Merged

LEMMA AddingStep ==
  ASSUME PoolInv, NEW t \in Threads, AddStatistics(t)
  PROVE  /\ \A u \in Threads, c \in 1..NChunks, b \in Baselines :
              Mine(u, c, b)' = IF u = t THEN 0 ELSE Mine(u, c, b)
         /\ \A c \in 1..NChunks, b \in Baselines : Merged(c, b)' = Merged(c, b) + Mine(t, c, b)
         /\ \A b \in Baselines :
              Pending(b, {"correct", "flag"})' <=> Pending(b, {"correct", "flag"})
<1>0. t \in DOMAIN at /\ counts[t] \in Counts
  BY DEF PoolInv, StateOK
<1>1. at[t] = "add" /\ at'[t] = "returned"
  BY <1>0 DEF AddStatistics, At, Goto
<1>2. sawNone[t] <=> statistics = <<>>
  BY <1>1 DEF PoolInv, Discipline
<1>3. ASSUME NEW u \in Threads, NEW c \in 1..NChunks, NEW b \in Baselines
      PROVE  Mine(u, c, b)' = IF u = t THEN 0 ELSE Mine(u, c, b)
  <2>1. CASE u = t
    BY <1>1, <2>1 DEF Mine, Unmerged
  <2>2. CASE u # t
    <3>1. at'[u] = at[u] /\ counts'[u] = counts[u]
      BY <2>2, OthersStay DEF PoolInv, Thread
    <3> QED BY <2>2, <3>1 DEF Mine, Unmerged
  <2> QED BY <2>1, <2>2
<1>4. ASSUME NEW c \in 1..NChunks, NEW b \in Baselines
      PROVE  Merged(c, b)' = Merged(c, b) + Mine(t, c, b)
  <2>1. Mine(t, c, b) = counts[t][c][b] /\ counts[t][c][b] \in Nat
    BY <1>1, CountTypes DEF Mine, Unmerged, PoolInv
  <2>2. CASE statistics = <<>>
    <3>1. statistics' = <<counts[t]>> /\ statistics' # <<>>
      BY <1>2, <2>2 DEF AddStatistics
    <3> QED BY <2>1, <2>2, <3>1 DEF Merged
  <2>3. CASE statistics # <<>>
    <3>1. statistics' = <<Plus(statistics[1], counts[t])>> /\ statistics' # <<>>
      BY <1>2, <2>3 DEF AddStatistics
    <3>2. Plus(statistics[1], counts[t])[c][b] = statistics[1][c][b] + counts[t][c][b]
      BY DEF Plus
    <3> QED BY <2>1, <2>3, <3>1, <3>2 DEF Merged
  <2> QED BY <2>2, <2>3
<1>5. ASSUME NEW b \in Baselines
      PROVE  Pending(b, {"correct", "flag"})' <=> Pending(b, {"correct", "flag"})
  BY <1>1, PendingStep DEF Thread
<1> QED BY <1>3, <1>4, <1>5

LEMMA StatisticsStep ==
  ASSUME PoolInv, StatisticsAre, [Next]_vars
  PROVE  StatisticsAre'
<1> DEFINE P(b) == Pending(b, {"correct", "flag"})
<1>o. opt' = opt
  BY DEF Next, CotterStep, Read, QueueBaseline, StartThreads, Join, Write, Thread, Start, Lock,
         TakeFront, Pop, Correct, Flag, Store, FindStatistics, AddStatistics, Throw, Stopped,
         vars, settings
<1> SUFFICES ASSUME opt.collectStatistics, pc' # "terminated"
             PROVE  StatisticsAre'
  BY <1>o DEF StatisticsAre
<1>a. ASSUME chunk' = chunk, pc # "terminated", pc \in {"join", "write"} <=> pc' \in {"join", "write"},
             pc' \in {"read", "queue"} => pc \in {"read", "queue"},
             \A u \in Threads, c \in 1..NChunks, b \in Baselines : Mine(u, c, b)' = Mine(u, c, b),
             \A c \in 1..NChunks, b \in Baselines : Merged(c, b)' = Merged(c, b),
             \A b \in Baselines : P(b)' <=> P(b),
             pc' # "done" => chunk \in 1..NChunks
      PROVE  StatisticsAre'
  <2>1. ASSUME NEW b \in Baselines, NEW c \in 1..NChunks, c # chunk'
        PROVE  /\ Merged(c, b)' = IF c < chunk' THEN 1 ELSE 0
               /\ \A t \in Threads : Mine(t, c, b)' = 0
    BY <1>a, <2>1 DEF StatisticsAre
  <2>2. ASSUME pc' \in {"read", "queue"}, NEW b \in Baselines PROVE Merged(chunk, b)' = 0
    BY <1>a, <2>2 DEF StatisticsAre
  <2>3. ASSUME pc' \in {"join", "write"}, NEW b \in Baselines
        PROVE  IF P(b)' THEN Merged(chunk, b)' = 0 /\ \A t \in Threads : Mine(t, chunk, b)' = 0
               ELSE CountedOnce(b)'
    <3>1. IF P(b) THEN Merged(chunk, b) = 0 /\ \A t \in Threads : Mine(t, chunk, b) = 0
          ELSE CountedOnce(b)
      BY <1>a, <2>3 DEF StatisticsAre
    <3>2. chunk \in 1..NChunks
      BY <1>a, <2>3
    <3>3. CountedOnce(b)' <=> CountedOnce(b)
      BY <1>a, <3>2 DEF CountedOnce
    <3> QED BY <1>a, <3>1, <3>2, <3>3
  <2> QED BY <1>a, <2>1, <2>2, <2>3 DEF StatisticsAre
<1>b. ASSUME at' = at, counts' = counts, statistics' = statistics, baseline' = baseline
      PROVE  /\ \A u \in Threads, c \in 1..NChunks, b \in Baselines : Mine(u, c, b)' = Mine(u, c, b)
             /\ \A c \in 1..NChunks, b \in Baselines : Merged(c, b)' = Merged(c, b)
             /\ queue' = queue => \A b \in Baselines : P(b)' <=> P(b)
  BY <1>b DEF Mine, Unmerged, Merged, Pending, Held
<1>c. \A u \in Threads : at[u] = "returned" => \A c \in 1..NChunks, b \in Baselines : Mine(u, c, b) = 0
  BY DEF Mine, Unmerged
<1>1. CASE UNCHANGED vars
  <2>1. /\ at' = at /\ counts' = counts /\ statistics' = statistics /\ baseline' = baseline
        /\ queue' = queue /\ pc' = pc /\ chunk' = chunk
    BY <1>1 DEF vars, threadVars
  <2>2. pc' # "done" => chunk \in 1..NChunks
    BY <2>1 DEF PoolInv, Discipline
  <2> QED BY <1>a, <1>b, <2>1, <2>2
<1>2. CASE Read
  <2>1. /\ at' = at /\ counts' = counts /\ statistics' = statistics /\ baseline' = baseline
        /\ queue' = queue /\ pc = "read" /\ pc' = "queue" /\ chunk' = chunk /\ chunk \in 1..NChunks
    BY <1>2 DEF Read, threadVars, PoolInv, Discipline
  <2> QED BY <1>a, <1>b, <2>1
<1>3. CASE QueueBaseline
  <2>1. /\ at' = at /\ counts' = counts /\ statistics' = statistics /\ baseline' = baseline
        /\ pc = "queue" /\ pc' = "queue" /\ chunk' = chunk /\ chunk \in 1..NChunks
    BY <1>3 DEF QueueBaseline, threadVars, PoolInv, Discipline
  <2>2. \A b \in Baselines, c \in 1..NChunks : c # chunk =>
          /\ Merged(c, b) = IF c < chunk THEN 1 ELSE 0
          /\ \A t \in Threads : Mine(t, c, b) = 0
    BY <2>1 DEF StatisticsAre
  <2>3. \A b \in Baselines : Merged(chunk, b) = 0
    BY <2>1 DEF StatisticsAre
  <2> QED BY <1>b, <2>1, <2>2, <2>3 DEF StatisticsAre
<1>4. CASE StartThreads
  <2>1. /\ counts' = counts /\ statistics' = statistics /\ queue' = queue /\ chunk \in 1..NChunks
        /\ pc = "queue" /\ pc' = "join" /\ chunk' = chunk /\ \A t \in Threads : at'[t] = "start"
    BY <1>4 DEF StartThreads, PoolInv, Discipline
  <2>2. \A u \in Threads, c \in 1..NChunks, b \in Baselines : Mine(u, c, b)' = 0
    BY <2>1 DEF Mine, Unmerged
  <2>3. \A c \in 1..NChunks, b \in Baselines : Merged(c, b)' = Merged(c, b)
    BY <2>1 DEF Merged
  <2>4. \A b \in Baselines : P(b)'
    <3>1. \A b \in Baselines : b \in ToSet(queue)
      BY <1>4, LoopFromStart DEF StartThreads, PoolInv, QueuedOnce
    <3> QED BY <2>1, <3>1 DEF Pending
  <2>5. \A b \in Baselines, c \in 1..NChunks : c # chunk => Merged(c, b) = IF c < chunk THEN 1 ELSE 0
    BY <2>1 DEF StatisticsAre
  <2>6. \A b \in Baselines : Merged(chunk, b) = 0
    BY <2>1 DEF StatisticsAre
  <2> QED BY <2>1, <2>2, <2>3, <2>4, <2>5, <2>6 DEF StatisticsAre
<1>5. CASE Join
  <2>1. /\ at' = at /\ counts' = counts /\ statistics' = statistics /\ baseline' = baseline
        /\ queue' = queue /\ pc = "join" /\ pc' = "write" /\ chunk' = chunk /\ chunk \in 1..NChunks
    BY <1>5 DEF Join, threadVars, PoolInv, Discipline
  <2> QED BY <1>a, <1>b, <2>1
<1>6. CASE Write
  <2>1. /\ at' = at /\ counts' = counts /\ statistics' = statistics /\ baseline' = baseline
        /\ pc = "write" /\ pc' \in {"read", "done"} /\ chunk' = chunk + 1
        /\ pc' = "read" => chunk < NChunks
    BY <1>6 DEF Write, threadVars
  <2>2. chunk \in 1..NChunks /\ chunk \in Nat /\ NChunks \in Nat /\ queue = <<>> /\ ToSet(queue) = {}
        /\ \A t \in Threads : at[t] = "returned"
    BY <2>1, Constants DEF PoolInv, Discipline, Returned, ToSet
  <2>3. \A u \in Threads, c \in 1..NChunks, b \in Baselines : Mine(u, c, b) = 0
    BY <1>c, <2>2
  <2>4. \A b \in Baselines : Merged(chunk, b) = 1
    <3>1. \A b \in Baselines : ~P(b)
      BY <2>2 DEF Pending
    <3>2. \A b \in Baselines : CountedOnce(b)
      BY <2>1, <3>1 DEF StatisticsAre
    <3> QED BY <2>2, <2>3, <3>2 DEF CountedOnce
  <2>5. \A b \in Baselines, c \in 1..NChunks : c # chunk => Merged(c, b) = IF c < chunk THEN 1 ELSE 0
    BY <2>1 DEF StatisticsAre
  <2>6. \A b \in Baselines, c \in 1..NChunks : Merged(c, b)' = IF c < chunk' THEN 1 ELSE 0
    BY <1>b, <2>1, <2>2, <2>4, <2>5
  <2>7. \A u \in Threads, c \in 1..NChunks, b \in Baselines : Mine(u, c, b)' = 0
    BY <1>b, <2>1, <2>3
  <2>8. pc' = "read" => \A b \in Baselines : Merged(chunk, b)' = 0
    BY <2>1, <2>2, <2>6
  <2> QED BY <2>1, <2>6, <2>7, <2>8 DEF StatisticsAre
<1>7. ASSUME NEW t \in Threads, Thread(t) PROVE StatisticsAre'
  <2>0. pc = "join" /\ pc' = "join" /\ chunk' = chunk /\ chunk \in 1..NChunks
    BY <1>7, ThreadsRun DEF PoolInv
  <2>i. \A b \in Baselines, c \in 1..NChunks : c # chunk =>
          /\ Merged(c, b) = IF c < chunk THEN 1 ELSE 0
          /\ \A u \in Threads : Mine(u, c, b) = 0
    BY <2>0 DEF StatisticsAre
  <2>j. \A b \in Baselines :
          IF P(b) THEN Merged(chunk, b) = 0 /\ \A u \in Threads : Mine(u, chunk, b) = 0
          ELSE CountedOnce(b)
    BY <2>0 DEF StatisticsAre
  <2>1. CASE ~Flag(t) /\ ~AddStatistics(t)
    BY <1>7, <1>a, <2>0, <2>1, QuietStep
  <2>2. CASE Flag(t)
    <3>1. PICK h \in Baselines : h = Held(t)
      BY <2>2, CountingStep
    <3>2. /\ \A u \in Threads, c \in 1..NChunks, b \in Baselines :
                Mine(u, c, b)' = IF u = t /\ c = chunk /\ b = h THEN Mine(u, c, b) + 1
                                 ELSE Mine(u, c, b)
          /\ \A c \in 1..NChunks, b \in Baselines : Merged(c, b)' = Merged(c, b)
          /\ \A b \in Baselines : P(b)' <=> P(b) /\ b # h
          /\ P(h)
      BY <2>2, <3>1, CountingStep
    <3>3. \A b \in Baselines, c \in 1..NChunks : c # chunk' =>
            /\ Merged(c, b)' = IF c < chunk' THEN 1 ELSE 0
            /\ \A u \in Threads : Mine(u, c, b)' = 0
      BY <2>0, <2>i, <3>2
    <3>4. CountedOnce(h)'
      BY <2>0, <2>j, <3>2 DEF CountedOnce
    <3>5. ASSUME NEW b \in Baselines, b # h PROVE CountedOnce(b)' <=> CountedOnce(b)
      BY <2>0, <3>2, <3>5 DEF CountedOnce
    <3>6. ASSUME NEW b \in Baselines
          PROVE  IF P(b)' THEN Merged(chunk, b)' = 0 /\ \A u \in Threads : Mine(u, chunk, b)' = 0
                 ELSE CountedOnce(b)'
      BY <2>0, <2>j, <3>2, <3>4, <3>5
    <3> QED BY <2>0, <3>3, <3>6 DEF StatisticsAre
  <2>3. CASE AddStatistics(t)
    <3>1. /\ \A u \in Threads, c \in 1..NChunks, b \in Baselines :
                Mine(u, c, b)' = IF u = t THEN 0 ELSE Mine(u, c, b)
          /\ \A c \in 1..NChunks, b \in Baselines : Merged(c, b)' = Merged(c, b) + Mine(t, c, b)
          /\ \A b \in Baselines : P(b)' <=> P(b)
      BY <2>3, AddingStep
    <3>2. \A b \in Baselines, c \in 1..NChunks : c # chunk' =>
            /\ Merged(c, b)' = IF c < chunk' THEN 1 ELSE 0
            /\ \A u \in Threads : Mine(u, c, b)' = 0
      BY <2>0, <2>i, <3>1
    <3>3. ASSUME NEW b \in Baselines, CountedOnce(b) PROVE CountedOnce(b)'
      <4>1. CASE Merged(chunk, b) = 1 /\ \A u \in Threads : Mine(u, chunk, b) = 0
        BY <2>0, <3>1, <4>1 DEF CountedOnce
      <4>2. CASE /\ Merged(chunk, b) = 0
                 /\ \E w \in Threads : Mine(w, chunk, b) = 1
                                       /\ \A u \in Threads \ {w} : Mine(u, chunk, b) = 0
        <5>1. PICK w \in Threads : Mine(w, chunk, b) = 1
                                   /\ \A u \in Threads \ {w} : Mine(u, chunk, b) = 0
          BY <4>2
        <5>2. CASE w = t
          <6>1. Merged(chunk, b)' = 1
            BY <2>0, <3>1, <4>2, <5>1, <5>2
          <6>2. \A u \in Threads : Mine(u, chunk, b)' = 0
            BY <2>0, <3>1, <5>1, <5>2
          <6> QED BY <2>0, <6>1, <6>2 DEF CountedOnce
        <5>3. CASE w # t
          <6>1. Merged(chunk, b)' = 0
            BY <2>0, <3>1, <4>2, <5>1, <5>3
          <6>2. Mine(w, chunk, b)' = 1 /\ \A u \in Threads \ {w} : Mine(u, chunk, b)' = 0
            BY <2>0, <3>1, <5>1, <5>3
          <6> QED BY <2>0, <6>1, <6>2 DEF CountedOnce
        <5> QED BY <5>2, <5>3
      <4> QED BY <3>3, <4>1, <4>2 DEF CountedOnce
    <3>4. ASSUME NEW b \in Baselines
          PROVE  IF P(b)' THEN Merged(chunk, b)' = 0 /\ \A u \in Threads : Mine(u, chunk, b)' = 0
                 ELSE CountedOnce(b)'
      BY <2>0, <2>j, <3>1, <3>3
    <3> QED BY <2>0, <3>2, <3>4 DEF StatisticsAre
  <2> QED BY <2>1, <2>2, <2>3
<1>8. ASSUME NEW t \in Threads, Throw(t) PROVE StatisticsAre'
  BY <1>8 DEF Throw
<1> QED BY <1>1, <1>2, <1>3, <1>4, <1>5, <1>6, <1>7, <1>8 DEF Next, CotterStep, Stopped

-----------------------------------------------------------------------------
LEMMA ResultsInit == Init => ImagesAre /\ FlagsAre /\ StatisticsAre
<1> SUFFICES ASSUME Init PROVE ImagesAre /\ FlagsAre /\ StatisticsAre
  OBVIOUS
<1>1. pc \in {"read", "terminated"}
  BY DEF Init, SetUpIs
<1>2. ImagesAre
  BY <1>1 DEF ImagesAre
<1>3. FlagsAre
  BY <1>1 DEF Init, FlagsAre
<1>4. StatisticsAre
  <2>1. chunk = 1 /\ \A c \in 1..NChunks, b \in Baselines : Merged(c, b) = 0
    BY DEF Init, Merged
  <2>2. \A t \in Threads, c \in 1..NChunks, b \in Baselines : Mine(t, c, b) = 0
    BY DEF Init, Mine, Unmerged
  <2>3. 1 \in 1..NChunks
    BY Constants
  <2> QED BY <1>1, <2>1, <2>2, <2>3 DEF StatisticsAre
<1> QED BY <1>2, <1>3, <1>4

LEMMA ResultsInvariant == Spec => [](PoolInv /\ ImagesAre /\ FlagsAre /\ StatisticsAre)
<1>1. Init => PoolInv /\ ImagesAre /\ FlagsAre /\ StatisticsAre
  BY PoolInit, ResultsInit
<1>2. PoolInv /\ ImagesAre /\ FlagsAre /\ StatisticsAre /\ [Next]_vars
      => PoolInv' /\ ImagesAre' /\ FlagsAre' /\ StatisticsAre'
  BY PoolStep, ImagesStep, FlagsStep, StatisticsStep
<1> QED BY <1>1, <1>2, PTL DEF Spec

(* What is written is what a single thread that takes the baselines in turn   *)
(* would have written: the result does not depend on the interleaving.       *)
AsBySingleThread ==
  pc = "write" =>
    \A b \in Baselines : /\ \A p \in Products : images[b][p] = AsCorrected(b, p)
                         /\ flagBuffers[b] = Flags(b)

LEMMA NothingPending ==
  ASSUME PoolInv, pc = "write", NEW b \in Baselines, NEW S \in SUBSET {"correct", "flag", "store"}
  PROVE  ~Pending(b, S)
<1>1. ToSet(queue) = {} /\ \A t \in Threads : at[t] = "returned"
  BY DEF PoolInv, Discipline, Returned, ToSet
<1> QED BY <1>1 DEF Pending

(* The image sets and the flags of a chunk that is written do not depend on   *)
(* how the threads shared the baselines out.                                 *)
THEOREM ResultIsSequential == Spec => []AsBySingleThread
<1>1. PoolInv /\ ImagesAre /\ FlagsAre => AsBySingleThread
  BY NothingPending DEF ImagesAre, FlagsAre, AsBySingleThread
<1> QED BY <1>1, ResultsInvariant, PTL

(* What the corrections make of the image set of two polarizations.           *)
LEMMA CorrectedShape ==
  ASSUME NEW b \in Baselines, NEW p \in Products
  PROVE  AsCorrected(b, p) =
           [of |-> IF Outs(b, p) \in isConjugated THEN Reverse(Shuffled(inputs, Outs(b, p)))
                   ELSE Shuffled(inputs, Outs(b, p)),
            delays |-> IF opt.cableLength THEN << InputsOfProduct(b, p) >> ELSE <<>>,
            gains |-> << GainsOf(InputsOfProduct(b, p)) >>]
<1> DEFINE x == Shuffled(inputs, Outs(b, p))
           pair == InputsOfProduct(b, p)
           read == [of |-> x, delays |-> <<>>, gains |-> <<>>]
           ordered == IF Outs(b, p) \in isConjugated THEN correctConjugated(read) ELSE read
           delayed == IF opt.cableLength THEN correctCableLength(ordered, pair) ELSE ordered
<1>1. correctConjugated(read) = [of |-> Reverse(x), delays |-> <<>>, gains |-> <<>>]
  <2>1. [i \in DOMAIN <<>> |-> Reverse(<<>>[i])] = <<>>
    OBVIOUS
  <2>2. read.of = x /\ read.delays = <<>>
    OBVIOUS
  <2>3. correctConjugated(read) = [read EXCEPT !.of = Reverse(x), !.delays = <<>>]
    BY <2>1, <2>2 DEF correctConjugated
  <2> QED BY <2>3
<1>2. PICK y : /\ ordered = [of |-> y, delays |-> <<>>, gains |-> <<>>]
               /\ y = IF Outs(b, p) \in isConjugated THEN Reverse(x) ELSE x
  BY <1>1
<1>3. PICK d : /\ delayed = [of |-> y, delays |-> d, gains |-> <<>>]
               /\ d = IF opt.cableLength THEN <<pair>> ELSE <<>>
  <2>1. Append(<<>>, pair) = <<pair>>
    OBVIOUS
  <2>2. correctCableLength(ordered, pair) = [of |-> y, delays |-> <<pair>>, gains |-> <<>>]
    BY <1>2, <2>1 DEF correctCableLength
  <2> QED BY <1>2, <2>2
<1>4. AsCorrected(b, p) = CorrectGains(delayed, pair)
  BY DEF AsCorrected, AsRead, Corrected
<1>5. AsCorrected(b, p) = [of |-> y, delays |-> d, gains |-> <<GainsOf(pair)>>]
  <2>1. Append(<<>>, GainsOf(pair)) = <<GainsOf(pair)>>
    OBVIOUS
  <2> QED BY <1>3, <1>4, <2>1 DEF CorrectGains
<1> QED BY <1>2, <1>3, <1>5

(* Every baseline of a chunk that is written has been corrected exactly once, *)
(* and has its flags instead of the placeholder.                             *)
THEOREM CorrectedExactlyOnce == Spec => []ProcessedOnce
<1>1. ASSUME AsBySingleThread PROVE ProcessedOnce
  <2>1. \A b \in Baselines, p \in Products : Len(AsCorrected(b, p).gains) = 1
    BY CorrectedShape
  <2>2. \A b \in Baselines : Flags(b) # Placeholder
    BY DEF Flags, FlagMask, Unflagged, Placeholder
  <2> QED BY <1>1, <2>1, <2>2 DEF AsBySingleThread, ProcessedOnce
<1> QED BY <1>1, ResultIsSequential, PTL

(* The statistics count every baseline of every chunk once, unless the        *)
(* command line asks for them and refuses them.                              *)
THEOREM StatisticsCounted ==
  ASSUME StatisticsNotRefused
  PROVE  Spec => []StatisticsExact
<1> DEFINE Wanted == opt.saveStatistics => opt.collectStatistics
<1>1. Init => Wanted
  <2> SUFFICES ASSUME Init PROVE Wanted
    OBVIOUS
  <2>1. PICK o \in Observations : SetUpIs(o)
    BY DEF Init
  <2>2. opt = Options(o.args)
    BY <2>1, Zenon DEF SetUpIs
  <2> QED BY <2>2 DEF StatisticsNotRefused
<1>2. Wanted /\ [Next]_vars => Wanted'
  BY DEF Next, CotterStep, Read, QueueBaseline, StartThreads, Join, Write, Thread, Start, Lock,
         TakeFront, Pop, Correct, Flag, Store, FindStatistics, AddStatistics, Throw, Stopped,
         vars, settings
<1>3. ASSUME PoolInv, StatisticsAre, Wanted PROVE StatisticsExact
  <2> SUFFICES ASSUME pc = "done", opt.collectStatistics
               PROVE  /\ statistics # <<>>
                      /\ \A c \in 1..NChunks, b \in Baselines : statistics[1][c][b] = 1
    BY <1>3 DEF StatisticsExact
  <2>1. chunk = NChunks + 1
    BY <1>3 DEF PoolInv, Discipline
  <2>2. \A c \in 1..NChunks, b \in Baselines : Merged(c, b) = 1
    BY <1>3, <2>1, Constants DEF StatisticsAre
  <2>3. 1 \in 1..NChunks /\ <<0, 0>> \in Baselines
    BY Constants
  <2> QED BY <2>2, <2>3 DEF Merged
<1> QED BY <1>1, <1>2, <1>3, ResultsInvariant, PTL DEF Spec

(* The antennas that are flagged are those that the user or an input says to  *)
(* be, so that a baseline is only left out of the flagging for being theirs. *)
FlaggedAre ==
  pc # "terminated" =>
    flagged = {a \in Antennae : IsAntennaFlagged(inputs, antennaInputs, opt.userFlagged, a)}

LEMMA FlaggedInvariant == Spec => []FlaggedAre
<1>1. Init => FlaggedAre
  <2> SUFFICES ASSUME Init, pc # "terminated" PROVE FlaggedAre
    BY DEF FlaggedAre
  <2>1. PICK o \in Observations : SetUpIs(o)
    BY DEF Init
  <2> DEFINE valid == CheckSetup(ReadTiles(o.rows)) /\ (Options(o.args).instrConfig => Fits(o.lines))
  <2>2. /\ pc = IF valid /\ ~Refused(opt) THEN "read" ELSE "terminated"
        /\ flagged = {a \in Antennae :
                       valid /\ IsAntennaFlagged(inputs, antennaInputs, opt.userFlagged, a)}
    BY <2>1, Zenon DEF SetUpIs
  <2> HIDE DEF valid
  <2> QED BY <2>2 DEF FlaggedAre
<1>2. FlaggedAre /\ [Next]_vars => FlaggedAre'
  <2> SUFFICES ASSUME FlaggedAre, [Next]_vars PROVE FlaggedAre'
    OBVIOUS
  <2>1. UNCHANGED settings /\ (pc = "terminated" => pc' = "terminated")
    BY DEF Next, CotterStep, Read, QueueBaseline, StartThreads, Join, Write, Thread, Start, Lock,
           TakeFront, Pop, Correct, Flag, Store, FindStatistics, AddStatistics, Throw, Stopped, vars
  <2> QED BY <2>1 DEF FlaggedAre, settings
<1> QED BY <1>1, <1>2, PTL DEF Spec

(* In every baseline that is written the samples known to be bad are flagged, *)
(* whichever thread processed it and whatever was asked for.                 *)
THEOREM BadSamplesAreFlagged == Spec => [](KeptAreUnflagged => BadSamplesFlagged)
<1>1. ASSUME AsBySingleThread, FlaggedAre, KeptAreUnflagged PROVE BadSamplesFlagged
  <2> SUFFICES ASSUME pc = "write", NEW b \in Baselines, OutputBaseline(b)
               PROVE  flagBuffers[b] \intersect {"all", "bad"} # {}
    BY DEF BadSamplesFlagged
  <2>1. flagBuffers[b] = Flags(b)
    BY <1>1 DEF AsBySingleThread
  <2>2. SkipFlagging(b) => b[1] \in flagged \/ b[2] \in flagged
    <3>1. b[1] \in Antennae /\ b[2] \in Antennae
      BY Constants
    <3>2. ASSUME NEW a \in Antennae, NEW p \in Pols, inputs[antennaInputs[p][a]].isFlagged
          PROVE  a \in flagged
      BY <1>1, <3>2 DEF FlaggedAre, IsAntennaFlagged
    <3> QED BY <3>1, <3>2 DEF SkipFlagging
  <2>3. opt.flagFiles => ~SkipFlagging(b)
    BY <1>1, <2>2 DEF KeptAreUnflagged, OutputBaseline
  <2>4. "all" \in Flags(b) \/ "bad" \in Flags(b)
    BY <2>3 DEF Flags, FlagMask
  <2> QED BY <2>1, <2>4
<1> QED BY <1>1, ResultIsSequential, FlaggedInvariant, PTL

-----------------------------------------------------------------------------
(* What the observation and the command line settle.                         *)
Configured ==
  pc # "terminated" =>
    \E o \in Observations :
      /\ opt = Options(o.args)
      /\ CheckSetup(ReadTiles(o.rows))
      /\ inputs = IF Options(o.args).instrConfig /\ Fits(o.lines)
                  THEN ReadInputConfig(o.lines) ELSE ReadTiles(o.rows)
      /\ antennaInputs = AntennaInputs(ReadTiles(o.rows))
      /\ pfbGains = [i \in Outputs |-> [sb \in 0..(o.sbEnd - 1) |-> SubbandGain(o, i, sb)]]
      /\ band = [start |-> o.sbStart, end |-> o.sbEnd]

LEMMA ConfiguredInvariant == Spec => []Configured
<1>1. Init => Configured
  <2> SUFFICES ASSUME Init, pc # "terminated" PROVE Configured
    BY DEF Configured
  <2>1. PICK o \in Observations : SetUpIs(o)
    BY DEF Init
  <2> DEFINE valid == CheckSetup(ReadTiles(o.rows)) /\ (Options(o.args).instrConfig => Fits(o.lines))
  <2>2. /\ pc = IF valid /\ ~Refused(opt) THEN "read" ELSE "terminated"
        /\ antennaInputs = IF valid THEN AntennaInputs(ReadTiles(o.rows)) ELSE <<>>
    BY <2>1, Zenon DEF SetUpIs
  <2>3. valid
    BY <2>2
  <2>4. antennaInputs = AntennaInputs(ReadTiles(o.rows))
    BY <2>2, <2>3, Zenon
  <2> QED BY <2>1, <2>3, <2>4, Zenon DEF Configured, SetUpIs
<1>2. Configured /\ [Next]_vars => Configured'
  <2> SUFFICES ASSUME Configured, [Next]_vars PROVE Configured'
    OBVIOUS
  <2>1. UNCHANGED settings /\ (pc = "terminated" => pc' = "terminated")
    BY DEF Next, CotterStep, Read, QueueBaseline, StartThreads, Join, Write, Thread, Start, Lock,
           TakeFront, Pop, Correct, Flag, Store, FindStatistics, AddStatistics, Throw, Stopped, vars
  <2> QED BY <2>1, Zenon DEF Configured, settings
<1> QED BY <1>1, <1>2, PTL DEF Spec

LEMMA InputsOfAntennas ==
  ASSUME SameConnections, Configured, pc # "terminated"
  PROVE  Typed(inputs) /\ Wired(inputs, antennaInputs)
<1>1. PICK o \in Observations :
        /\ CheckSetup(ReadTiles(o.rows))
        /\ inputs = IF Options(o.args).instrConfig /\ Fits(o.lines)
                    THEN ReadInputConfig(o.lines) ELSE ReadTiles(o.rows)
        /\ antennaInputs = AntennaInputs(ReadTiles(o.rows))
  BY DEF Configured
<1> DEFINE tiles == ReadTiles(o.rows)
<1>2. Typed(tiles)
  BY PoolAssumption, TilesTyped
<1>3. Wired(tiles, antennaInputs)
  BY <1>1, <1>2, InputsAreWired
<1>4. \A i \in Outputs : /\ inputs[i].antenna = tiles[i].antenna
                         /\ inputs[i].polarization = tiles[i].polarization
  BY <1>1 DEF SameConnections
<1> HIDE DEF tiles
<1> QED BY <1>2, <1>3, <1>4 DEF Typed, Wired

(* Everything that is written holds the product of the inputs of its antennas *)
(* and polarizations, in order, and was corrected once for these inputs:     *)
(* whatever the connections, whichever thread processed it and whatever the  *)
(* order of the stations in the gpubox files.                                *)
THEOREM ProductsArePlacedAndCorrected ==
  ASSUME SameConnections
  PROVE  Spec => []ProductsInPlace
<1>1. ASSUME Configured, ImagesAre, AsBySingleThread PROVE ProductsInPlace
  <2> SUFFICES ASSUME pc = "write", NEW b \in Baselines, NEW p \in Products
               PROVE  LET image == images[b][p] IN
                      \E i, j \in Outputs :
                        /\ InputIs(i, b[1], p[1]) /\ InputIs(j, b[2], p[2])
                        /\ b[1] # b[2] \/ p[1] = p[2] => image.of = <<i, j>>
                        /\ image.delays = IF opt.cableLength THEN << <<i, j>> >> ELSE <<>>
                        /\ Len(image.gains) = 1
                        /\ \A sb \in DOMAIN image.gains[1] :
                             /\ GainIsOf(image.gains[1][sb][1], i, band.start + sb)
                             /\ GainIsOf(image.gains[1][sb][2], j, band.start + sb)
    BY DEF ProductsInPlace
  <2>1. /\ b[1] \in Antennae /\ b[2] \in Antennae /\ b[1] <= b[2]
        /\ p[1] \in Pols /\ p[2] \in Pols
    BY Constants DEF Products
  <2>2. Typed(inputs) /\ Wired(inputs, antennaInputs)
    BY <1>1, InputsOfAntennas
  <2>3. PICK i \in Outputs, j \in Outputs :
          i = antennaInputs[p[1]][b[1]] /\ j = antennaInputs[p[2]][b[2]]
    BY <2>1, <2>2 DEF Wired
  <2>4. InputIs(i, b[1], p[1]) /\ InputIs(j, b[2], p[2])
    BY <2>1, <2>2, <2>3 DEF InputIs, Wired
  <2>5. InputsOfProduct(b, p) = <<i, j>>
    BY <2>3 DEF InputsOfProduct
  <2>6. images[b][p] =
          [of |-> IF Outs(b, p) \in isConjugated THEN Reverse(Shuffled(inputs, Outs(b, p)))
                  ELSE Shuffled(inputs, Outs(b, p)),
           delays |-> IF opt.cableLength THEN << <<i, j>> >> ELSE <<>>,
           gains |-> << GainsOf(<<i, j>>) >>]
    BY <1>1, <2>5, CorrectedShape DEF AsBySingleThread
  <2>7. ASSUME b[1] # b[2] \/ p[1] = p[2] PROVE images[b][p].of = <<i, j>>
    <3>1. Shuffled(inputs, Outs(b, p)) = IF IsConjugated(inputs, Outs(b, p))
                                         THEN <<j, i>> ELSE <<i, j>>
      BY <2>1, <2>2, <2>3, <2>7, ProductsArePlaced DEF Outs
    <3>2. Outs(b, p) \in isConjugated <=> IsConjugated(inputs, Outs(b, p))
      BY <1>1 DEF ImagesAre, ConjugatedOuts
    <3>3. Reverse(<<j, i>>) = <<i, j>>
      BY DEF Reverse
    <3> QED BY <2>6, <3>1, <3>2, <3>3
  <2>8. images[b][p].gains = << GainsOf(<<i, j>>) >>
    BY <2>6
  <2>9. ASSUME NEW sb \in DOMAIN GainsOf(<<i, j>>)
        PROVE  /\ GainIsOf(GainsOf(<<i, j>>)[sb][1], i, band.start + sb)
               /\ GainIsOf(GainsOf(<<i, j>>)[sb][2], j, band.start + sb)
    <3>1. PICK o \in Observations :
            /\ opt = Options(o.args)
            /\ pfbGains = [k \in Outputs |-> [s \in 0..(o.sbEnd - 1) |-> SubbandGain(o, k, s)]]
            /\ band = [start |-> o.sbStart, end |-> o.sbEnd]
      BY <1>1 DEF Configured
    <3>2. /\ sb \in 0..(band.end - band.start - 1)
          /\ GainsOf(<<i, j>>)[sb] = <<pfbGains[i][sb + band.start], pfbGains[j][sb + band.start]>>
      BY DEF GainsOf
    <3>3. o.sbStart \in Nat /\ o.sbEnd \in Nat
      BY PoolAssumption
    <3>4. sb + band.start \in 0..(o.sbEnd - 1) /\ sb + band.start = band.start + sb
      BY <3>1, <3>2, <3>3
    <3>5. ASSUME NEW k \in Outputs
          PROVE  GainIsOf(pfbGains[k][sb + band.start], k, band.start + sb)
      <4>1. pfbGains[k][sb + band.start] = SubbandGain(o, k, band.start + sb)
        BY <3>1, <3>4
      <4> QED BY <3>1, <4>1 DEF GainIsOf, SubbandGain
    <3> QED BY <3>2, <3>5
  <2>10. images[b][p].delays = IF opt.cableLength THEN << <<i, j>> >> ELSE <<>>
    BY <2>6
  <2>11. Len(images[b][p].gains) = 1 /\ images[b][p].gains[1] = GainsOf(<<i, j>>)
    BY <2>8
  <2> QED BY <2>4, <2>7, <2>9, <2>10, <2>11
<1> QED BY <1>1, ConfiguredInvariant, ResultsInvariant, ResultIsSequential, PTL

(* The types of the state, the owner of the mutex and the image sets.        *)
THEOREM TypeCorrect == Spec => []TypeOK
<1>1. ASSUME PoolInv, ImagesAre PROVE TypeOK
  <2>1. StateOK
    BY <1>1 DEF PoolInv
  <2>2. ImagesOK
    <3> SUFFICES ASSUME pc \in {"join", "write"}, NEW b \in Baselines, NEW p \in Products
                 PROVE  images[b][p].of \in (Outputs \X Outputs) \union {NoProduct}
      BY DEF ImagesOK
    <3> DEFINE x == Shuffled(inputs, Outs(b, p))
    <3>1. x \in (Outputs \X Outputs) \union {NoProduct}
      BY ShuffledRange
    <3>2. Reverse(x) \in (Outputs \X Outputs) \union {NoProduct}
      <4>1. ASSUME NEW i \in Outputs, NEW j \in Outputs PROVE Reverse(<<i, j>>) = <<j, i>>
        BY DEF Reverse
      <4>2. Reverse(NoProduct) = NoProduct
        BY DEF Reverse, NoProduct
      <4>3. CASE x = NoProduct
        BY <4>2, <4>3
      <4>4. CASE x \in Outputs \X Outputs
        <5>1. PICK i \in Outputs, j \in Outputs : x = <<i, j>>
          BY <4>4
        <5> QED BY <4>1, <5>1
      <4> QED BY <3>1, <4>3, <4>4
    <3>3. AsRead(b, p).of = x
      BY DEF AsRead
    <3>4. AsCorrected(b, p).of \in {x, Reverse(x)}
      BY CorrectedShape
    <3>5. images[b][p] = AsRead(b, p) \/ images[b][p] = AsCorrected(b, p)
      BY <1>1 DEF ImagesAre
    <3> HIDE DEF x
    <3> QED BY <3>1, <3>2, <3>3, <3>4, <3>5
  <2> QED BY <2>1, <2>2 DEF TypeOK
<1> QED BY <1>1, ResultsInvariant, PTL

-----------------------------------------------------------------------------
(* What the options fold to: f[u] are the options after the arguments at the *)
(* places u, the last of which is taken last.                                *)
OptionsAt(args, f, u) ==
  IF u = {} THEN Defaults ELSE SetOption(f[Without(u, Max(u))], args[Max(u)])
Folded(args, S, f) == f = [u \in SUBSET S |-> OptionsAt(args, f, u)]

(* The last of the places is one of them.                                     *)
LEMMA LastIn ==
  ASSUME NEW n \in Nat, NEW u \in SUBSET (1..n), u # {}
  PROVE  Max(u) \in u /\ \A y \in u : Max(u) >= y
<1>1. u \in SUBSET Nat /\ \A y \in u : y <= n
  OBVIOUS
<1> QED BY <1>1, MaxIsGreatest

(* There is such a function: by induction over the number of places.           *)
LEMMA FoldedExists ==
  ASSUME NEW n \in Nat, NEW args
  PROVE  \E f : Folded(args, 1..n, f)
<1> DEFINE S == 1..n
           T == {m \in Nat : \E f : \A u \in SUBSET S :
                               Cardinality(u) <= m => f[u] = OptionsAt(args, f, u)}
<1>0. IsFiniteSet(S)
  BY FS_Interval
<1>9. ASSUME NEW u \in SUBSET S, u # {} PROVE Max(u) \in u
  BY <1>9, LastIn
<1> HIDE DEF S
<1>1. 0 \in T
  <2> DEFINE f == [u \in SUBSET S |-> Defaults]
  <2>1. ASSUME NEW u \in SUBSET S, Cardinality(u) <= 0 PROVE f[u] = OptionsAt(args, f, u)
    <3>1. u = {}
      BY <1>0, <2>1, SmallerEmpty
    <3> QED BY <3>1 DEF OptionsAt
  <2> HIDE DEF f
  <2> QED BY <2>1
<1>2. ASSUME NEW m \in T PROVE m + 1 \in T
  <2>1. m \in Nat /\ \E f : \A u \in SUBSET S : Cardinality(u) <= m => f[u] = OptionsAt(args, f, u)
    OBVIOUS
  <2> HIDE DEF T
  <2>2. PICK f : \A u \in SUBSET S : Cardinality(u) <= m => f[u] = OptionsAt(args, f, u)
    BY <2>1
  <2> DEFINE g == [u \in SUBSET S |-> OptionsAt(args, f, u)]
  <2>3. ASSUME NEW u \in SUBSET S, Cardinality(u) <= m + 1 PROVE g[u] = OptionsAt(args, g, u)
    <3>1. CASE u = {}
      BY <3>1 DEF OptionsAt
    <3>2. CASE u # {}
      <4>1. PICK x : x = Max(u)
        OBVIOUS
      <4>2. x \in u
        BY <1>9, <3>2, <4>1
      <4>3. PICK w : w = Without(u, x)
        OBVIOUS
      <4>4. w \in SUBSET S /\ Cardinality(w) <= m
        BY <1>0, <2>1, <2>3, <4>2, <4>3, Smaller
      <4>5. g[w] = f[w]
        BY <2>2, <4>4
      <4>6. /\ OptionsAt(args, f, u) = SetOption(f[w], args[x])
            /\ OptionsAt(args, g, u) = SetOption(g[w], args[x])
        BY <3>2, <4>1, <4>3 DEF OptionsAt
      <4>7. g[u] = OptionsAt(args, f, u)
        OBVIOUS
      <4> HIDE DEF g
      <4> QED BY <4>5, <4>6, <4>7
    <3> QED BY <3>1, <3>2
  <2> HIDE DEF g
  <2>4. \E h : \A u \in SUBSET S : Cardinality(u) <= m + 1 => h[u] = OptionsAt(args, h, u)
    BY <2>3
  <2> QED BY <2>1, <2>4 DEF T
<1>3. PICK k \in Nat : k = Cardinality(S)
  BY <1>0, FS_CardinalityType
<1>4. PICK f : \A u \in SUBSET S : Cardinality(u) <= k => f[u] = OptionsAt(args, f, u)
  <2>1. T \in SUBSET Nat
    OBVIOUS
  <2> HIDE DEF T
  <2>2. k \in T
    BY <1>1, <1>2, <2>1, Inductive
  <2> QED BY <2>2 DEF T
<1> DEFINE g == [u \in SUBSET S |-> f[u]]
<1>5. ASSUME NEW u \in SUBSET S PROVE g[u] = OptionsAt(args, g, u)
  <2>1. Cardinality(u) <= k
    BY <1>0, <1>3, FS_Subset
  <2>2. f[u] = OptionsAt(args, f, u) /\ g[u] = f[u]
    BY <1>4, <2>1
  <2>3. Without(u, Max(u)) \in SUBSET S
    BY DEF Without
  <2>4. g[Without(u, Max(u))] = f[Without(u, Max(u))]
    BY <2>3
  <2> HIDE DEF g
  <2> QED BY <2>2, <2>4 DEF OptionsAt
<1>6. g = [u \in SUBSET S |-> g[u]]
  OBVIOUS
<1> HIDE DEF g
<1>7. Folded(args, S, g)
  BY <1>5, <1>6 DEF Folded
<1> QED BY <1>7 DEF S

(* The options after the first k arguments.                                  *)
Taken(args, n, f) ==
  /\ f[0] = Defaults
  /\ \A k \in 0..(n - 1) : f[k + 1] = SetOption(f[k], args[k + 1])

(* The options are those after the last argument.                             *)
LEMMA OptionsAreTaken ==
  ASSUME NEW n \in Nat, NEW args, DOMAIN args = 1..n
  PROVE  \E f : Options(args) = f[n] /\ Taken(args, n, f)
<1> DEFINE S == 1..n
           f == CHOOSE f : Folded(args, S, f)
           t == [k \in 0..n |-> f[1..k]]
<1>1. Options(args) = f[S]
  BY DEF Options, FoldLeft, MapThenFoldSet, Folded, OptionsAt, Without
<1>2. Folded(args, S, f)
  BY FoldedExists
<1> HIDE DEF f
<1>3. ASSUME NEW k \in 0..n PROVE t[k] = f[1..k] /\ 1..k \in SUBSET S
  OBVIOUS
<1>4. t[0] = Defaults
  <2>1. 1..0 = {} /\ {} \in SUBSET S /\ 0 \in 0..n
    OBVIOUS
  <2>2. f[{}] = Defaults
    BY <1>2, <2>1 DEF Folded, OptionsAt
  <2> QED BY <1>3, <2>1, <2>2
<1>5. ASSUME NEW k \in 0..(n - 1) PROVE t[k + 1] = SetOption(t[k], args[k + 1])
  <2>1. k \in 0..n /\ k + 1 \in 0..n /\ 1..(k + 1) \in SUBSET S /\ k + 1 \in 1..(k + 1)
    OBVIOUS
  <2>2. Max(1..(k + 1)) = k + 1
    <3>1. PICK x : x = Max(1..(k + 1))
      OBVIOUS
    <3>2. x \in 1..(k + 1) /\ \A y \in 1..(k + 1) : x >= y
      <4>1. 1..(k + 1) # {} /\ k + 1 \in Nat
        BY <2>1
      <4> QED BY <3>1, <4>1, LastIn
    <3>3. x >= k + 1
      BY <2>1, <3>2
    <3> QED BY <3>1, <3>2, <3>3
  <2>3. Without(1..(k + 1), k + 1) = 1..k
    BY DEF Without
  <2>4. PICK u : u = 1..(k + 1)
    OBVIOUS
  <2>5. f[u] = OptionsAt(args, f, u) /\ u # {}
    BY <1>2, <2>1, <2>4 DEF Folded
  <2>6. f[u] = SetOption(f[1..k], args[k + 1])
    BY <2>2, <2>3, <2>4, <2>5 DEF OptionsAt
  <2>7. t[k + 1] = f[u] /\ t[k] = f[1..k]
    BY <1>3, <2>1, <2>4
  <2> QED BY <2>6, <2>7
<1>6. t[n] = f[S]
  BY <1>3
<1> HIDE DEF t
<1>7. Taken(args, n, t)
  BY <1>4, <1>5 DEF Taken
<1> QED BY <1>1, <1>6, <1>7

(* What an argument may do to the options.                                   *)
Effect(o, arg, q) ==
  /\ q \in OptionRecord
  /\ q.saveStatistics => o.saveStatistics \/ arg.param = "saveqs"
  /\ q.saveStatistics /\ ~q.collectStatistics =>
       o.saveStatistics /\ (~o.collectStatistics \/ arg.param = "nostats")
  /\ q.flagFiles => o.flagFiles \/ arg.param = "flagfiles"
  /\ ~q.removeFlagged =>
       \/ ~o.removeFlagged
       \/ arg.param = "noantennapruning"
       \/ arg.param = "o" /\ arg.format = "mwaf"

(* Every argument of main.cpp does no more than that.                          *)
LEMMA EffectIs ==
  ASSUME NEW o \in OptionRecord, NEW arg \in Argument
  PROVE  Effect(o, arg, SetOption(o, arg))
<1>1. CASE arg.param = "o"
  <2>1. SetOption(o, arg) = OutputFile(o, arg.format)
    BY <1>1 DEF SetOption
  <2>2. arg.format \in Formats
    BY DEF Argument
  <2>3. Effect(o, arg, OutputFile(o, arg.format))
    BY <1>1, <2>2 DEF OutputFile, Effect, OptionRecord, Formats
  <2> QED BY <2>1, <2>3
<1>2. CASE arg.param = "noflagautos"
  BY <1>2 DEF SetOption, Effect, OptionRecord, Argument
<1>3. CASE arg.param = "norfi"
  BY <1>3 DEF SetOption, Effect, OptionRecord, Argument
<1>4. CASE arg.param = "nostats"
  BY <1>4 DEF SetOption, Effect, OptionRecord, Argument
<1>5. CASE arg.param = "noantennapruning"
  BY <1>5 DEF SetOption, Effect, OptionRecord, Argument
<1>6. CASE arg.param = "noautos"
  BY <1>6 DEF SetOption, Effect, OptionRecord, Argument
<1>7. CASE arg.param = "nocablelength"
  BY <1>7 DEF SetOption, Effect, OptionRecord, Argument
<1>8. CASE arg.param = "nosbgains"
  BY <1>8 DEF SetOption, Effect, OptionRecord, Argument
<1>9. CASE arg.param = "i"
  BY <1>9 DEF SetOption, Effect, OptionRecord, Argument
<1>10. CASE arg.param = "flagantenna"
  BY <1>10 DEF SetOption, Effect, OptionRecord, Argument
<1>11. CASE arg.param = "flagfiles"
  BY <1>11 DEF SetOption, Effect, OptionRecord, Argument
<1>12. CASE arg.param = "saveqs"
  BY <1>12 DEF SetOption, Effect, OptionRecord, Argument
<1>13. CASE arg.param \notin {"o", "noflagautos", "norfi", "nostats", "noantennapruning",
                             "noautos", "nocablelength", "nosbgains", "i", "flagantenna",
                             "flagfiles", "saveqs"}
  <2>1. SetOption(o, arg) = o
    BY <1>13 DEF SetOption
  <2> QED BY <2>1 DEF Effect
<1> QED BY <1>1, <1>2, <1>3, <1>4, <1>5, <1>6, <1>7, <1>8, <1>9, <1>10, <1>11, <1>12, <1>13

(* What the first k arguments must have said for the options to be o.        *)
Said(args, k, p) == \E j \in 1..k : args[j].param = p
KeepsFlagged(args, k) ==
  \E j \in 1..k : \/ args[j].param = "noantennapruning"
                  \/ args[j].param = "o" /\ args[j].format = "mwaf"
RefusedAfterwards(args, k) ==
  \E i, j \in 1..k : i < j /\ args[i].param = "saveqs" /\ args[j].param = "nostats"

Justified(args, k, o) ==
  /\ o \in OptionRecord
  /\ o.saveStatistics => Said(args, k, "saveqs")
  /\ o.saveStatistics /\ ~o.collectStatistics => RefusedAfterwards(args, k)
  /\ o.flagFiles => Said(args, k, "flagfiles")
  /\ ~o.removeFlagged => KeepsFlagged(args, k)

(* What the options say was said on the command line.                         *)
LEMMA OptionsAreJustified ==
  ASSUME NEW args \in Seq(Argument)
  PROVE  Justified(args, Len(args), Options(args))
<1>1. PICK n \in Nat : n = Len(args) /\ DOMAIN args = 1..n
  BY LenProperties
<1>2. PICK f : Options(args) = f[n] /\ Taken(args, n, f)
  BY <1>1, OptionsAreTaken
<1> DEFINE T == {k \in Nat : k <= n => Justified(args, k, f[k])}
<1>3. 0 \in T
  <2>1. Justified(args, 0, Defaults)
    BY DEF Justified, Defaults, OptionRecord, Formats
  <2> QED BY <1>2, <2>1 DEF Taken
<1>4. ASSUME NEW k \in T PROVE k + 1 \in T
  <2>1. k \in Nat /\ (k <= n => Justified(args, k, f[k]))
    OBVIOUS
  <2> HIDE DEF T
  <2>2. ASSUME k + 1 <= n PROVE Justified(args, k + 1, f[k + 1])
    <3>1. k \in 0..(n - 1) /\ k + 1 \in 1..n /\ k + 1 \in 1..(k + 1)
      BY <2>1, <2>2
    <3>2. PICK o, q, arg : o = f[k] /\ q = f[k + 1] /\ arg = args[k + 1]
      OBVIOUS
    <3>3. Justified(args, k, o)
      BY <2>1, <2>2, <3>2
    <3>4. arg \in Argument
      BY <1>1, <3>1, <3>2, ElementOfSeq
    <3>5. q = SetOption(o, arg)
      BY <1>2, <3>1, <3>2 DEF Taken
    <3>6. o \in OptionRecord
      BY <3>3 DEF Justified
    <3>7. Effect(o, arg, q)
      BY <3>4, <3>5, <3>6, EffectIs
    <3>8. \A j \in 1..k : j \in 1..(k + 1) /\ j < k + 1
      BY <2>1
    <3>9. q.saveStatistics => Said(args, k + 1, "saveqs")
      BY <3>1, <3>2, <3>3, <3>7, <3>8 DEF Justified, Effect, Said
    <3>10. q.saveStatistics /\ ~q.collectStatistics => RefusedAfterwards(args, k + 1)
      <4> SUFFICES ASSUME q.saveStatistics, ~q.collectStatistics
                   PROVE  RefusedAfterwards(args, k + 1)
        OBVIOUS
      <4>1. CASE ~o.collectStatistics
        <5>1. RefusedAfterwards(args, k)
          BY <3>3, <3>7, <4>1 DEF Justified, Effect
        <5> QED BY <3>8, <5>1 DEF RefusedAfterwards
      <4>2. CASE arg.param = "nostats"
        <5>1. PICK i \in 1..k : args[i].param = "saveqs"
          BY <3>3, <3>7 DEF Justified, Effect, Said
        <5> QED BY <3>1, <3>2, <3>8, <4>2, <5>1 DEF RefusedAfterwards
      <4> QED BY <3>7, <4>1, <4>2 DEF Effect
    <3>11. q.flagFiles => Said(args, k + 1, "flagfiles")
      BY <3>1, <3>2, <3>3, <3>7, <3>8 DEF Justified, Effect, Said
    <3>12. ~q.removeFlagged => KeepsFlagged(args, k + 1)
      BY <3>1, <3>2, <3>3, <3>7, <3>8 DEF Justified, Effect, KeepsFlagged
    <3> QED BY <3>2, <3>7, <3>9, <3>10, <3>11, <3>12 DEF Justified, Effect
  <2> QED BY <2>1, <2>2 DEF T
<1>5. n \in T
  <2>1. T \in SUBSET Nat
    OBVIOUS
  <2> HIDE DEF T
  <2> QED BY <1>3, <1>4, <2>1, Inductive
<1>6. Justified(args, n, f[n])
  BY <1>5
<1> QED BY <1>1, <1>2, <1>6

(* The statistics are exact if no -nostats comes after -saveqs: whatever else *)
(* is on the command line, and in whichever order.                           *)
THEOREM StatisticsAsAsked ==
  ASSUME \A o \in Observations : ~RefusedAfterwards(o.args, Len(o.args))
  PROVE  Spec => []StatisticsExact
<1>1. ASSUME NEW o \in Observations, Options(o.args).saveStatistics
      PROVE  Options(o.args).collectStatistics
  <2>1. o.args \in Seq(Argument)
    BY PoolAssumption
  <2>2. Justified(o.args, Len(o.args), Options(o.args))
    BY <2>1, OptionsAreJustified
  <2> QED BY <1>1, <2>2 DEF Justified
<1>2. StatisticsNotRefused
  BY <1>1 DEF StatisticsNotRefused
<1> QED BY <1>2, StatisticsCounted

(* No bad sample is left unflagged if the command line does not say both      *)
(* -flagfiles and something that keeps flagged antennas.                     *)
THEOREM BadSamplesFlaggedAsAsked ==
  ASSUME \A o \in Observations : /\ Said(o.args, Len(o.args), "flagfiles")
                                 => ~KeepsFlagged(o.args, Len(o.args))
  PROVE  Spec => []BadSamplesFlagged
<1> DEFINE Pruned == opt.flagFiles => opt.removeFlagged
<1>1. Init => Pruned
  <2> SUFFICES ASSUME Init PROVE Pruned
    OBVIOUS
  <2>1. PICK o \in Observations : SetUpIs(o)
    BY DEF Init
  <2>2. opt = Options(o.args)
    BY <2>1, Zenon DEF SetUpIs
  <2>3. o.args \in Seq(Argument)
    BY PoolAssumption
  <2>4. Justified(o.args, Len(o.args), Options(o.args))
    BY <2>3, OptionsAreJustified
  <2> QED BY <2>2, <2>4 DEF Justified
<1>2. Pruned /\ [Next]_vars => Pruned'
  BY DEF Next, CotterStep, Read, QueueBaseline, StartThreads, Join, Write, Thread, Start, Lock,
         TakeFront, Pop, Correct, Flag, Store, FindStatistics, AddStatistics, Throw, Stopped,
         vars, settings
<1>3. Pruned => KeptAreUnflagged
  BY DEF KeptAreUnflagged
<1> QED BY <1>1, <1>2, <1>3, BadSamplesAreFlagged, PTL DEF Spec
=============================================================================
