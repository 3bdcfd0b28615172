----------------------------- MODULE LaneProofs -----------------------------
(***************************************************************************)
(* Lane proved for any capacity, threads and lengths of calls: it is a FIFO *)
(* queue with an end, no notification is missed, and it implements         *)
(* LaneQueue.                                                              *)
(***************************************************************************)
EXTENDS Lane, Integers, SequenceTheorems, FiniteSetTheorems, TLAPS

(* The types of TypeOK, as the steps need them. *)
Types ==
  /\ DOMAIN cell = 0..(Capacity - 1)
  /\ writePosition \in 0..(Capacity - 1)
  /\ freeWriteSpace \in 0..Capacity
  /\ status \in {"normal", "end"}
  /\ todo \in [Writers -> Seq(Element)] /\ \A w \in Writers : Len(todo[w]) <= MaxBatch
  /\ left \in [Readers -> 0..MaxBatch]
  /\ stored \in Seq(Element) /\ taken \in Seq(Element)

ThreadTypes ==
  inCall \subseteq Threads /\ asleep \subseteq inCall /\ finished \subseteq Readers

(* Fifo, element by element. *)
Position(j) == (ReadPosition + j - 1) % Capacity
Contents ==
  /\ Len(stored) = Len(taken) + FreeReadSpace
  /\ \A i \in 1..Len(taken) : taken[i] = stored[i]
  /\ \A j \in 1..FreeReadSpace : cell[Position(j)] = stored[Len(taken) + j]

(* After the end no writer is in a call, and who has been told of it has     *)
(* found the lane empty.                                                     *)
Ending ==
  /\ status = "end" => Writers \intersect inCall = {}
  /\ finished # {} => status = "end" /\ freeWriteSpace = Capacity

Inv == Types /\ ThreadTypes /\ Contents /\ Ending /\ NoMissedWakeup

-----------------------------------------------------------------------------
(* The arithmetic of the cyclic positions. *)
(* The j-th cell to be read lies free + j - 1 cells behind the write         *)
(* position, round the end of the array.                                     *)
LEMMA DistanceOfPosition ==
  ASSUME NEW C \in Nat \ {0}, NEW wp \in 0..(C - 1), NEW free \in 0..C, NEW j \in 1..C
  PROVE  LET p == (((wp + free) % C) + j - 1) % C
         IN  /\ p \in 0..(C - 1)
             /\ (p + C - wp) % C = IF free + j - 1 < C THEN free + j - 1 ELSE free + j - 1 - C
<1> DEFINE q == (wp + free) % C
           p == (q + j - 1) % C
<1>1. q = (IF wp + free < C THEN wp + free ELSE wp + free - C) /\ q \in 0..(C - 1)
  OBVIOUS
<1> HIDE DEF q
<1>2. p = (IF q + j - 1 < C THEN q + j - 1 ELSE q + j - 1 - C) /\ p \in 0..(C - 1)
  <2>1. q + j - 1 \in 0..(2*C - 1)
    BY <1>1
  <2> QED
    BY <1>1, <2>1
<1> HIDE DEF p
<1>3. (p + C - wp) % C = IF p + C - wp < C THEN p + C - wp ELSE p + C - wp - C
  <2>1. p \in Int /\ p + C - wp \in 0..(2*C - 1)
    BY <1>2
  <2>2. PICK a \in 0..(2*C - 1) : a = p + C - wp
    BY <2>1
  <2>3. \A b \in 0..(2*C - 1) : b % C = IF b < C THEN b ELSE b - C
    OBVIOUS
  <2>4. a % C = IF a < C THEN a ELSE a - C
    BY <2>1, <2>2, <2>3
  <2> QED
    BY <2>1, <2>2, <2>4
<1>4. /\ p \in 0..(C - 1)
      /\ (p + C - wp) % C = IF free + j - 1 < C THEN free + j - 1 ELSE free + j - 1 - C
  BY <1>1, <1>2, <1>3
<1> QED
  BY <1>4 DEF p, q

(* Storing k elements leaves the read position where it was. *)
LEMMA ReadPositionKept ==
  ASSUME NEW C \in Nat \ {0}, NEW wp \in 0..(C - 1), NEW free \in 0..C, NEW k \in 0..free
  PROVE  /\ (wp + k) % C \in 0..(C - 1)
         /\ (((wp + k) % C) + (free - k)) % C = (wp + free) % C
<1>1. (wp + k) % C = (IF wp + k < C THEN wp + k ELSE wp + k - C) /\ (wp + k) % C \in 0..(C - 1)
  OBVIOUS
<1>2. (wp + free) % C = IF wp + free < C THEN wp + free ELSE wp + free - C
  OBVIOUS
<1>3. CASE wp + k < C
  BY <1>1, <1>3
<1>4. CASE ~(wp + k < C)
  <2>1. ((wp + k) % C) + (free - k) = wp + free - C /\ wp + free - C \in 0..(C - 1)
    BY <1>1, <1>4
  <2>2. (wp + free - C) % C = wp + free - C
    BY <2>1
  <2> QED
    BY <1>2, <2>1, <2>2
<1> QED
  BY <1>1, <1>3, <1>4

(* Taking k elements moves the cells to be read on by k. *)
LEMMA ReadPositionMoved ==
  ASSUME NEW C \in Nat \ {0}, NEW wp \in 0..(C - 1), NEW free \in 0..C, NEW k \in 0..(C - free),
         NEW j \in 1..(C - free - k)
  PROVE  (((wp + (free + k)) % C) + j - 1) % C = (((wp + free) % C) + (k + j) - 1) % C
<1> DEFINE q == (wp + free) % C
           r == (wp + (free + k)) % C
<1>1. q = (IF wp + free < C THEN wp + free ELSE wp + free - C) /\ q \in 0..(C - 1)
  OBVIOUS
<1>2. r = (IF wp + (free + k) < C THEN wp + (free + k) ELSE wp + (free + k) - C) /\ r \in 0..(C - 1)
  <2>1. wp + (free + k) \in 0..(2*C - 1)
    OBVIOUS
  <2> QED
    BY <2>1
<1> HIDE DEF q, r
<1>3. (r + j - 1) % C = IF r + j - 1 < C THEN r + j - 1 ELSE r + j - 1 - C
  <2>1. r + j - 1 \in 0..(2*C - 1)
    BY <1>2
  <2> QED
    BY <1>2, <2>1
<1>4. (q + (k + j) - 1) % C = IF q + (k + j) - 1 < C THEN q + (k + j) - 1 ELSE q + (k + j) - 1 - C
  <2>1. q + (k + j) - 1 \in 0..(2*C - 1)
    BY <1>1
  <2> QED
    BY <1>1, <2>1
<1>5. (r + j - 1) % C = (q + (k + j) - 1) % C
  BY <1>1, <1>2, <1>3, <1>4
<1> QED
  BY <1>5 DEF q, r

-----------------------------------------------------------------------------
LEMMA InvInit == Init => Inv
<1> SUFFICES ASSUME Init PROVE Inv
  OBVIOUS
<1>1. Capacity \in Nat \ {0} /\ MaxBatch \in Nat \ {0}
  BY LaneAssumption
<1>2. <<>> \in Seq(Element) /\ Len(<<>>) = 0
  BY EmptySeq
<1>3. FreeReadSpace = 0
  BY <1>1 DEF Init, FreeReadSpace
<1>4. Types
  BY <1>1, <1>2 DEF Init, Types
<1>5. ThreadTypes /\ Ending /\ NoMissedWakeup
  BY DEF Init, ThreadTypes, Ending, NoMissedWakeup
<1>6. Contents
  BY <1>2, <1>3 DEF Init, Contents
<1> QED
  BY <1>4, <1>5, <1>6 DEF Inv

(* Numbers of the state, in the form the steps use. *)
LEMMA Numbers ==
  ASSUME Inv
  PROVE  /\ Capacity \in Nat \ {0} /\ MaxBatch \in Nat \ {0}
         /\ Writers \intersect Readers = {}
         /\ writePosition \in 0..(Capacity - 1) /\ freeWriteSpace \in 0..Capacity
         /\ FreeReadSpace \in 0..Capacity /\ FreeReadSpace = Capacity - freeWriteSpace
         /\ Len(taken) \in Nat /\ Len(stored) \in Nat /\ Len(stored) = Len(taken) + FreeReadSpace
<1>1. Capacity \in Nat \ {0} /\ MaxBatch \in Nat \ {0} /\ Writers \intersect Readers = {}
  BY LaneAssumption
<1>2. /\ writePosition \in 0..(Capacity - 1) /\ freeWriteSpace \in 0..Capacity
      /\ stored \in Seq(Element) /\ taken \in Seq(Element)
  BY DEF Inv, Types
<1>3. Len(taken) \in Nat /\ Len(stored) \in Nat
  BY <1>2, LenProperties
<1>4. Len(stored) = Len(taken) + FreeReadSpace
  BY DEF Inv, Contents
<1> QED
  BY <1>1, <1>2, <1>3, <1>4 DEF FreeReadSpace

(* Store: what fits goes behind what is there, and nothing else moves. *)
LEMMA StoreKeepsContents ==
  ASSUME Inv, NEW w \in Writers, NEW s \in Seq(Element), NEW k \in 0..freeWriteSpace, k <= Len(s),
         NEW notified, StoreFirst(w, s, k, notified)
  PROVE  /\ stored' \in Seq(Element) /\ Contents'
         /\ SubSeq(s, 1, k) \in [1..k -> Element] /\ stored' = stored \o SubSeq(s, 1, k)
<1>1. /\ cell' = CellsAfterWrite(s, k)
      /\ writePosition' = (writePosition + k) % Capacity
      /\ freeWriteSpace' = freeWriteSpace - k
      /\ stored' = stored \o SubSeq(s, 1, k)
      /\ taken' = taken
  BY DEF StoreFirst
<1>2. /\ Types /\ Contents /\ k \in Nat /\ Len(s) \in Nat
      /\ stored \in Seq(Element) /\ taken \in Seq(Element) /\ DOMAIN cell = 0..(Capacity - 1)
  BY Numbers, LenProperties DEF Inv, Types
<1>n. /\ Capacity \in Nat \ {0} /\ FreeReadSpace \in Nat /\ freeWriteSpace \in Nat
      /\ FreeReadSpace = Capacity - freeWriteSpace /\ k <= freeWriteSpace
      /\ Len(taken) \in Nat /\ Len(stored) \in Nat /\ Len(stored) = Len(taken) + FreeReadSpace
  BY Numbers
<1>3. /\ SubSeq(s, 1, k) \in Seq(Element) /\ Len(SubSeq(s, 1, k)) = k
      /\ \A i \in 1..k : SubSeq(s, 1, k)[i] = s[i]
  <2>1. \A i \in 1..k : s[i] \in Element
    BY <1>2, ElementOfSeq
  <2> QED
    BY <1>2, <2>1, SubSeqProperties
<1>4. /\ stored' \in Seq(Element) /\ Len(stored') = Len(stored) + k
      /\ \A i \in 1..(Len(stored) + k) :
           stored'[i] = IF i <= Len(stored) THEN stored[i] ELSE SubSeq(s, 1, k)[i - Len(stored)]
  BY <1>1, <1>2, <1>3, ConcatProperties
<1>5. SubSeq(s, 1, k) \in [1..k -> Element]
  BY <1>3, LenProperties
<1>6. ReadPosition' = ReadPosition /\ FreeReadSpace' = FreeReadSpace + k
  <2>1. ReadPosition' = ReadPosition
    BY <1>1, Numbers, ReadPositionKept DEF ReadPosition
  <2> QED
    BY <1>1, <2>1, Numbers DEF FreeReadSpace
<1>7. Len(stored') = Len(taken') + FreeReadSpace'
  <2>1. Len(taken') = Len(taken)
    BY <1>1
  <2>2. Len(stored') = Len(stored) + k /\ FreeReadSpace' = FreeReadSpace + k
    BY <1>4, <1>6
  <2> HIDE DEF FreeReadSpace
  <2> QED
    BY <1>2, <1>n, <2>1, <2>2
<1>8. \A i \in 1..Len(taken') : taken'[i] = stored'[i]
  <2> SUFFICES ASSUME NEW i \in 1..Len(taken) PROVE taken[i] = stored'[i]
    BY <1>1
  <2>1. taken[i] = stored[i]
    BY <1>2 DEF Contents
  <2>2. i \in 1..(Len(stored) + k) /\ i <= Len(stored)
    BY <1>2, <1>n
  <2> QED
    BY <1>4, <2>1, <2>2
<1>9. \A j \in 1..FreeReadSpace' : cell'[Position(j)'] = stored'[Len(taken') + j]
  <2> SUFFICES ASSUME NEW j \in 1..(FreeReadSpace + k)
               PROVE  cell'[Position(j)] = stored'[Len(taken) + j]
    BY <1>1, <1>6 DEF Position
  <2> DEFINE p == Position(j)
             d == (p + Capacity - writePosition) % Capacity
  <2>1. j \in 1..Capacity
    BY <1>2, Numbers
  <2>2. /\ p \in 0..(Capacity - 1)
        /\ d = IF freeWriteSpace + j - 1 < Capacity THEN freeWriteSpace + j - 1
               ELSE freeWriteSpace + j - 1 - Capacity
    BY <2>1, Numbers, DistanceOfPosition DEF Position, ReadPosition
  <2>3. cell'[p] = IF d < k THEN s[d + 1] ELSE cell[p]
    BY <1>1, <1>2, <2>2 DEF CellsAfterWrite
  <2> HIDE DEF p, d
  <2>4. CASE j <= FreeReadSpace
    <3>1. ~(d < k)
      BY <1>2, <1>n, <2>2, <2>4
    <3>2. cell[p] = stored[Len(taken) + j]
      BY <1>2, <2>4 DEF p, Contents
    <3>3. stored'[Len(taken) + j] = stored[Len(taken) + j]
      <4>1. Len(taken) + j \in 1..(Len(stored) + k) /\ Len(taken) + j <= Len(stored)
        BY <1>2, <1>n, <2>4
      <4> QED
        BY <1>4, <4>1
    <3> QED
      BY <2>3, <3>1, <3>2, <3>3 DEF p
  <2>5. CASE ~(j <= FreeReadSpace)
    <3>1. d = j - FreeReadSpace - 1 /\ d < k
      BY <1>2, <1>n, <2>2, <2>5
    <3>2. stored'[Len(taken) + j] = SubSeq(s, 1, k)[j - FreeReadSpace]
      <4>1. PICK i \in 1..(Len(stored) + k) :
              /\ i = Len(taken) + j /\ ~(i <= Len(stored))
              /\ i - Len(stored) = j - FreeReadSpace
        <5>1. /\ Len(taken) + j \in 1..(Len(stored) + k)
              /\ ~(Len(taken) + j <= Len(stored))
              /\ Len(taken) + j - Len(stored) = j - FreeReadSpace
          BY <1>2, <1>n, <2>5
        <5> QED
          BY <5>1
      <4>2. stored'[i] = SubSeq(s, 1, k)[i - Len(stored)]
        BY <1>4, <4>1
      <4> QED
        BY <4>1, <4>2
    <3>3. j - FreeReadSpace \in 1..k /\ d + 1 = j - FreeReadSpace
      BY <1>2, <1>n, <2>5, <3>1
    <3> QED
      BY <1>3, <2>3, <3>1, <3>2, <3>3 DEF p
  <2> QED
    BY <2>4, <2>5
<1> QED
  BY <1>1, <1>4, <1>5, <1>7, <1>8, <1>9 DEF Contents

(* Write and WriteMore: a turn of write_generic. *)
LEMMA StoreKeepsInv ==
  ASSUME Inv, status = "normal", NEW w \in Writers, w \notin asleep,
         NEW s \in Seq(Element), Len(s) <= MaxBatch, Store(w, s)
  PROVE  Inv' /\ (Queue!Put \/ UNCHANGED <<stored, taken, status>>)
<1>1. PICK k \in 0..freeWriteSpace :
        /\ k = Least(freeWriteSpace, Len(s)) /\ k <= Len(s)
        /\ k # Len(s) => k = freeWriteSpace
  <2>1. freeWriteSpace \in Nat /\ Len(s) \in Nat
    BY Numbers, LenProperties
  <2>2. LET least == Least(freeWriteSpace, Len(s))
        IN  /\ least \in 0..freeWriteSpace /\ least <= Len(s)
            /\ least # Len(s) => least = freeWriteSpace
    BY <2>1 DEF Least
  <2> QED
    BY <2>2
<1>2. PICK notified : /\ notified = IF k > 0 THEN Readers ELSE {}
                      /\ StoreFirst(w, s, k, notified)
  BY <1>1 DEF Store
<1>3. /\ stored' \in Seq(Element) /\ Contents'
      /\ SubSeq(s, 1, k) \in [1..k -> Element] /\ stored' = stored \o SubSeq(s, 1, k)
  BY <1>1, <1>2, StoreKeepsContents
<1>4. /\ cell' = CellsAfterWrite(s, k)
      /\ writePosition' = (writePosition + k) % Capacity
      /\ freeWriteSpace' = freeWriteSpace - k
      /\ todo' = [todo EXCEPT ![w] = SubSeq(s, k + 1, Len(s))]
      /\ UNCHANGED <<status, left, finished, taken>>
  BY <1>2 DEF StoreFirst
<1>5. IF k = Len(s)
      THEN inCall' = inCall \ {w} /\ asleep' = asleep \ notified
      ELSE inCall' = inCall \union {w} /\ asleep' = (asleep \ notified) \union {w}
  BY <1>2 DEF StoreFirst
<1>6. /\ Capacity \in Nat \ {0} /\ Writers \intersect Readers = {} /\ k \in Nat
      /\ writePosition \in 0..(Capacity - 1) /\ freeWriteSpace \in 0..Capacity
      /\ Types /\ ThreadTypes /\ Ending /\ NoMissedWakeup
  BY Numbers DEF Inv
<1>7. Types'
  <2>1. DOMAIN cell' = 0..(Capacity - 1)
    BY <1>4, <1>6 DEF CellsAfterWrite, Types
  <2>2. writePosition' \in 0..(Capacity - 1)
    <3>1. PICK a \in Nat : a = writePosition + k
      BY <1>6
    <3>2. a % Capacity \in 0..(Capacity - 1)
      BY <1>6
    <3> QED
      BY <1>4, <3>1, <3>2
  <2>3. freeWriteSpace' \in 0..Capacity
    BY <1>4, <1>6
  <2>4. SubSeq(s, k + 1, Len(s)) \in Seq(Element) /\ Len(SubSeq(s, k + 1, Len(s))) <= MaxBatch
    <3>1. Len(s) \in Nat /\ k \in Nat /\ MaxBatch \in Nat
      BY <1>6, LenProperties, Numbers
    <3>2. \A i \in (k + 1)..Len(s) : s[i] \in Element
      BY <3>1, ElementOfSeq
    <3>3. /\ SubSeq(s, k + 1, Len(s)) \in Seq(Element)
          /\ Len(SubSeq(s, k + 1, Len(s))) = IF k + 1 <= Len(s) THEN Len(s) - (k + 1) + 1 ELSE 0
      BY <3>1, <3>2, SubSeqProperties
    <3> QED
      BY <3>1, <3>3
  <2>5. todo' \in [Writers -> Seq(Element)] /\ \A u \in Writers : Len(todo'[u]) <= MaxBatch
    <3>1. todo \in [Writers -> Seq(Element)] /\ \A u \in Writers : Len(todo[u]) <= MaxBatch
      BY <1>6 DEF Types
    <3>2. PICK rest \in Seq(Element) : rest = SubSeq(s, k + 1, Len(s)) /\ Len(rest) <= MaxBatch
      BY <2>4
    <3>3. /\ todo' \in [Writers -> Seq(Element)] /\ todo'[w] = rest
          /\ \A u \in Writers : u # w => todo'[u] = todo[u]
      BY <1>4, <3>1, <3>2
    <3> QED
      BY <3>1, <3>2, <3>3
  <2>6. status' \in {"normal", "end"} /\ left' \in [Readers -> 0..MaxBatch] /\ taken' \in Seq(Element)
    BY <1>4, <1>6 DEF Types
  <2> QED
    BY <1>3, <2>1, <2>2, <2>3, <2>5, <2>6 DEF Types
<1>8. ThreadTypes'
  BY <1>4, <1>5, <1>6 DEF ThreadTypes, Threads
<1>9. Ending'
  BY <1>4, <1>6 DEF Ending
<1>10. NoMissedWakeup'
  <2>1. Writers \intersect asleep' # {} => freeWriteSpace' = 0
    <3>1. CASE k = Len(s)
      <4>1. Writers \intersect asleep' # {} => freeWriteSpace = 0
        BY <1>5, <1>6, <3>1 DEF NoMissedWakeup
      <4> QED
        BY <1>1, <1>4, <1>6, <4>1
    <3>2. CASE k # Len(s)
      BY <1>1, <1>4, <1>6, <3>2
    <3> QED
      BY <3>1, <3>2
  <2>2. Readers \intersect asleep' # {} => FreeReadSpace' = 0 /\ status' = "normal"
    <3>1. CASE k > 0
      BY <1>2, <1>5, <1>6, <3>1
    <3>2. CASE ~(k > 0)
      <4>1. Readers \intersect asleep' # {} => FreeReadSpace = 0 /\ status = "normal"
        BY <1>5, <1>6 DEF NoMissedWakeup
      <4>2. FreeReadSpace' = FreeReadSpace
        BY <1>4, <1>6, <3>2 DEF FreeReadSpace
      <4> QED
        BY <1>4, <4>1, <4>2
    <3> QED
      BY <3>1, <3>2
  <2> QED
    BY <2>1, <2>2 DEF NoMissedWakeup
<1>11. Queue!Put \/ UNCHANGED <<stored, taken, status>>
  <2>1. CASE k = 0
    <3>1. SubSeq(s, 1, k) = <<>>
      BY <2>1, SubSeqEmpty
    <3>2. stored' = stored
      BY <1>3, <1>6, <3>1, ConcatEmptySeq DEF Types
    <3> QED
      BY <1>4, <3>2
  <2>2. CASE k # 0
    <3>1. k \in 1..(Capacity - (Len(stored) - Len(taken)))
      <4>1. /\ Len(stored) \in Nat /\ Len(taken) \in Nat
            /\ Len(stored) = Len(taken) + (Capacity - freeWriteSpace)
        BY Numbers
      <4> QED
        BY <1>6, <2>2, <4>1
    <3>2. \E batch \in [1..k -> Element] : stored' = stored \o batch
      BY <1>3
    <3>3. ~(status = "end") /\ UNCHANGED taken /\ (status = "end")' = (status = "end")
      BY <1>4
    <3> QED
      BY <3>1, <3>2, <3>3 DEF Queue!Put
  <2> QED
    BY <2>1, <2>2
<1> QED
  BY <1>3, <1>7, <1>8, <1>9, <1>10, <1>11 DEF Inv

(* Fetch: the elements taken are the next ones, and the others stay. *)
LEMMA FetchKeepsContents ==
  ASSUME Inv, NEW r \in Readers, NEW n \in Nat, NEW k \in 0..FreeReadSpace,
         NEW notified, FetchFirst(r, n, k, notified)
  PROVE  /\ taken' \in Seq(Element) /\ Contents'
         /\ k = 0 => taken' = taken
         /\ taken' = SubSeq(stored, 1, Len(taken) + k)
<1>1. /\ taken' = taken \o CellsRead(k)
      /\ freeWriteSpace' = freeWriteSpace + k
      /\ cell' = cell /\ writePosition' = writePosition /\ stored' = stored
  BY DEF FetchFirst
<1>2. /\ Types /\ Contents /\ k \in Nat
      /\ stored \in Seq(Element) /\ taken \in Seq(Element)
  BY Numbers DEF Inv, Types
<1>n. /\ Capacity \in Nat \ {0} /\ FreeReadSpace \in Nat /\ freeWriteSpace \in Nat
      /\ writePosition \in 0..(Capacity - 1)
      /\ FreeReadSpace = Capacity - freeWriteSpace /\ k <= FreeReadSpace
      /\ Len(taken) \in Nat /\ Len(stored) \in Nat /\ Len(stored) = Len(taken) + FreeReadSpace
  BY Numbers
<1>3. \A j \in 1..FreeReadSpace : cell[Position(j)] = stored[Len(taken) + j]
  BY <1>2 DEF Contents
<1>4. /\ CellsRead(k) \in Seq(Element) /\ Len(CellsRead(k)) = k
      /\ \A i \in 1..k : CellsRead(k)[i] = stored[Len(taken) + i]
  <2>0. \A i \in 1..k : i \in 1..FreeReadSpace
    BY <1>2, <1>n
  <2>1. \A i \in 1..k : cell[Position(i)] = stored[Len(taken) + i]
    BY <1>3, <2>0
  <2>2. \A i \in 1..k : stored[Len(taken) + i] \in Element
    <3> SUFFICES ASSUME NEW i \in 1..k PROVE stored[Len(taken) + i] \in Element
      OBVIOUS
    <3>1. Len(taken) + i \in 1..Len(stored)
      BY <1>2, <1>n
    <3> QED
      BY <1>2, <3>1, ElementOfSeq
  <2>3. CellsRead(k) = [i \in 1..k |-> stored[Len(taken) + i]]
    BY <2>1 DEF CellsRead, Position
  <2> HIDE DEF CellsRead
  <2>4. CellsRead(k) \in [1..k -> Element] /\ \A i \in 1..k : CellsRead(k)[i] = stored[Len(taken) + i]
    BY <2>2, <2>3
  <2> QED
    BY <1>2, <2>4
<1>5. /\ taken' \in Seq(Element) /\ Len(taken') = Len(taken) + k
      /\ \A i \in 1..(Len(taken) + k) :
           taken'[i] = IF i <= Len(taken) THEN taken[i] ELSE CellsRead(k)[i - Len(taken)]
  <2>1. PICK read \in Seq(Element) : read = CellsRead(k) /\ Len(read) = k
    BY <1>4
  <2>2. taken' = taken \o read
    BY <1>1, <2>1
  <2>3. /\ taken \o read \in Seq(Element) /\ Len(taken \o read) = Len(taken) + Len(read)
        /\ \A i \in 1..(Len(taken) + Len(read)) :
             (taken \o read)[i] = IF i <= Len(taken) THEN taken[i] ELSE read[i - Len(taken)]
    BY <1>2, <2>1, ConcatProperties
  <2> QED
    BY <2>1, <2>2, <2>3
<1>6. FreeReadSpace' = FreeReadSpace - k
  BY <1>1, <1>2, <1>n DEF FreeReadSpace
<1>7. Len(stored') = Len(taken') + FreeReadSpace'
  <2>1. Len(stored') = Len(stored)
    BY <1>1
  <2>2. Len(taken') = Len(taken) + k
    BY <1>5
  <2> QED
    BY <1>2, <1>n, <1>6, <2>1, <2>2
<1>8. \A i \in 1..(Len(taken) + k) : taken'[i] = stored[i]
  <2> SUFFICES ASSUME NEW i \in 1..(Len(taken) + k) PROVE taken'[i] = stored[i]
    OBVIOUS
  <2>1. CASE i <= Len(taken)
    <3>1. taken[i] = stored[i]
      BY <1>2, <1>n, <2>1 DEF Contents
    <3> QED
      BY <1>5, <2>1, <3>1
  <2>2. CASE ~(i <= Len(taken))
    <3>1. i - Len(taken) \in 1..k /\ Len(taken) + (i - Len(taken)) = i
      BY <1>2, <1>n, <2>2
    <3>2. CellsRead(k)[i - Len(taken)] = stored[Len(taken) + (i - Len(taken))]
      BY <1>4, <3>1
    <3> QED
      BY <1>5, <2>2, <3>1, <3>2
  <2> QED
    BY <2>1, <2>2
<1>9. \A j \in 1..FreeReadSpace' : cell'[Position(j)'] = stored'[Len(taken') + j]
  <2> SUFFICES ASSUME NEW j \in 1..(FreeReadSpace - k)
               PROVE  cell[Position(j)'] = stored[Len(taken) + k + j]
    BY <1>1, <1>5, <1>6
  <2>1. /\ k + j \in 1..FreeReadSpace /\ j \in 1..(Capacity - freeWriteSpace - k)
        /\ k \in 0..(Capacity - freeWriteSpace) /\ freeWriteSpace \in 0..Capacity
    BY <1>2, <1>n
  <2>2. Position(j)' = (((writePosition + (freeWriteSpace + k)) % Capacity) + j - 1) % Capacity
    BY <1>1 DEF Position, ReadPosition
  <2>3. Position(k + j) = (((writePosition + freeWriteSpace) % Capacity) + (k + j) - 1) % Capacity
    BY DEF Position, ReadPosition
  <2>4. Position(j)' = Position(k + j)
    BY <1>n, <2>1, <2>2, <2>3, ReadPositionMoved
  <2>5. Len(taken) + (k + j) = Len(taken) + k + j
    BY <1>2, <1>n
  <2> QED
    BY <1>3, <2>1, <2>4, <2>5
<1>10. taken' = SubSeq(stored, 1, Len(taken) + k)
  <2>1. Len(taken) + k \in Nat /\ \A i \in 1..(Len(taken) + k) : i \in 1..Len(stored)
    BY <1>2, <1>n
  <2>2. \A i \in 1..(Len(taken) + k) : stored[i] \in Element
    BY <1>2, <2>1, ElementOfSeq
  <2>3. PICK m \in Nat : m = Len(taken) + k
    BY <2>1
  <2>4. \A i \in 1..m : stored[i] \in Element
    BY <2>2, <2>3
  <2>5. /\ SubSeq(stored, 1, m) \in Seq(Element)
        /\ Len(SubSeq(stored, 1, m)) = m
        /\ \A i \in 1..m : SubSeq(stored, 1, m)[i] = stored[i]
    <3>1. /\ SubSeq(stored, 1, m) \in Seq(Element)
          /\ Len(SubSeq(stored, 1, m)) = IF 1 <= m THEN m - 1 + 1 ELSE 0
          /\ \A i \in 1..(m - 1 + 1) : SubSeq(stored, 1, m)[i] = stored[1 + i - 1]
      BY <2>4, SubSeqProperties
    <3>2. \A i \in 1..m : 1 + i - 1 = i /\ i \in 1..(m - 1 + 1)
      OBVIOUS
    <3> QED
      BY <3>1, <3>2
  <2>6. Len(taken') = m /\ \A i \in 1..m : taken'[i] = stored[i]
    BY <1>5, <1>8, <2>3
  <2>7. taken' = SubSeq(stored, 1, m)
    BY <1>5, <2>5, <2>6, SeqEqual
  <2> QED
    BY <2>3, <2>7
<1>11. k = 0 => taken' = taken
  <2> SUFFICES ASSUME k = 0 PROVE taken' = taken
    OBVIOUS
  <2>1. CellsRead(k) = <<>>
    BY <1>4, EmptySeq
  <2> QED
    BY <1>1, <1>2, <2>1, ConcatEmptySeq
<1> QED
  <2>1. \A i \in 1..Len(taken') : taken'[i] = stored'[i]
    BY <1>1, <1>5, <1>8
  <2> QED
    BY <1>5, <1>7, <1>9, <1>10, <1>11, <2>1 DEF Contents

(* Read and ReadMore: a turn of read. *)
LEMMA FetchKeepsInv ==
  ASSUME Inv, NEW r \in Readers, r \notin asleep, NEW n \in 0..MaxBatch, Fetch(r, n)
  PROVE  Inv' /\ (Queue!Take \/ UNCHANGED <<stored, taken, status>>)
<1>1. PICK k \in 0..FreeReadSpace :
        /\ k = Least(FreeReadSpace, n) /\ k <= n
        /\ k # n => k = FreeReadSpace
  <2>1. FreeReadSpace \in Nat /\ n \in Nat
    BY Numbers
  <2>2. LET least == Least(FreeReadSpace, n)
        IN  /\ least \in 0..FreeReadSpace /\ least <= n
            /\ least # n => least = FreeReadSpace
    BY <2>1 DEF Least
  <2> QED
    BY <2>2
<1>2. PICK notified : /\ notified = IF k > 0 THEN Writers ELSE {}
                      /\ FetchFirst(r, n, k, notified)
  BY <1>1 DEF Fetch
<1>3. /\ taken' \in Seq(Element) /\ Contents'
      /\ k = 0 => taken' = taken
      /\ taken' = SubSeq(stored, 1, Len(taken) + k)
  <2>1. n \in Nat
    BY Numbers
  <2> QED
    BY <1>2, <2>1, FetchKeepsContents
<1>4. /\ freeWriteSpace' = freeWriteSpace + k
      /\ left' = [left EXCEPT ![r] = n - k]
      /\ UNCHANGED <<cell, writePosition, status, todo, stored>>
  BY <1>2 DEF FetchFirst
<1>5. IF k = n \/ status = "end"
      THEN /\ inCall' = inCall \ {r} /\ asleep' = asleep \ notified
           /\ finished' = IF k = n THEN finished ELSE finished \union {r}
      ELSE /\ inCall' = inCall \union {r} /\ asleep' = (asleep \ notified) \union {r}
           /\ finished' = finished
  BY <1>2 DEF FetchFirst
<1>6. /\ Capacity \in Nat \ {0} /\ Writers \intersect Readers = {} /\ k \in Nat /\ n \in Nat
      /\ MaxBatch \in Nat /\ n <= MaxBatch
      /\ freeWriteSpace \in 0..Capacity /\ FreeReadSpace = Capacity - freeWriteSpace
      /\ FreeReadSpace \in Nat /\ k <= FreeReadSpace
      /\ Types /\ ThreadTypes /\ Ending /\ NoMissedWakeup
  BY Numbers DEF Inv
<1>7. FreeReadSpace' = FreeReadSpace - k /\ freeWriteSpace' \in 0..Capacity
  BY <1>4, <1>6 DEF FreeReadSpace
<1>8. Types'
  <2>1. left' \in [Readers -> 0..MaxBatch]
    <3>1. n - k \in 0..MaxBatch
      BY <1>1, <1>6
    <3> QED
      BY <1>4, <1>6, <3>1 DEF Types
  <2> QED
    BY <1>3, <1>4, <1>6, <1>7, <2>1 DEF Types
<1>9. ThreadTypes'
  BY <1>5, <1>6 DEF ThreadTypes, Threads
<1>10. Ending'
  <2>1. status = "end" => Writers \intersect inCall' = {}
    BY <1>5, <1>6 DEF Ending
  <2>2. finished' # {} => status = "end" /\ freeWriteSpace' = Capacity
    <3>1. CASE k # n /\ status = "end"
      BY <1>1, <1>4, <1>6, <3>1
    <3>2. CASE ~(k # n /\ status = "end")
      <4>1. finished' = finished
        BY <1>5, <3>2
      <4>2. finished # {} => status = "end" /\ freeWriteSpace = Capacity
        BY <1>6 DEF Ending
      <4> QED
        BY <1>4, <1>6, <4>1, <4>2
    <3> QED
      BY <3>1, <3>2
  <2> QED
    BY <1>4, <2>1, <2>2 DEF Ending
<1>11. NoMissedWakeup'
  <2>1. Writers \intersect asleep' # {} => freeWriteSpace' = 0
    <3>1. CASE k > 0
      BY <1>2, <1>5, <1>6, <3>1
    <3>2. CASE ~(k > 0)
      <4>1. Writers \intersect asleep' # {} => freeWriteSpace = 0
        BY <1>5, <1>6 DEF NoMissedWakeup
      <4> QED
        BY <1>4, <1>6, <3>2, <4>1
    <3> QED
      BY <3>1, <3>2
  <2>2. Readers \intersect asleep' # {} => FreeReadSpace' = 0 /\ status' = "normal"
    <3>1. CASE k # n /\ status # "end"
      <4>1. FreeReadSpace' = 0
        BY <1>1, <1>6, <1>7, <3>1
      <4> QED
        BY <1>4, <1>6, <3>1, <4>1 DEF Types
    <3>2. CASE ~(k # n /\ status # "end")
      <4>1. Readers \intersect asleep' # {} => FreeReadSpace = 0 /\ status = "normal"
        BY <1>5, <1>6, <3>2 DEF NoMissedWakeup
      <4> QED
        BY <1>1, <1>4, <1>6, <1>7, <4>1
    <3> QED
      BY <3>1, <3>2
  <2> QED
    BY <2>1, <2>2 DEF NoMissedWakeup
<1>12. Queue!Take \/ UNCHANGED <<stored, taken, status>>
  <2>1. CASE k = 0
    BY <1>3, <1>4, <2>1
  <2>2. CASE k # 0
    <3>1. k \in 1..(Len(stored) - Len(taken))
      <4>1. /\ Len(stored) \in Nat /\ Len(taken) \in Nat
            /\ Len(stored) = Len(taken) + FreeReadSpace
        BY Numbers
      <4> QED
        BY <1>6, <2>2, <4>1
    <3>2. UNCHANGED stored /\ (status = "end")' = (status = "end")
      BY <1>4
    <3> QED
      BY <1>3, <3>1, <3>2 DEF Queue!Take
  <2> QED
    BY <2>1, <2>2
<1> QED
  BY <1>3, <1>8, <1>9, <1>10, <1>11, <1>12 DEF Inv

(* What a writer is about to write. *)
LEMMA NextElements ==
  ASSUME Inv, NEW w \in Writers, NEW n \in 1..MaxBatch, Written(w) + n <= PerWriter
  PROVE  /\ [i \in 1..n |-> <<w, Written(w) + i>>] \in Seq(Element)
         /\ Len([i \in 1..n |-> <<w, Written(w) + i>>]) <= MaxBatch
<1>1. stored \in Seq(Element) /\ DOMAIN stored = 1..Len(stored) /\ Len(stored) \in Nat
  BY LenProperties DEF Inv, Types
<1>2. Written(w) \in Nat
  <2>1. IsFiniteSet(1..Len(stored))
    BY <1>1, FS_Interval
  <2>2. {i \in DOMAIN stored : stored[i][1] = w} \in SUBSET (1..Len(stored))
    BY <1>1
  <2>3. IsFiniteSet({i \in DOMAIN stored : stored[i][1] = w})
    BY <2>1, <2>2, FS_Subset
  <2> QED
    BY <2>3, FS_CardinalityType DEF Written
<1>3. n \in Nat /\ n <= MaxBatch /\ MaxBatch \in Nat /\ PerWriter \in Nat
  BY LaneAssumption
<1>4. \A i \in 1..n : <<w, Written(w) + i>> \in Element
  BY <1>2, <1>3 DEF Element
<1> DEFINE s == [i \in 1..n |-> <<w, Written(w) + i>>]
<1>5. s \in [1..n -> Element]
  BY <1>4
<1> HIDE DEF s
<1>6. s \in Seq(Element) /\ Len(s) = n
  BY <1>3, <1>5
<1> QED
  BY <1>3, <1>6 DEF s

LEMMA WriteEndKeepsInv ==
  ASSUME Inv, WriteEnd
  PROVE  Inv' /\ Queue!End
<1>1. /\ Writers \intersect inCall = {} /\ status' = "end" /\ asleep' = {}
      /\ UNCHANGED <<cell, writePosition, freeWriteSpace, inCall, todo, left, finished, stored, taken>>
  BY DEF WriteEnd, laneVars
<1>2. Types /\ ThreadTypes /\ Contents /\ Ending
  BY DEF Inv
<1>3. Types'
  BY <1>1, <1>2 DEF Types
<1>4. ThreadTypes' /\ Ending' /\ NoMissedWakeup'
  BY <1>1, <1>2 DEF ThreadTypes, Ending, NoMissedWakeup
<1>5. Contents'
  BY <1>1, <1>2 DEF Contents, Position, ReadPosition, FreeReadSpace
<1>6. Queue!End
  BY <1>1 DEF Queue!End
<1> QED
  BY <1>3, <1>4, <1>5, <1>6 DEF Inv

LEMMA WakeupKeepsInv ==
  ASSUME Inv, NEW t \in Threads, SpuriousWakeup(t)
  PROVE  Inv' /\ UNCHANGED <<stored, taken, status>>
<1>1. /\ asleep' = asleep \ {t}
      /\ UNCHANGED <<cell, writePosition, freeWriteSpace, status, inCall, todo, left, finished, stored, taken>>
  BY DEF SpuriousWakeup, laneVars
<1>2. Types /\ ThreadTypes /\ Contents /\ Ending /\ NoMissedWakeup
  BY DEF Inv
<1>3. Types'
  BY <1>1, <1>2 DEF Types
<1>4. ThreadTypes' /\ Ending' /\ NoMissedWakeup'
  BY <1>1, <1>2 DEF ThreadTypes, Ending, NoMissedWakeup, FreeReadSpace
<1>5. Contents'
  BY <1>1, <1>2 DEF Contents, Position, ReadPosition, FreeReadSpace
<1> QED
  BY <1>1, <1>3, <1>4, <1>5 DEF Inv

LEMMA StutterKeepsInv ==
  ASSUME Inv, UNCHANGED vars
  PROVE  Inv' /\ UNCHANGED <<stored, taken, status>>
<1>1. UNCHANGED <<cell, writePosition, freeWriteSpace, status, inCall, todo, left, finished, asleep,
                 stored, taken>>
  BY DEF vars
<1>2. Types /\ ThreadTypes /\ Contents /\ Ending /\ NoMissedWakeup
  BY DEF Inv
<1>3. Types'
  BY <1>1, <1>2 DEF Types
<1>4. ThreadTypes' /\ Ending' /\ NoMissedWakeup'
  BY <1>1, <1>2 DEF ThreadTypes, Ending, NoMissedWakeup, FreeReadSpace
<1>5. Contents'
  BY <1>1, <1>2 DEF Contents, Position, ReadPosition, FreeReadSpace
<1> QED
  BY <1>1, <1>3, <1>4, <1>5 DEF Inv

(* Every step keeps Inv, and is a step of LaneQueue or none. *)
LEMMA Step ==
  ASSUME Inv, [Next]_vars
  PROVE  Inv' /\ (Queue!Next \/ UNCHANGED <<stored, taken, status>>)
<1>1. ASSUME NEW w \in Writers, WriteMore(w)
      PROVE  Inv' /\ (Queue!Put \/ UNCHANGED <<stored, taken, status>>)
  <2>1. w \in inCall /\ w \notin asleep /\ Store(w, todo[w])
    BY <1>1 DEF WriteMore
  <2>2. todo[w] \in Seq(Element) /\ Len(todo[w]) <= MaxBatch /\ status \in {"normal", "end"}
    BY DEF Inv, Types
  <2>3. status = "normal"
    BY <2>1, <2>2 DEF Inv, Ending
  <2>4. PICK s \in Seq(Element) : s = todo[w]
    BY <2>2
  <2> QED
    BY <2>1, <2>2, <2>3, <2>4, StoreKeepsInv
<1>2. ASSUME NEW w \in Writers, NEW n \in 1..MaxBatch, Write(w, n)
      PROVE  Inv' /\ (Queue!Put \/ UNCHANGED <<stored, taken, status>>)
  <2>1. /\ w \notin inCall /\ Written(w) + n <= PerWriter /\ status = "normal"
        /\ Store(w, [i \in 1..n |-> <<w, Written(w) + i>>])
    BY <1>2 DEF Write
  <2>2. w \notin asleep
    BY <2>1 DEF Inv, ThreadTypes
  <2>3. PICK s \in Seq(Element) : s = [i \in 1..n |-> <<w, Written(w) + i>>] /\ Len(s) <= MaxBatch
    BY <2>1, NextElements
  <2>4. Store(w, s)
    BY <2>1, <2>3
  <2> QED
    BY <2>1, <2>2, <2>3, <2>4, StoreKeepsInv
<1>3. ASSUME NEW r \in Readers, ReadMore(r)
      PROVE  Inv' /\ (Queue!Take \/ UNCHANGED <<stored, taken, status>>)
  <2>1. r \notin asleep /\ Fetch(r, left[r])
    BY <1>3 DEF ReadMore
  <2>2. PICK n \in 0..MaxBatch : n = left[r]
    BY DEF Inv, Types
  <2> QED
    BY <2>1, <2>2, FetchKeepsInv
<1>4. ASSUME NEW r \in Readers, NEW n \in 1..MaxBatch, Read(r, n)
      PROVE  Inv' /\ (Queue!Take \/ UNCHANGED <<stored, taken, status>>)
  <2>1. r \notin asleep /\ Fetch(r, n)
    BY <1>4 DEF Read, Inv, ThreadTypes
  <2>2. n \in 0..MaxBatch
    BY LaneAssumption
  <2> QED
    BY <2>1, <2>2, FetchKeepsInv
<1>5. CASE WriteEnd
  BY <1>5, WriteEndKeepsInv DEF Queue!Next
<1>6. ASSUME NEW t \in Threads, SpuriousWakeup(t)
      PROVE  Inv' /\ UNCHANGED <<stored, taken, status>>
  BY <1>6, WakeupKeepsInv
<1>7. CASE UNCHANGED vars
  BY <1>7, StutterKeepsInv
<1> QED
  BY <1>1, <1>2, <1>3, <1>4, <1>5, <1>6, <1>7 DEF Next, Reads, Terminated, Queue!Next

(* Inv is inductive: the positions, the cells, the threads in calls and the  *)
(* sleepers of a lane fit together in every state.                           *)
THEOREM InvHolds == Spec => []Inv
<1>1. Init => Inv
  BY InvInit
<1>2. Inv /\ [Next]_vars => Inv'
  BY Step
<1> QED
  BY <1>1, <1>2, PTL DEF Spec

-----------------------------------------------------------------------------
(* The state of a lane keeps its types: the positions stay in the array and  *)
(* the free space within the capacity, for any capacity and any calls.       *)
THEOREM TypeCorrect == Spec => []TypeOK
<1>1. Inv => TypeOK
  BY DEF Inv, Types, ThreadTypes, TypeOK
<1> QED
  BY <1>1, InvHolds, PTL

(* What has been stored is what has been taken followed by the cells from    *)
(* read_position() on, wherever the positions wrap.                          *)
THEOREM LaneIsFifo == Spec => []Fifo
<1>1. Inv => Fifo
  <2> SUFFICES ASSUME Inv PROVE Fifo
    OBVIOUS
  <2>1. /\ Contents /\ stored \in Seq(Element) /\ taken \in Seq(Element)
        /\ FreeReadSpace \in Nat /\ Len(taken) \in Nat /\ Len(stored) = Len(taken) + FreeReadSpace
    BY Numbers DEF Inv, Types
  <2>2. \A j \in 1..FreeReadSpace : cell[Position(j)] = stored[Len(taken) + j]
    BY <2>1 DEF Contents
  <2>3. CellsRead(FreeReadSpace) = [j \in 1..FreeReadSpace |-> stored[Len(taken) + j]]
    BY <2>2 DEF CellsRead, Position
  <2>4. \A j \in 1..FreeReadSpace : stored[Len(taken) + j] \in Element
    <3> SUFFICES ASSUME NEW j \in 1..FreeReadSpace PROVE stored[Len(taken) + j] \in Element
      OBVIOUS
    <3>1. Len(taken) + j \in 1..Len(stored)
      BY <2>1
    <3> QED
      BY <2>1, <3>1, ElementOfSeq
  <2>5. PICK read : /\ read = CellsRead(FreeReadSpace) /\ read \in Seq(Element)
                    /\ Len(read) = FreeReadSpace
                    /\ \A j \in 1..FreeReadSpace : read[j] = stored[Len(taken) + j]
    <3>1. PICK read : read = CellsRead(FreeReadSpace)
      OBVIOUS
    <3>2. /\ read \in [1..FreeReadSpace -> Element]
          /\ \A j \in 1..FreeReadSpace : read[j] = stored[Len(taken) + j]
      BY <2>3, <2>4, <3>1
    <3> QED
      BY <2>1, <3>1, <3>2
  <2>6. /\ taken \o read \in Seq(Element) /\ Len(taken \o read) = Len(taken) + Len(read)
        /\ \A i \in 1..(Len(taken) + Len(read)) :
             (taken \o read)[i] = IF i <= Len(taken) THEN taken[i] ELSE read[i - Len(taken)]
    BY <2>1, <2>5, ConcatProperties
  <2>7. \A i \in 1..Len(stored) : stored[i] = (taken \o read)[i]
    <3> SUFFICES ASSUME NEW i \in 1..Len(stored) PROVE stored[i] = (taken \o read)[i]
      OBVIOUS
    <3>1. CASE i <= Len(taken)
      BY <2>1, <2>5, <2>6, <3>1 DEF Contents
    <3>2. CASE ~(i <= Len(taken))
      <4>1. /\ i - Len(taken) \in 1..FreeReadSpace /\ Len(taken) + (i - Len(taken)) = i
            /\ i \in 1..(Len(taken) + Len(read))
        BY <2>1, <2>5, <3>2
      <4>2. read[i - Len(taken)] = stored[Len(taken) + (i - Len(taken))]
        BY <2>5, <4>1
      <4> QED
        BY <2>6, <3>2, <4>1, <4>2
    <3> QED
      BY <3>1, <3>2
  <2>8. Len(stored) = Len(taken \o read)
    BY <2>1, <2>5, <2>6
  <2>9. stored = taken \o read
    BY <2>1, <2>6, <2>7, <2>8, SeqEqual
  <2> QED
    BY <2>5, <2>9 DEF Fifo
<1> QED
  BY <1>1, InvHolds, PTL

(* A reader is told of the end only when every element has been taken.      *)
THEOREM EndComesLast == Spec => []EndAfterLast
<1>1. Inv => EndAfterLast
  <2> SUFFICES ASSUME Inv, finished # {} PROVE taken = stored
    BY DEF EndAfterLast
  <2>1. freeWriteSpace = Capacity /\ stored \in Seq(Element) /\ taken \in Seq(Element)
    BY DEF Inv, Types, Ending
  <2>2. Len(stored) = Len(taken)
    BY <2>1, Numbers
  <2>3. \A i \in 1..Len(taken) : taken[i] = stored[i]
    BY DEF Inv, Contents
  <2> QED
    BY <2>1, <2>2, <2>3, SeqEqual
<1> QED
  BY <1>1, InvHolds, PTL

(* No thread sleeps in wait() while what it waits for is there.              *)
THEOREM NoNotificationMissed == Spec => []NoMissedWakeup
<1>1. Inv => NoMissedWakeup
  BY DEF Inv
<1> QED
  BY <1>1, InvHolds, PTL

(* A lane is a bounded FIFO queue with an end: every behaviour of the lock,  *)
(* the conditions and the cyclic buffer is one of LaneQueue.                 *)
THEOREM LaneImplementsQueue == Spec => ImplementsLaneQueue
<1>1. Init => Queue!Init
  BY DEF Init, Queue!Init
<1>2. Inv /\ [Next]_vars => [Queue!Next]_Queue!vars
  <2> SUFFICES ASSUME Inv, [Next]_vars PROVE [Queue!Next]_Queue!vars
    OBVIOUS
  <2>1. UNCHANGED <<stored, taken, status>> => UNCHANGED Queue!vars
    BY DEF Queue!vars
  <2> QED
    BY <2>1, Step
<1> QED
  BY <1>1, <1>2, InvHolds, PTL DEF Spec, ImplementsLaneQueue, Queue!Spec
=============================================================================
