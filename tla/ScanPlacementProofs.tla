------------------------- MODULE ScanPlacementProofs -------------------------
(***************************************************************************)
(* Proofs about ScanPlacement: the types, and that what is not flagged was   *)
(* taken at the time the output gives for it.                               *)
(***************************************************************************)
EXTENDS ScanPlacement, NumberProofs, SequenceTheorems

SetType == [present : SUBSET Files, start : [Files -> Nat], hdus : [Files -> Nat]]
ReaderType == [isOpen : BOOLEAN, opened : BOOLEAN, currentHDU : Nat, stopHDU : Nat,
               offsets : [Files -> Int], startTime : Nat \union {NoScan}]

Reading == {"read", "more", "flag", "process"}

(* Before main has grouped the files there are no sets; afterwards one more   *)
(* than the number of the last time step.                                    *)
SetsAre ==
  /\ obs \in Observations
  /\ pc \in {"start", "refused"} =>
       fileSets = <<>> /\ set = 1 /\ chunk = 0 /\ reader = NewReader
  /\ pc \notin {"start", "refused"} =>
       /\ Accepted(obs.files, obs.sbStart, obs.allowMissing)
       /\ fileSets = GroupFiles(obs.files, obs.sbStart)
       /\ fileSets \in Seq(SetType) /\ Len(fileSets) > 0

StateIs ==
  /\ pc \in {"start", "chunk", "read", "more", "flag", "process", "done", "crashed", "refused"}
  /\ set \in 1..(Len(fileSets) + 1)
  /\ chunk \in 0..PartCount
  /\ pc \in Reading \union {"chunk"} => chunk < PartCount
  /\ reader \in ReaderType
  /\ moreAvailable \in BOOLEAN /\ missing \in Nat
  /\ pc \in Reading => bufferPos \in 0..ScanCount

TypeInv == SetsAre /\ StateIs

-----------------------------------------------------------------------------
(* The chunks: parts of nearly equal size that follow each other.             *)
LEMMA Cuts ==
  ASSUME NEW n \in Nat, NEW d \in Nat \ {0}, NEW a \in Nat, NEW b \in Nat, a <= b
  PROVE  /\ (n * a) \div d \in Nat /\ (n * b) \div d \in Nat
         /\ (n * a) \div d <= (n * b) \div d
<1>1. n * a \in Nat /\ n * b \in Nat /\ n * a <= n * b
  <2>1. PICK k \in Nat : b = a + k
    <3>1. b - a \in Nat /\ b = a + (b - a)
      OBVIOUS
    <3> QED BY <3>1
  <2>2. n * a \in Nat /\ n * k \in Nat
    OBVIOUS
  <2>3. n * b = n * a + n * k
    BY <2>1
  <2> QED BY <2>2, <2>3
<1>2. PICK p \in Nat, r \in 0..(d - 1) : (n * a) \div d = p /\ n * a = p * d + r
  BY <1>1, Division
<1>3. PICK q \in Nat, s \in 0..(d - 1) : (n * b) \div d = q /\ n * b = q * d + s
  BY <1>1, Division
<1>4. ~(q < p)
  <2> SUFFICES ASSUME q < p PROVE FALSE
    OBVIOUS
  <2>1. q * d + d <= p * d /\ p * d \in Nat /\ q * d \in Nat
    BY ProductMonotone
  <2> QED BY <1>1, <1>2, <1>3, <2>1
<1> QED BY <1>2, <1>3, <1>4

LEMMA Observed ==
  ASSUME obs \in Observations
  PROVE  /\ obs.nScans \in Nat \ {0} /\ obs.maxScans \in Nat \ {0}
         /\ obs.quackInit \in Nat /\ obs.quackEnd \in Nat /\ obs.edge \in Nat
         /\ obs.flagSubbands \subseteq Files /\ obs.doAlign \in BOOLEAN
         /\ obs.flagMissing \in BOOLEAN /\ obs.flagDC \in BOOLEAN
         /\ obs.firstHDU \in {1, 2} /\ obs.sbStart \in Nat \ {0}
         /\ obs.files \in Seq(FileType)
         /\ PartCount \in Nat \ {0}
<1>1. obs \in ObservationType
  BY PlacementAssumption
<1>2. obs.nScans \div obs.maxScans \in Nat
  BY <1>1 DEF ObservationType
<1> QED BY <1>1, <1>2 DEF ObservationType, PartCount

LEMMA Chunks ==
  ASSUME obs \in Observations, chunk \in 0..(PartCount - 1)
  PROVE  /\ ChunkStart \in Nat /\ ChunkEnd \in Nat /\ ScanCount \in Nat
         /\ ChunkEnd = ChunkStart + ScanCount /\ ChunkEnd <= obs.nScans
<1>1. obs.nScans \in Nat /\ PartCount \in Nat \ {0}
  BY Observed
<1>2. chunk \in Nat /\ chunk + 1 \in Nat /\ chunk <= chunk + 1 /\ chunk + 1 <= PartCount
  BY <1>1
<1>3. ChunkStart \in Nat /\ ChunkEnd \in Nat /\ ChunkStart <= ChunkEnd
  BY <1>1, <1>2, Cuts DEF ChunkStart, ChunkEnd
<1>4. (obs.nScans * PartCount) \div PartCount = obs.nScans
  <2>1. 0 \in 0..(PartCount - 1) /\ obs.nScans * PartCount + 0 = obs.nScans * PartCount
    BY <1>1
  <2>2. (obs.nScans * PartCount + 0) \div PartCount = obs.nScans
    BY <1>1, <2>1, DivisionOf
  <2> QED BY <2>1, <2>2
<1>5. ChunkEnd <= obs.nScans
  BY <1>1, <1>2, <1>4, Cuts DEF ChunkEnd
<1> QED BY <1>3, <1>5 DEF ScanCount

-----------------------------------------------------------------------------
(* A set that has files has a latest start and a least number of HDUs.        *)
LEMMA SetFacts ==
  ASSUME NEW s \in SetType, s.present # {}
  PROVE  /\ LatestStart(s) \in Nat /\ LeastHDUs(s) \in Nat
         /\ \E f \in s.present : LatestStart(s) = s.start[f]
         /\ \E f \in s.present : LeastHDUs(s) = s.hdus[f]
         /\ \A f \in s.present : s.start[f] <= LatestStart(s) /\ LeastHDUs(s) <= s.hdus[f]
<1>1. SubbandCount \in Nat
  BY PlacementAssumption
<1>2. /\ s.present \subseteq Files
      /\ \A f \in s.present : s.start[f] \in Nat /\ s.hdus[f] \in Nat /\ f \in 0..SubbandCount
  BY <1>1 DEF SetType, Files, Boxes
<1>3. PICK m \in Nat : \A f \in s.present : s.start[f] <= m
  <2> DEFINE padded == [i \in 0..SubbandCount |-> IF i \in s.present THEN s.start[i] ELSE 0]
  <2>1. \A i \in 0..SubbandCount : padded[i] \in Nat
    BY <1>2
  <2>2. PICK m \in Nat : \A i \in 0..SubbandCount : padded[i] <= m
    <3> HIDE DEF padded
    <3> QED BY <1>1, <2>1, Bounded
  <2>3. \A f \in s.present : s.start[f] <= m
    BY <1>2, <2>2
  <2> QED BY <2>3
<1> DEFINE starts == {s.start[f] : f \in s.present}
           hdus == {s.hdus[f] : f \in s.present}
<1>4. starts \in SUBSET Nat /\ starts # {} /\ hdus \in SUBSET Nat /\ hdus # {} /\ \A y \in starts : y <= m
  BY <1>2, <1>3
<1>5. /\ Max(starts) \in starts /\ \A y \in starts : Max(starts) >= y
      /\ Min(hdus) \in hdus /\ \A y \in hdus : Min(hdus) <= y
  <2> HIDE DEF starts, hdus
  <2> QED BY <1>4, MinIsLeast, MaxIsGreatest
<1>6. LatestStart(s) \in starts /\ LeastHDUs(s) \in hdus
  BY <1>5 DEF LatestStart, LeastHDUs
<1>7. \A f \in s.present : s.start[f] \in starts /\ s.hdus[f] \in hdus
  OBVIOUS
<1>8. \A f \in s.present : s.start[f] <= LatestStart(s) /\ LeastHDUs(s) <= s.hdus[f]
  BY <1>2, <1>4, <1>5, <1>7 DEF LatestStart, LeastHDUs
<1> QED BY <1>4, <1>6, <1>8

(* Grouping the files: one typed set per time step up to the last.            *)
LEMMA Grouped ==
  ASSUME obs \in Observations, Accepted(obs.files, obs.sbStart, obs.allowMissing)
  PROVE  LET sets == GroupFiles(obs.files, obs.sbStart)
         IN  /\ LastTime(obs.files) \in Nat
             /\ \A i \in DOMAIN obs.files : obs.files[i].time <= LastTime(obs.files)
             /\ sets \in Seq(SetType) /\ Len(sets) = LastTime(obs.files) + 1
<1> DEFINE files == obs.files
           times == {files[i].time : i \in DOMAIN files}
<1>1. files \in Seq(FileType) /\ obs.sbStart \in Nat \ {0} /\ files # <<>>
  BY Observed DEF Accepted
<1>2. Len(files) \in Nat \ {0} /\ DOMAIN files = 1..Len(files) /\ \A i \in DOMAIN files : files[i] \in FileType
  <2> HIDE DEF files
  <2> QED BY <1>1, EmptySeq, LenProperties, ElementOfSeq
<1>3. PICK m \in Nat : \A i \in DOMAIN files : files[i].time <= m
  <2> DEFINE padded == [i \in 0..Len(files) |-> IF i \in DOMAIN files THEN files[i].time ELSE 0]
  <2>1. \A i \in 0..Len(files) : padded[i] \in Nat
    BY <1>2 DEF FileType
  <2>2. PICK m \in Nat : \A i \in 0..Len(files) : padded[i] <= m
    <3> HIDE DEF padded
    <3> QED BY <1>2, <2>1, Bounded
  <2>3. ASSUME NEW i \in DOMAIN files PROVE files[i].time <= m
    <3>1. i \in 0..Len(files)
      BY <1>2
    <3>2. padded[i] = files[i].time
      BY <3>1
    <3> HIDE DEF padded
    <3> QED BY <2>2, <3>1, <3>2
  <2> QED BY <2>3
<1>4. times \in SUBSET Nat /\ times # {} /\ \A y \in times : y <= m
  <2>1. 1 \in DOMAIN files
    BY <1>2
  <2>2. \A i \in DOMAIN files : files[i].time \in Nat
    <3> HIDE DEF files
    <3> QED BY <1>2 DEF FileType
  <2> HIDE DEF files
  <2>3. files[1].time \in times
    BY <2>1
  <2> QED BY <1>3, <2>2, <2>3
<1>5. Max(times) \in Nat /\ \A y \in times : Max(times) >= y
  <2> HIDE DEF times
  <2> QED BY <1>4, MaxIsGreatest
<1>6. LastTime(files) \in Nat /\ \A i \in DOMAIN files : files[i].time <= LastTime(files)
  BY <1>4, <1>5 DEF LastTime
<1>7. ASSUME NEW t \in Nat PROVE FileSet(files, obs.sbStart, t) \in SetType
  <2> DEFINE Here(b) == At(files, obs.sbStart, t, b)
             present == {b \in Boxes : Here(b) # {}}
  <2>1. ASSUME NEW b \in Boxes, Here(b) # {}
        PROVE  files[Max(Here(b))].start \in Nat /\ files[Max(Here(b))].hdus \in Nat
    <3>1. Here(b) \in SUBSET Nat /\ Here(b) \subseteq DOMAIN files /\ \A y \in Here(b) : y <= Len(files)
      BY <1>2 DEF At
    <3>2. Max(Here(b)) \in Here(b)
      <4> HIDE DEF Here
      <4> QED BY <1>2, <2>1, <3>1, MaxIsGreatest
    <3>3. files[Max(Here(b))] \in FileType
      <4> HIDE DEF Here
      <4> QED BY <1>2, <3>1, <3>2
    <3> QED BY <3>3 DEF FileType
  <2>2. present \subseteq Boxes
    OBVIOUS
  <2>3. FileSet(files, obs.sbStart, t) =
          [present |-> present,
           start |-> [b \in Boxes |-> IF b \in present THEN files[Max(Here(b))].start ELSE 0],
           hdus |-> [b \in Boxes |-> IF b \in present THEN files[Max(Here(b))].hdus ELSE 0]]
    BY DEF FileSet
  <2>4. /\ [b \in Boxes |-> IF b \in present THEN files[Max(Here(b))].start ELSE 0] \in [Boxes -> Nat]
        /\ [b \in Boxes |-> IF b \in present THEN files[Max(Here(b))].hdus ELSE 0] \in [Boxes -> Nat]
    BY <2>1
  <2> HIDE DEF Here, present
  <2> QED BY <2>2, <2>3, <2>4 DEF SetType, Files
<1>8. GroupFiles(files, obs.sbStart) \in [1..(LastTime(files) + 1) -> SetType]
  <2>1. \A k \in 1..(LastTime(files) + 1) : FileSet(files, obs.sbStart, k - 1) \in SetType
    BY <1>6, <1>7
  <2> QED BY <2>1 DEF GroupFiles
<1>9. GroupFiles(files, obs.sbStart) \in Seq(SetType) /\ Len(GroupFiles(files, obs.sbStart)) = LastTime(files) + 1
  <2>1. LastTime(files) + 1 \in Nat
    BY <1>6
  <2> DEFINE g == GroupFiles(files, obs.sbStart)
             k == LastTime(files) + 1
  <2>2. g \in [1..k -> SetType] /\ k \in Nat
    BY <1>8, <2>1
  <2> HIDE DEF g, k
  <2>3. g \in Seq(SetType) /\ Len(g) = k
    BY <2>2
  <2> QED BY <2>3 DEF g, k
<1> QED BY <1>6, <1>9

-----------------------------------------------------------------------------
(* The types.                                                                *)
LEMMA SetInUse ==
  ASSUME TypeInv, pc \notin {"start", "refused"}
  PROVE  /\ CurrentSet \in SetType
         /\ set <= Len(fileSets) => CurrentSet = fileSets[set]
         /\ set > Len(fileSets) => CurrentSet = fileSets[Len(fileSets)]
<1>1. fileSets \in Seq(SetType) /\ Len(fileSets) > 0 /\ set \in 1..(Len(fileSets) + 1)
  BY DEF TypeInv, SetsAre, StateIs
<1>2. Len(fileSets) \in Nat
  BY <1>1, LenProperties
<1>3. \A i \in 1..Len(fileSets) : fileSets[i] \in SetType
  BY <1>1, ElementOfSeq
<1> QED BY <1>1, <1>2, <1>3 DEF CurrentSet

LEMMA OpenedTyped ==
  ASSUME TypeInv, pc = "read"
  PROVE  Ready \in ReaderType
<1> DEFINE s == CurrentSet
<1>1. s \in SetType /\ obs.firstHDU \in {1, 2}
  BY SetInUse, Observed DEF TypeInv, SetsAre
<1>2. s.present # {} => LatestStart(s) \in Nat /\ LeastHDUs(s) \in Nat
  BY <1>1, SetFacts
<1>3. \A f \in s.present : LatestStart(s) - s.start[f] \in Int
  <2>1. \A f \in s.present : s.start[f] \in Nat
    BY <1>1 DEF SetType
  <2> QED BY <1>2, <2>1
<1>4. Opened = [isOpen |-> TRUE, opened |-> s.present # {},
                currentHDU |-> obs.firstHDU,
                stopHDU |-> IF s.present # {} THEN LeastHDUs(s) ELSE 0,
                offsets |-> [f \in Files |-> IF f \in s.present THEN LatestStart(s) - s.start[f] ELSE 0],
                startTime |-> IF s.present # {} THEN LatestStart(s) ELSE NoScan]
  BY DEF Opened
<1>5. [f \in Files |-> IF f \in s.present THEN LatestStart(s) - s.start[f] ELSE 0] \in [Files -> Int]
  BY <1>3
<1>6. Opened \in ReaderType
  <2> HIDE DEF s
  <2> QED BY <1>1, <1>2, <1>4, <1>5 DEF ReaderType
<1>7. reader \in ReaderType
  BY DEF TypeInv, StateIs
<1> QED BY <1>6, <1>7 DEF Ready

LEMMA AvailableIs ==
  ASSUME TypeInv, pc = "read", NEW f \in CurrentSet.present
  PROVE  /\ f \in Files /\ CurrentSet.hdus[f] \in Nat /\ CurrentSet.start[f] \in Nat
         /\ Ready.currentHDU \in Nat /\ Ready.offsets[f] \in Int /\ bufferPos \in Nat
         /\ FileHDU(f) \in Int /\ FileBufferPos(f) \in Int
         /\ HDUsAvailable(f) \in Nat
         /\ (bufferPos + HDUsAvailable(f)) % SizeT \in Nat
<1>1. CurrentSet \in SetType /\ Ready \in ReaderType /\ SizeT \in Nat \ {0}
  BY SetInUse, OpenedTyped, PlacementAssumption
<1>2. bufferPos \in Nat
  <2>1. obs \in Observations /\ chunk \in 0..(PartCount - 1) /\ bufferPos \in 0..ScanCount
    BY Observed DEF TypeInv, SetsAre, StateIs, Reading
  <2> QED BY <2>1, Chunks
<1>3. /\ f \in Files /\ CurrentSet.hdus[f] \in Nat /\ CurrentSet.start[f] \in Nat
      /\ Ready.currentHDU \in Nat /\ Ready.offsets[f] \in Int
  BY <1>1 DEF SetType, ReaderType
<1>4. FileHDU(f) \in Int /\ FileBufferPos(f) \in Int
  BY <1>2, <1>3 DEF FileHDU, FileBufferPos
<1>5. HDUsAvailable(f) \in Nat
  <2>1. PICK n \in Int : n = CurrentSet.hdus[f] - FileHDU(f) + 1
    BY <1>3, <1>4
  <2> QED BY <1>1, <2>1 DEF HDUsAvailable
<1>6. (bufferPos + HDUsAvailable(f)) % SizeT \in Nat
  BY <1>1, <1>2, <1>5
<1> QED BY <1>2, <1>3, <1>4, <1>5, <1>6

LEMMA EndingIs ==
  ASSUME TypeInv, pc = "read"
  PROVE  /\ EndingBufferPos \in 0..ScanCount
         /\ \A f \in CurrentSet.present : EndingBufferPos <= (bufferPos + HDUsAvailable(f)) % SizeT
         /\ \/ EndingBufferPos = ScanCount
            \/ \E f \in CurrentSet.present : EndingBufferPos = (bufferPos + HDUsAvailable(f)) % SizeT
<1> DEFINE S == {ScanCount} \union {(bufferPos + HDUsAvailable(f)) % SizeT : f \in CurrentSet.present}
<1>1. ScanCount \in Nat
  BY Chunks, Observed DEF TypeInv, SetsAre, StateIs, Reading
<1>2. S \in SUBSET Nat /\ ScanCount \in S
  BY <1>1, AvailableIs
<1>3. Min(S) \in S /\ \A y \in S : Min(S) <= y
  <2> HIDE DEF S
  <2> QED BY <1>2, MinIsLeast
<1>4. EndingBufferPos = Min(S)
  BY DEF EndingBufferPos
<1>5. EndingBufferPos \in S /\ \A y \in S : EndingBufferPos <= y
  BY <1>3, <1>4
<1>6. EndingBufferPos \in 0..ScanCount
  <2>1. EndingBufferPos \in Nat /\ EndingBufferPos <= ScanCount
    <3> HIDE DEF S
    <3> QED BY <1>2, <1>5
  <2> QED BY <1>1, <2>1
<1>7. \A f \in CurrentSet.present : EndingBufferPos <= (bufferPos + HDUsAvailable(f)) % SizeT
  BY <1>5
<1>8. \/ EndingBufferPos = ScanCount
      \/ \E f \in CurrentSet.present : EndingBufferPos = (bufferPos + HDUsAvailable(f)) % SizeT
  BY <1>5
<1> QED BY <1>6, <1>7, <1>8

LEMMA TypeStart == Init => TypeInv
<1> SUFFICES ASSUME Init PROVE TypeInv
  OBVIOUS
<1>1. PartCount \in Nat \ {0}
  BY Observed DEF Init
<1>2. NewReader \in ReaderType
  <2>1. [f \in Files |-> 0] \in [Files -> Int]
    OBVIOUS
  <2> QED BY <2>1 DEF NewReader, ReaderType
<1>3. Len(fileSets) = 0
  BY DEF Init
<1>4. SetsAre
  BY DEF Init, SetsAre
<1>5. set \in 1..(Len(fileSets) + 1) /\ chunk \in 0..PartCount /\ missing \in Nat
  BY <1>1, <1>3 DEF Init
<1>6. StateIs
  BY <1>1, <1>2, <1>5 DEF Init, StateIs, Reading
<1> QED BY <1>4, <1>6 DEF TypeInv

LEMMA TypeStep == TypeInv /\ [Next]_vars => TypeInv'
<1> SUFFICES ASSUME TypeInv, [Next]_vars PROVE TypeInv'
  OBVIOUS
<1>1. obs \in Observations /\ PartCount \in Nat \ {0} /\ chunk \in 0..PartCount /\ NewReader \in ReaderType
  <2>1. [f \in Files |-> 0] \in [Files -> Int]
    OBVIOUS
  <2> QED BY <2>1, Observed DEF TypeInv, SetsAre, StateIs, NewReader, ReaderType
<1>2. pc \in Reading \union {"chunk"} =>
        chunk \in 0..(PartCount - 1) /\ ScanCount \in Nat /\ ChunkEnd \in Nat
  BY <1>1, Chunks DEF TypeInv, StateIs
<1>3. Len(fileSets) \in Nat
  <2>1. CASE pc \in {"start", "refused"}
    BY <2>1 DEF TypeInv, SetsAre
  <2>2. CASE pc \notin {"start", "refused"}
    BY <2>2, LenProperties DEF TypeInv, SetsAre
  <2> QED BY <2>1, <2>2
<1>4. CASE Start
  <2>1. /\ fileSets' = GroupFiles(obs.files, obs.sbStart) /\ fileSets' \in Seq(SetType)
        /\ Len(fileSets') \in Nat /\ Len(fileSets') > 0
    BY <1>1, <1>4, Grouped DEF Start
  <2>2. pc' \in {"chunk", "crashed"} /\ pc = "start"
    BY <1>4 DEF Start, AfterCreateReader
  <2>3. SetsAre'
    BY <1>1, <1>4, <2>1, <2>2 DEF Start, SetsAre
  <2>4. PartCount' = PartCount
    BY <1>4 DEF Start, PartCount
  <2>5. chunk = 0 /\ chunk' = chunk /\ set' = set /\ set = 1 /\ reader' = reader
        /\ moreAvailable' = moreAvailable /\ missing' = missing
    BY <1>4, <2>2 DEF Start, TypeInv, SetsAre
  <2>6. StateIs'
    BY <1>1, <2>1, <2>2, <2>4, <2>5 DEF StateIs, Reading, TypeInv
  <2> QED BY <2>3, <2>6 DEF TypeInv
<1>5. CASE Refuse
  BY <1>1, <1>3, <1>5 DEF Refuse, given, TypeInv, SetsAre, StateIs, Reading, PartCount
<1>6. CASE BeginChunk
  <2>1. ScanCount' = ScanCount /\ PartCount' = PartCount
    BY <1>6 DEF BeginChunk, given, ScanCount, ChunkEnd, ChunkStart, PartCount
  <2>2. 0 \in 0..ScanCount
    BY <1>2, <1>6 DEF BeginChunk
  <2> QED BY <1>1, <1>6, <2>1, <2>2 DEF BeginChunk, given, TypeInv, SetsAre, StateIs, Reading
<1>7. CASE ReadNothing
  <2>1. ScanCount' = ScanCount /\ PartCount' = PartCount
    BY <1>7 DEF ReadNothing, given, ScanCount, ChunkEnd, ChunkStart, PartCount
  <2> QED BY <1>1, <1>7, <2>1 DEF ReadNothing, given, TypeInv, SetsAre, StateIs, Reading
<1>8. CASE Read
  <2>1. ScanCount' = ScanCount /\ PartCount' = PartCount
    BY <1>8 DEF Read, given, ScanCount, ChunkEnd, ChunkStart, PartCount
  <2>2. pc = "read" /\ pc' \in {"more", "crashed"}
    BY <1>8 DEF Read
  <2>3. bufferPos' \in 0..ScanCount
    BY <1>8, <2>2, EndingIs DEF Read
  <2>4. moreAvailable' \in BOOLEAN
    BY <1>8 DEF Read
  <2>5. reader' \in ReaderType
    <3>1. Ready \in ReaderType /\ EndingBufferPos \in Int /\ bufferPos \in Int /\ SizeT \in Nat \ {0}
      BY <1>2, <2>2, OpenedTyped, EndingIs, PlacementAssumption DEF TypeInv, StateIs, Reading
    <3>2. PICK n \in Int : n = Ready.currentHDU + EndingBufferPos - bufferPos
      BY <3>1 DEF ReaderType
    <3>3. n % SizeT \in Nat
      BY <3>1, <3>2
    <3>4. reader' = [Ready EXCEPT !.currentHDU = n % SizeT, !.isOpen = moreAvailable']
      BY <1>8, <3>2 DEF Read
    <3> QED BY <2>4, <3>1, <3>3, <3>4 DEF ReaderType
  <2>6. fileSets' = fileSets /\ obs' = obs /\ set' = set /\ chunk' = chunk /\ missing' = missing
    BY <1>8 DEF Read, given
  <2>7. SetsAre'
    BY <2>2, <2>6 DEF TypeInv, SetsAre
  <2>8. StateIs'
    BY <2>1, <2>2, <2>3, <2>4, <2>5, <2>6 DEF TypeInv, StateIs, Reading
  <2> QED BY <2>7, <2>8 DEF TypeInv
<1>9. CASE NextFileSet
  <2>1. ScanCount' = ScanCount /\ PartCount' = PartCount
    BY <1>9 DEF NextFileSet, given, ScanCount, ChunkEnd, ChunkStart, PartCount
  <2>2. pc = "more" /\ pc' \in {"read", "crashed", "flag"}
    BY <1>9 DEF NextFileSet, AfterCreateReader
  <2>3. set' \in 1..(Len(fileSets) + 1)
    BY <1>3, <1>9 DEF NextFileSet, TypeInv, StateIs
  <2>4. reader' \in ReaderType
    BY <1>1, <1>9 DEF NextFileSet, TypeInv, StateIs
  <2>5. /\ fileSets' = fileSets /\ obs' = obs /\ bufferPos' = bufferPos /\ chunk' = chunk
        /\ missing' = missing /\ moreAvailable' = moreAvailable
    BY <1>9 DEF NextFileSet, given
  <2>6. SetsAre'
    BY <2>2, <2>5 DEF TypeInv, SetsAre
  <2>7. StateIs'
    BY <2>1, <2>2, <2>3, <2>4, <2>5 DEF TypeInv, StateIs, Reading
  <2> QED BY <2>6, <2>7 DEF TypeInv
<1>10. CASE KeepFileSet
  <2>1. ScanCount' = ScanCount /\ PartCount' = PartCount
    BY <1>10 DEF KeepFileSet, given, ScanCount, ChunkEnd, ChunkStart, PartCount
  <2> QED BY <1>1, <1>10, <2>1 DEF KeepFileSet, given, TypeInv, SetsAre, StateIs, Reading
<1>11. CASE FlagMissing
  <2>1. ScanCount' = ScanCount /\ PartCount' = PartCount
    BY <1>11 DEF FlagMissing, given, ScanCount, ChunkEnd, ChunkStart, PartCount
  <2>2. missing' \in Nat
    <3>1. /\ ScanCount \in Nat /\ bufferPos \in 0..ScanCount /\ ChunkEnd \in Nat
          /\ obs.quackEnd \in Nat /\ obs.nScans \in Nat
      BY <1>1, <1>2, <1>11, Observed DEF FlagMissing, Reading, TypeInv, StateIs
    <3> QED BY <1>11, <3>1 DEF FlagMissing
  <2> QED BY <1>1, <1>11, <2>1, <2>2 DEF FlagMissing, given, TypeInv, SetsAre, StateIs, Reading
<1>12. CASE EndChunk
  <2>1. PartCount' = PartCount
    BY <1>12 DEF EndChunk, given, PartCount
  <2>2. chunk' \in 0..PartCount /\ (pc' = "chunk" => chunk' < PartCount) /\ pc' \in {"done", "chunk"}
    BY <1>1, <1>2, <1>12 DEF EndChunk, Reading
  <2>3. SetsAre'
    BY <1>12, <2>2 DEF EndChunk, given, TypeInv, SetsAre
  <2>4. StateIs'
    BY <1>12, <2>1, <2>2 DEF EndChunk, given, TypeInv, StateIs, Reading
  <2> QED BY <2>3, <2>4 DEF TypeInv
<1>13. CASE UNCHANGED vars
  BY <1>13 DEF vars, given, TypeInv, SetsAre, StateIs, Reading, PartCount, ScanCount, ChunkEnd, ChunkStart
<1> QED BY <1>4, <1>5, <1>6, <1>7, <1>8, <1>9, <1>10, <1>11, <1>12, <1>13 DEF Next, Stopped

LEMMA TypeInvariant == Spec => []TypeInv
BY TypeStart, TypeStep, PTL DEF Spec

(* For any observation, files and chunks the counters stay in range: the      *)
(* columns filled within the chunk, the chunk within the observation.        *)
THEOREM TypeCorrect == Spec => []TypeOK
<1>1. TypeInv => TypeOK
  BY DEF TypeInv, StateIs, TypeOK, ReaderType, Reading
<1> QED BY <1>1, TypeInvariant, PTL

-----------------------------------------------------------------------------
(* The observations for which the scans are placed right.  First, gpuboxes    *)
(* that start together in every set, and sets that follow each other without  *)
(* a break; only in the last set may files be shorter than others.           *)
ScansOf(s) == LeastHDUs(s) - obs.firstHDU + 1

Gapless ==
  \A i \in DOMAIN fileSets :
    LET s == fileSets[i] IN
    /\ s.present # {}
    /\ \A f, g \in s.present : s.start[f] = s.start[g]
    /\ i < Len(fileSets) =>
         /\ \A f, g \in s.present : s.hdus[f] = s.hdus[g]
         /\ LatestStart(fileSets[i + 1]) = LatestStart(s) + ScansOf(s)

(* Second, one set of files that may start at different times, all of which   *)
(* last until the last scan of the header.                                   *)
Covered ==
  /\ Len(fileSets) = 1 /\ obs.doAlign
  /\ LET s == fileSets[1] IN
     /\ s.present # {}
     /\ \A f \in s.present :
          obs.nScans <= s.hdus[f] - (LatestStart(s) - s.start[f]) - obs.firstHDU + 1

(* In both cases, a file has its primary HDU, and no count comes near to what *)
(* a size_t holds.                                                           *)
Readable ==
  \A i \in DOMAIN fileSets :
    \A f \in fileSets[i].present :
      /\ obs.firstHDU <= fileSets[i].hdus[f] + 1
      /\ obs.nScans + fileSets[i].hdus[f] + 1 < SizeT

-----------------------------------------------------------------------------
Going == pc \in Reading \union {"chunk"}
Origin == LatestStart(fileSets[1])
DataEnd == LatestStart(fileSets[Len(fileSets)]) + ScansOf(fileSets[Len(fileSets)])

(* The time of the scan that the reader comes to next, and the scan that is   *)
(* to be filled next.                                                        *)
NextTime == IF reader.opened
            THEN LatestStart(CurrentSet) + reader.currentHDU - obs.firstHDU
            ELSE LatestStart(CurrentSet)
NextScan == IF pc \in Reading THEN ChunkStart + bufferPos ELSE ChunkStart

Exhausted == reader.opened /\ reader.currentHDU > reader.stopHDU
HasMore == set < Len(fileSets) \/ (set = Len(fileSets) /\ ~Exhausted)

OffsetOf(f) == IF f \in CurrentSet.present THEN LatestStart(CurrentSet) - CurrentSet.start[f] ELSE 0

ReaderIs ==
  /\ reader.isOpen => reader.opened
  /\ ~reader.opened => reader = NewReader
  /\ reader.opened =>
       /\ reader.stopHDU = LeastHDUs(CurrentSet)
       /\ reader.offsets = [f \in Files |-> OffsetOf(f)]
       /\ reader.startTime = LatestStart(CurrentSet)
       /\ reader.currentHDU >= obs.firstHDU

(* What all gpuboxes have is in its column, and scan 0 has the time of the    *)
(* first of them.                                                            *)
FilledIs ==
  pc \in Reading =>
    \A f \in Complete, p \in 0..(ScanCount - 1) :
      p < bufferPos => buffer[f][p] = Origin + ChunkStart + p
FirstIs ==
  /\ \/ pc \in {"more", "flag", "process"} \/ chunk > 0
     \/ pc = "read" /\ bufferPos > 0
     => firstScan = Origin
  /\ chunk = 0 /\ pc \in {"chunk", "read"} => ~reader.opened

GaplessIs ==
  /\ HasMore => NextTime = Origin + NextScan
  /\ ~HasMore => DataEnd <= Origin + NextScan
  /\ reader.opened => reader.currentHDU <= reader.stopHDU + 1
  /\ reader.opened /\ ~reader.isOpen => Exhausted
  /\ set > Len(fileSets) => Exhausted
  /\ pc = "more" => reader.opened /\ (~moreAvailable => Exhausted)
  /\ pc = "more" /\ bufferPos < ScanCount => Exhausted /\ (set < Len(fileSets) => ~moreAvailable)
  /\ pc \in {"flag", "process"} => bufferPos = ScanCount \/ ~HasMore

CoveredIs ==
  /\ set = 1 /\ NextTime = Origin + NextScan
  /\ pc = "read" => bufferPos = 0
  /\ pc \in {"more", "flag", "process"} => bufferPos = ScanCount /\ reader.opened
  /\ reader.opened /\ ~reader.isOpen =>
       pc \in {"more", "flag", "process"} /\ ChunkEnd = obs.nScans

GaplessInv == Going /\ Gapless /\ Readable => ReaderIs /\ FilledIs /\ FirstIs /\ GaplessIs
CoveredInv == Going /\ Covered /\ Readable => ReaderIs /\ FilledIs /\ FirstIs /\ CoveredIs

MissingIs ==
  pc = "process" =>
    missing = (ScanCount - bufferPos)
              + (IF ChunkEnd + obs.quackEnd > obs.nScans
                 THEN ChunkEnd + obs.quackEnd - obs.nScans ELSE 0)

(* -endflag does not flag more of the last chunk than there are data for.     *)
LastChunkStart == (obs.nScans * (PartCount - 1)) \div PartCount
EndFits ==
  obs.quackEnd > 0 => /\ LastChunkStart + obs.quackEnd <= obs.nScans
                      /\ Origin + LastChunkStart + obs.quackEnd <= DataEnd

(* No data of a missing gpubox are asked for.                                *)
NoneKept == obs.flagMissing \/ Complete = Files
Regular == (Gapless \/ Covered) /\ Readable
HeaderCovered == Origin + obs.nScans <= DataEnd
LastEven == \E f \in Complete : fileSets[Len(fileSets)].hdus[f] = LeastHDUs(fileSets[Len(fileSets)])

-----------------------------------------------------------------------------
LEMMA SmallRemainder ==
  ASSUME NEW x \in Nat, NEW d \in Nat \ {0}, x < d
  PROVE  x % d = x
<1>1. x \in 0..(d - 1) /\ 0 * d + x = x
  OBVIOUS
<1>2. (0 * d + x) % d = x
  BY <1>1, DivisionOf
<1> QED BY <1>1, <1>2

(* The last chunk is not empty.                                              *)
LEMMA CutBefore ==
  ASSUME NEW n \in Nat \ {0}, NEW d \in Nat \ {0}, NEW a \in Nat, a < d
  PROVE  (n * a) \div d < n
<1>1. n * a \in Nat /\ n * d \in Nat /\ n * a < n * d
  <2>1. a * n + n <= d * n /\ a * n \in Nat /\ d * n \in Nat
    BY ProductMonotone
  <2> QED BY <2>1
<1>2. PICK q \in Nat, r \in 0..(d - 1) : (n * a) \div d = q /\ n * a = q * d + r
  BY <1>1, Division
<1>3. ~(n <= q)
  <2> SUFFICES ASSUME n <= q PROVE FALSE
    OBVIOUS
  <2>1. q * d \in Nat
    OBVIOUS
  <2>2. n * d <= q * d
    <3>1. CASE n = q
      BY <1>1, <3>1
    <3>2. CASE n < q
      <4>1. n * d + d <= q * d
        BY <3>2, ProductMonotone
      <4> QED BY <1>1, <2>1, <4>1
    <3> QED BY <3>1, <3>2
  <2> QED BY <1>1, <1>2, <2>1, <2>2
<1> QED BY <1>2, <1>3

LEMMA FirstChunk ==
  ASSUME obs \in Observations, chunk = 0
  PROVE  ChunkStart = 0
<1>1. obs.nScans \in Nat /\ PartCount \in Nat \ {0}
  BY Observed
<1>2. obs.nScans * 0 = 0 * PartCount + 0 /\ 0 \in 0..(PartCount - 1)
  BY <1>1
<1>3. (0 * PartCount + 0) \div PartCount = 0
  BY <1>1, <1>2, DivisionOf
<1> QED BY <1>2, <1>3 DEF ChunkStart

(* What does not change when the observation does not, ...                    *)
LEMMA GivenSame ==
  ASSUME obs' = obs, fileSets' = fileSets
  PROVE  /\ Gapless' = Gapless /\ Covered' = Covered /\ Readable' = Readable
         /\ Origin' = Origin /\ DataEnd' = DataEnd /\ Complete' = Complete
         /\ PartCount' = PartCount
BY DEF Gapless, Covered, Readable, Origin, DataEnd, ScansOf, Complete, PartCount

(* ... the chunk does not, ...                                               *)
LEMMA ChunkSame ==
  ASSUME obs' = obs, chunk' = chunk
  PROVE  ChunkStart' = ChunkStart /\ ChunkEnd' = ChunkEnd /\ ScanCount' = ScanCount
BY DEF ChunkStart, ChunkEnd, ScanCount, PartCount

(* ... and the reader does not.                                              *)
LEMMA ReaderSame ==
  ASSUME obs' = obs, fileSets' = fileSets, set' = set, reader' = reader
  PROVE  /\ ReaderIs' = ReaderIs /\ NextTime' = NextTime /\ Exhausted' = Exhausted
         /\ HasMore' = HasMore
BY DEF ReaderIs, NextTime, Exhausted, HasMore, CurrentSet, OffsetOf, NewReader

LEMMA FilesOfSet ==
  ASSUME TypeInv, pc \notin {"start", "refused"}, Gapless \/ Covered, Readable,
         NEW i \in 1..Len(fileSets)
  PROVE  LET s == fileSets[i]
         IN  /\ s \in SetType /\ s.present # {} /\ s.present \subseteq Files
             /\ LatestStart(s) \in Nat /\ LeastHDUs(s) \in Nat
             /\ obs.firstHDU <= LeastHDUs(s) + 1 /\ LeastHDUs(s) + 1 < SizeT
             /\ \E f \in s.present : LatestStart(s) = s.start[f]
             /\ \E f \in s.present : LeastHDUs(s) = s.hdus[f]
             /\ \A f \in s.present :
                  /\ s.start[f] \in Nat /\ s.start[f] <= LatestStart(s)
                  /\ s.hdus[f] \in Nat /\ LeastHDUs(s) <= s.hdus[f]
                  /\ obs.firstHDU <= s.hdus[f] + 1 /\ obs.nScans + s.hdus[f] + 1 < SizeT
<1>1. fileSets \in Seq(SetType)
  BY DEF TypeInv, SetsAre
<1>2. Len(fileSets) \in Nat /\ DOMAIN fileSets = 1..Len(fileSets)
  BY <1>1, LenProperties
<1>3. fileSets[i] \in SetType
  BY <1>1, ElementOfSeq
<1> DEFINE s == fileSets[i]
<1>4. s.present # {}
  <2>1. CASE Gapless
    BY <1>2, <2>1 DEF Gapless
  <2>2. CASE Covered
    BY <1>2, <2>2 DEF Covered
  <2> QED BY <2>1, <2>2
<1>5. \A f \in s.present : obs.firstHDU <= s.hdus[f] + 1 /\ obs.nScans + s.hdus[f] + 1 < SizeT
  BY <1>2 DEF Readable
<1>6. /\ s.present \subseteq Files
      /\ \A f \in s.present : s.start[f] \in Nat /\ s.hdus[f] \in Nat
  BY <1>3 DEF SetType
<1>7. /\ LatestStart(s) \in Nat /\ LeastHDUs(s) \in Nat
      /\ \E f \in s.present : LatestStart(s) = s.start[f]
      /\ \E f \in s.present : LeastHDUs(s) = s.hdus[f]
      /\ \A f \in s.present : s.start[f] <= LatestStart(s) /\ LeastHDUs(s) <= s.hdus[f]
  BY <1>3, <1>4, SetFacts
<1>8. obs.nScans \in Nat /\ obs.firstHDU \in {1, 2} /\ SizeT \in Nat
  BY Observed, PlacementAssumption DEF TypeInv, SetsAre
<1>9. PICK f \in s.present : LeastHDUs(s) = s.hdus[f]
  BY <1>7
<1>10. obs.firstHDU <= LeastHDUs(s) + 1 /\ LeastHDUs(s) + 1 < SizeT
  BY <1>5, <1>6, <1>8, <1>9
<1> QED BY <1>3, <1>4, <1>5, <1>6, <1>7, <1>10

(* The state while chunks are read and processed, as numbers.                 *)
LEMMA Numbers ==
  ASSUME TypeInv, Going, Gapless \/ Covered, Readable
  PROVE  /\ obs \in Observations /\ obs.nScans \in Nat \ {0} /\ obs.firstHDU \in {1, 2}
         /\ PartCount \in Nat \ {0} /\ chunk \in 0..(PartCount - 1)
         /\ ChunkStart \in Nat /\ ChunkEnd \in Nat /\ ScanCount \in Nat
         /\ ChunkEnd = ChunkStart + ScanCount /\ ChunkEnd <= obs.nScans
         /\ ChunkStart < obs.nScans
         /\ Len(fileSets) \in Nat \ {0} /\ set \in 1..(Len(fileSets) + 1)
         /\ Origin \in Nat /\ DataEnd \in Int
         /\ CurrentSet \in SetType /\ CurrentSet.present # {}
         /\ LatestStart(CurrentSet) \in Nat /\ LeastHDUs(CurrentSet) \in Nat
         /\ reader \in ReaderType /\ SizeT \in Nat \ {0}
         /\ pc \in Reading => bufferPos \in 0..ScanCount
         /\ Complete \subseteq CurrentSet.present
<1>1. pc \notin {"start", "refused"} /\ obs \in Observations
  BY DEF Going, Reading, TypeInv, SetsAre
<1>2. /\ obs.nScans \in Nat \ {0} /\ obs.firstHDU \in {1, 2} /\ PartCount \in Nat \ {0}
      /\ SizeT \in Nat \ {0}
  BY <1>1, Observed, PlacementAssumption
<1>3. chunk \in 0..(PartCount - 1) /\ reader \in ReaderType /\ set \in 1..(Len(fileSets) + 1)
      /\ (pc \in Reading => bufferPos \in 0..ScanCount)
  BY <1>2 DEF TypeInv, StateIs, Going
<1>4. /\ ChunkStart \in Nat /\ ChunkEnd \in Nat /\ ScanCount \in Nat
      /\ ChunkEnd = ChunkStart + ScanCount /\ ChunkEnd <= obs.nScans
  BY <1>1, <1>3, Chunks
<1>5. ChunkStart < obs.nScans
  <2>1. chunk \in Nat /\ chunk < PartCount
    BY <1>2, <1>3
  <2> QED BY <1>2, <2>1, CutBefore DEF ChunkStart
<1>6. fileSets \in Seq(SetType) /\ Len(fileSets) > 0
  BY <1>1 DEF TypeInv, SetsAre
<1>7. Len(fileSets) \in Nat \ {0} /\ DOMAIN fileSets = 1..Len(fileSets)
  BY <1>6, LenProperties
<1>8. 1 \in 1..Len(fileSets) /\ Len(fileSets) \in 1..Len(fileSets)
  BY <1>7
<1>9. Origin \in Nat
  BY <1>1, <1>8, FilesOfSet DEF Origin
<1>10. DataEnd \in Int
  <2>1. /\ LatestStart(fileSets[Len(fileSets)]) \in Nat
        /\ LeastHDUs(fileSets[Len(fileSets)]) \in Nat
    BY <1>1, <1>8, FilesOfSet
  <2> QED BY <1>2, <2>1 DEF DataEnd, ScansOf
<1>11. PICK i \in 1..Len(fileSets) : CurrentSet = fileSets[i]
  BY <1>3, <1>7 DEF CurrentSet
<1>12. /\ CurrentSet \in SetType /\ CurrentSet.present # {} /\ CurrentSet.present \subseteq Files
       /\ LatestStart(CurrentSet) \in Nat /\ LeastHDUs(CurrentSet) \in Nat
  BY <1>1, <1>11, FilesOfSet
<1>13. Complete \subseteq CurrentSet.present
  BY <1>7, <1>11 DEF Complete, IsGPUBoxMissing
<1> QED BY <1>1, <1>2, <1>3, <1>4, <1>5, <1>7, <1>9, <1>10, <1>12, <1>13

(* The set in use, as FilesOfSet.                                            *)
LEMMA FilesInUse ==
  ASSUME TypeInv, Going, Gapless \/ Covered, Readable
  PROVE  LET s == CurrentSet
         IN  /\ obs.firstHDU <= LeastHDUs(s) + 1 /\ LeastHDUs(s) + 1 < SizeT
             /\ \E f \in s.present : LatestStart(s) = s.start[f]
             /\ \E f \in s.present : LeastHDUs(s) = s.hdus[f]
             /\ \A f \in s.present :
                  /\ f \in Files /\ s.start[f] \in Nat /\ s.start[f] <= LatestStart(s)
                  /\ s.hdus[f] \in Nat /\ LeastHDUs(s) <= s.hdus[f]
                  /\ obs.firstHDU <= s.hdus[f] + 1 /\ obs.nScans + s.hdus[f] + 1 < SizeT
                  /\ OffsetOf(f) = LatestStart(s) - s.start[f] /\ OffsetOf(f) \in Nat
<1>1. pc \notin {"start", "refused"}
  BY DEF Going, Reading
<1>2. PICK i \in 1..Len(fileSets) : CurrentSet = fileSets[i]
  BY Numbers DEF CurrentSet
<1>3. LET s == CurrentSet
      IN  /\ s \in SetType /\ s.present # {} /\ s.present \subseteq Files
          /\ LatestStart(s) \in Nat /\ LeastHDUs(s) \in Nat
          /\ obs.firstHDU <= LeastHDUs(s) + 1 /\ LeastHDUs(s) + 1 < SizeT
          /\ \E f \in s.present : LatestStart(s) = s.start[f]
          /\ \E f \in s.present : LeastHDUs(s) = s.hdus[f]
          /\ \A f \in s.present :
               /\ s.start[f] \in Nat /\ s.start[f] <= LatestStart(s)
               /\ s.hdus[f] \in Nat /\ LeastHDUs(s) <= s.hdus[f]
               /\ obs.firstHDU <= s.hdus[f] + 1 /\ obs.nScans + s.hdus[f] + 1 < SizeT
  BY <1>1, <1>2, FilesOfSet
<1>4. \A f \in CurrentSet.present : OffsetOf(f) = LatestStart(CurrentSet) - CurrentSet.start[f]
  BY DEF OffsetOf
<1>5. ASSUME NEW f \in CurrentSet.present
      PROVE  LatestStart(CurrentSet) - CurrentSet.start[f] \in Nat
  BY <1>3
<1> QED BY <1>3, <1>4, <1>5

-----------------------------------------------------------------------------
(* A call of Read, when no reader is opened a second time.                    *)
LEMMA ReadyIs ==
  ASSUME TypeInv, pc = "read", Gapless \/ Covered, Readable, ReaderIs,
         reader.opened => reader.isOpen
  PROVE  /\ Ready \in ReaderType /\ Ready.opened
         /\ Ready.stopHDU = LeastHDUs(CurrentSet)
         /\ Ready.offsets = [f \in Files |-> OffsetOf(f)]
         /\ Ready.startTime = LatestStart(CurrentSet)
         /\ Ready.currentHDU >= obs.firstHDU
         /\ NextTime = LatestStart(CurrentSet) + Ready.currentHDU - obs.firstHDU
         /\ reader.opened => Ready = reader
         /\ ~reader.opened => Ready.currentHDU = obs.firstHDU
<1>1. Going
  BY DEF Going, Reading
<1>2. Ready \in ReaderType
  BY OpenedTyped
<1>3. CASE reader.opened
  BY <1>2, <1>3 DEF Ready, ReaderIs, NextTime
<1>4. CASE ~reader.opened
  <2>1. Ready = Opened
    BY <1>4 DEF Ready, ReaderIs
  <2>2. CurrentSet.present # {} /\ LatestStart(CurrentSet) \in Nat /\ obs.firstHDU \in {1, 2}
    BY <1>1, Numbers
  <2>3. /\ Opened.opened = TRUE /\ Opened.stopHDU = LeastHDUs(CurrentSet)
        /\ Opened.offsets = [f \in Files |-> OffsetOf(f)]
        /\ Opened.startTime = LatestStart(CurrentSet)
        /\ Opened.currentHDU = obs.firstHDU
    BY <2>2 DEF Opened, OffsetOf
  <2>4. NextTime = LatestStart(CurrentSet)
    BY <1>4 DEF NextTime
  <2> QED BY <1>2, <1>4, <2>1, <2>2, <2>3, <2>4
<1> QED BY <1>3, <1>4

Left(f) == CurrentSet.hdus[f] + 1 - FileHDU(f)

LEMMA LeastOfTwo ==
  ASSUME NEW a \in Nat, NEW b \in Nat
  PROVE  Min({a, b}) = IF a <= b THEN a ELSE b
<1>1. {a, b} \in SUBSET Nat /\ {a, b} # {}
  OBVIOUS
<1>2. Min({a, b}) \in {a, b} /\ \A y \in {a, b} : Min({a, b}) <= y
  BY <1>1, MinIsLeast
<1> QED BY <1>2

LEMMA ReadCall ==
  ASSUME TypeInv, Read, Gapless \/ Covered, Readable, ReaderIs,
         reader.opened => reader.isOpen,
         NextTime = Origin + ChunkStart + bufferPos,
         NEW c \in Nat, c = Ready.currentHDU,
         \A f \in CurrentSet.present :
           FileBufferPos(f) = bufferPos /\ FileHDU(f) = c + OffsetOf(f) /\ Left(f) >= 0
  PROVE  \E d \in 0..(ScanCount - bufferPos) :
           /\ bufferPos' = bufferPos + d
           /\ \A f \in CurrentSet.present : d <= Left(f) /\ Left(f) \in Nat
           /\ d = ScanCount - bufferPos \/ \E f \in CurrentSet.present : d = Left(f)
           /\ reader' = [Ready EXCEPT !.currentHDU = c + d, !.isOpen = moreAvailable']
           /\ ReaderIs' /\ reader'.opened
           /\ NextTime' = Origin + ChunkStart + bufferPos'
           /\ moreAvailable' = (\E f \in CurrentSet.present : Left(f) > ScanCount - bufferPos)
           /\ \A f \in CurrentSet.present, p \in 0..(ScanCount - 1) :
                p < bufferPos' =>
                  buffer'[f][p] = IF p < bufferPos THEN buffer[f][p] ELSE Origin + ChunkStart + p
<1>1. pc = "read" /\ Going /\ pc \in Reading
  BY DEF Read, Going, Reading
<1>2. /\ Ready \in ReaderType /\ Ready.opened
      /\ Ready.stopHDU = LeastHDUs(CurrentSet)
      /\ Ready.offsets = [f \in Files |-> OffsetOf(f)]
      /\ Ready.startTime = LatestStart(CurrentSet)
      /\ c >= obs.firstHDU
      /\ NextTime = LatestStart(CurrentSet) + c - obs.firstHDU
  BY <1>1, ReadyIs
<1>3. /\ obs.nScans \in Nat /\ obs.firstHDU \in Nat /\ SizeT \in Nat \ {0}
      /\ ScanCount \in Nat /\ bufferPos \in 0..ScanCount /\ ChunkStart \in Nat /\ Origin \in Nat
      /\ ChunkStart + ScanCount <= obs.nScans
      /\ LatestStart(CurrentSet) \in Nat /\ CurrentSet.present # {}
  <2>1. /\ obs.nScans \in Nat \ {0} /\ obs.firstHDU \in {1, 2} /\ SizeT \in Nat \ {0}
        /\ ScanCount \in Nat /\ bufferPos \in 0..ScanCount /\ ChunkStart \in Nat /\ Origin \in Nat
        /\ ChunkEnd = ChunkStart + ScanCount /\ ChunkEnd <= obs.nScans
        /\ LatestStart(CurrentSet) \in Nat /\ CurrentSet.present # {}
    BY <1>1, Numbers
  <2> QED BY <2>1
<1>4. ASSUME NEW f \in CurrentSet.present
      PROVE  /\ f \in Files /\ CurrentSet.start[f] \in Nat /\ CurrentSet.hdus[f] \in Nat
             /\ obs.nScans + CurrentSet.hdus[f] + 1 < SizeT
             /\ OffsetOf(f) = LatestStart(CurrentSet) - CurrentSet.start[f] /\ OffsetOf(f) \in Nat
  BY <1>1, FilesInUse
<1>5. ASSUME NEW f \in CurrentSet.present
      PROVE  /\ Left(f) \in Nat /\ Left(f) <= CurrentSet.hdus[f] + 1 - c
             /\ HDUsAvailable(f) = Left(f)
             /\ (bufferPos + HDUsAvailable(f)) % SizeT = bufferPos + Left(f)
  <2>1. /\ FileHDU(f) = c + OffsetOf(f) /\ CurrentSet.hdus[f] \in Nat /\ OffsetOf(f) \in Nat
        /\ obs.nScans + CurrentSet.hdus[f] + 1 < SizeT
    BY <1>4
  <2>2. Left(f) \in Nat /\ Left(f) <= CurrentSet.hdus[f] + 1 - c
    BY <2>1 DEF Left
  <2>3. CurrentSet.hdus[f] - FileHDU(f) + 1 = Left(f) /\ Left(f) < SizeT
    BY <1>3, <2>1, <2>2 DEF Left
  <2>4. HDUsAvailable(f) = Left(f)
    BY <1>3, <2>2, <2>3, SmallRemainder DEF HDUsAvailable
  <2>5. bufferPos + Left(f) \in Nat /\ bufferPos + Left(f) < SizeT
    BY <1>3, <2>1, <2>2
  <2> QED BY <1>3, <2>2, <2>4, <2>5, SmallRemainder
<1>6. /\ EndingBufferPos \in 0..ScanCount
      /\ \A f \in CurrentSet.present : EndingBufferPos <= bufferPos + Left(f)
      /\ EndingBufferPos = ScanCount \/ \E f \in CurrentSet.present : EndingBufferPos = bufferPos + Left(f)
  BY <1>1, <1>5, EndingIs
<1>7. PICK d \in 0..(ScanCount - bufferPos) : EndingBufferPos = bufferPos + d
  <2>1. EndingBufferPos >= bufferPos
    BY <1>3, <1>5, <1>6
  <2>2. EndingBufferPos - bufferPos \in 0..(ScanCount - bufferPos)
    BY <1>3, <1>6, <2>1
  <2>3. EndingBufferPos = bufferPos + (EndingBufferPos - bufferPos)
    BY <1>3, <1>6
  <2> QED BY <2>2, <2>3
<1>8. bufferPos' = bufferPos + d
  BY <1>7 DEF Read
<1>9. \A f \in CurrentSet.present : d <= Left(f) /\ Left(f) \in Nat
  <2>1. ASSUME NEW f \in CurrentSet.present PROVE d <= Left(f) /\ Left(f) \in Nat
    BY <1>3, <1>5, <1>6, <1>7
  <2> QED BY <2>1
<1>10. d = ScanCount - bufferPos \/ \E f \in CurrentSet.present : d = Left(f)
  <2>1. CASE EndingBufferPos = ScanCount
    BY <1>3, <1>7, <2>1
  <2>2. ASSUME NEW f \in CurrentSet.present, EndingBufferPos = bufferPos + Left(f) PROVE d = Left(f)
    BY <1>3, <1>5, <1>7, <2>2
  <2> QED BY <1>6, <2>1, <2>2
<1>11. reader' = [Ready EXCEPT !.currentHDU = c + d, !.isOpen = moreAvailable']
  <2>1. PICK f \in CurrentSet.present : TRUE
    BY <1>3
  <2>2. c + d \in Nat /\ c + d < SizeT
    BY <1>3, <1>4, <1>5, <1>9, <2>1
  <2>3. Ready.currentHDU + EndingBufferPos - bufferPos = c + d
    BY <1>3, <1>7
  <2>4. (Ready.currentHDU + EndingBufferPos - bufferPos) % SizeT = c + d
    BY <1>3, <2>2, <2>3, SmallRemainder
  <2>5. reader' = [Ready EXCEPT !.currentHDU = (Ready.currentHDU + EndingBufferPos - bufferPos) % SizeT,
                                !.isOpen = moreAvailable']
    BY DEF Read
  <2> QED BY <2>4, <2>5
<1>12. /\ reader'.opened /\ reader'.currentHDU = c + d /\ reader'.stopHDU = LeastHDUs(CurrentSet)
       /\ reader'.offsets = [f \in Files |-> OffsetOf(f)]
       /\ reader'.startTime = LatestStart(CurrentSet)
  BY <1>2, <1>11 DEF ReaderType
<1>13. /\ obs' = obs /\ fileSets' = fileSets /\ set' = set /\ chunk' = chunk
       /\ CurrentSet' = CurrentSet /\ \A f \in Files : OffsetOf(f)' = OffsetOf(f)
  BY DEF Read, given, CurrentSet, OffsetOf
<1>14. ReaderIs'
  <2>1. c + d >= obs.firstHDU
    BY <1>2, <1>3
  <2>2. LeastHDUs(CurrentSet)' = LeastHDUs(CurrentSet) /\ LatestStart(CurrentSet)' = LatestStart(CurrentSet)
    BY <1>13 DEF LeastHDUs, LatestStart
  <2>3. [f \in Files |-> OffsetOf(f)]' = [f \in Files |-> OffsetOf(f)]
    BY <1>13 DEF OffsetOf, LatestStart
  <2> QED BY <1>12, <1>13, <2>1, <2>2, <2>3 DEF ReaderIs
<1>15. NextTime' = Origin + ChunkStart + bufferPos'
  <2>1. NextTime' = LatestStart(CurrentSet) + (c + d) - obs.firstHDU
    BY <1>12, <1>13 DEF NextTime, LatestStart
  <2> QED BY <1>2, <1>3, <1>8, <2>1
<1>16. ASSUME NEW f \in CurrentSet.present
       PROVE  /\ Placed(f) \in Nat
              /\ Placed(f) = IF Left(f) <= ScanCount - bufferPos THEN Left(f) ELSE ScanCount - bufferPos
  <2>1. FileBufferPos(f) = bufferPos /\ Left(f) \in Nat /\ CurrentSet.hdus[f] - FileHDU(f) + 1 = Left(f)
    <3>1. FileHDU(f) = c + OffsetOf(f) /\ CurrentSet.hdus[f] \in Nat /\ OffsetOf(f) \in Nat
      BY <1>4
    <3> QED BY <1>5, <3>1 DEF Left
  <2>2. ScanCount - bufferPos \in Nat
    BY <1>3
  <2>3. Placed(f) = IF Left(f) <= 0 THEN 0 ELSE Min({Left(f), ScanCount - bufferPos})
    BY <2>1 DEF Placed
  <2>4. Min({Left(f), ScanCount - bufferPos})
          = IF Left(f) <= ScanCount - bufferPos THEN Left(f) ELSE ScanCount - bufferPos
    BY <2>1, <2>2, LeastOfTwo
  <2> QED BY <2>1, <2>2, <2>3, <2>4
<1>17. moreAvailable' = (\E f \in CurrentSet.present : Left(f) > ScanCount - bufferPos)
  <2>1. moreAvailable' = (\E f \in CurrentSet.present : FileHDU(f) + Placed(f) <= CurrentSet.hdus[f])
    BY DEF Read
  <2>2. ASSUME NEW f \in CurrentSet.present
        PROVE  FileHDU(f) + Placed(f) <= CurrentSet.hdus[f] <=> Left(f) > ScanCount - bufferPos
    <3>1. FileHDU(f) = c + OffsetOf(f) /\ CurrentSet.hdus[f] \in Nat /\ OffsetOf(f) \in Nat
      BY <1>4
    <3>2. PICK h \in Nat : h = FileHDU(f)
      BY <3>1
    <3>3. Left(f) = CurrentSet.hdus[f] + 1 - h
      BY <3>2 DEF Left
    <3> QED BY <1>3, <1>16, <3>1, <3>2, <3>3
  <2> QED BY <2>1, <2>2
<1>18. ASSUME NEW f \in CurrentSet.present, NEW p \in 0..(ScanCount - 1), p < bufferPos'
       PROVE  buffer'[f][p] = IF p < bufferPos THEN buffer[f][p] ELSE Origin + ChunkStart + p
  <2>1. f \in Files /\ FileBufferPos(f) = bufferPos /\ FileHDU(f) = c + OffsetOf(f)
    BY <1>4
  <2>2. buffer'[f][p] = IF p \in bufferPos..(bufferPos + Placed(f) - 1)
                        THEN ScanOf(f, FileHDU(f) + p - bufferPos)
                        ELSE buffer[f][p]
    BY <2>1 DEF Read, PlacedIn
  <2>3. p \in bufferPos..(bufferPos + Placed(f) - 1) <=> ~(p < bufferPos)
    <3>1. d <= Placed(f) /\ Placed(f) \in Nat
      BY <1>3, <1>9, <1>16
    <3> QED BY <1>3, <1>8, <1>18, <3>1
  <2>4. ScanOf(f, FileHDU(f) + p - bufferPos) = Origin + ChunkStart + p
    <3>1. /\ OffsetOf(f) = LatestStart(CurrentSet) - CurrentSet.start[f] /\ CurrentSet.start[f] \in Nat
      BY <1>4
    <3>2. ScanOf(f, FileHDU(f) + p - bufferPos)
            = CurrentSet.start[f] + (c + (LatestStart(CurrentSet) - CurrentSet.start[f]) + p - bufferPos) - obs.firstHDU
      BY <2>1, <3>1 DEF ScanOf
    <3>3. /\ c \in Int /\ p \in Int /\ bufferPos \in Int /\ CurrentSet.start[f] \in Int
          /\ LatestStart(CurrentSet) \in Int /\ obs.firstHDU \in Int /\ ChunkStart \in Int /\ Origin \in Int
      BY <1>3, <3>1
    <3>4. LatestStart(CurrentSet) + c - obs.firstHDU = Origin + ChunkStart + bufferPos
      BY <1>2
    <3> QED BY <3>2, <3>3, <3>4
  <2> QED BY <2>2, <2>3, <2>4
<1>19. \A f \in CurrentSet.present, p \in 0..(ScanCount - 1) :
         p < bufferPos' =>
           buffer'[f][p] = IF p < bufferPos THEN buffer[f][p] ELSE Origin + ChunkStart + p
  BY <1>18
<1> QED BY <1>8, <1>9, <1>10, <1>11, <1>12, <1>14, <1>15, <1>17, <1>19

-----------------------------------------------------------------------------
(* Gapless sets, step by step.                                               *)
Followed == ReaderIs /\ FilledIs /\ FirstIs /\ GaplessIs

LEMMA GaplessBegin ==
  ASSUME TypeInv, Start, pc' = "chunk"
  PROVE  /\ ReaderIs' /\ FilledIs' /\ FirstIs'
         /\ set' = 1 /\ ~reader'.opened /\ NextTime' = Origin' /\ NextScan' = 0
<1>1. /\ pc = "start" /\ set' = 1 /\ chunk' = 0 /\ reader' = NewReader /\ obs' = obs
      /\ obs \in Observations
  BY DEF Start, TypeInv, SetsAre
<1>2. TypeInv'
  BY TypeStep DEF Next
<1>3. fileSets' \in Seq(SetType) /\ Len(fileSets') > 0
  BY <1>2 DEF TypeInv, SetsAre
<1>4. Len(fileSets') \in Nat
  BY <1>3, LenProperties
<1>5. ~reader'.opened /\ ~reader'.isOpen
  BY <1>1 DEF NewReader
<1>6. CurrentSet' = fileSets'[1]
  BY <1>1, <1>3, <1>4 DEF CurrentSet
<1>7. NextTime' = Origin'
  BY <1>5, <1>6 DEF NextTime, Origin, LatestStart
<1>8. ReaderIs'
  BY <1>1, <1>5 DEF ReaderIs, NewReader
<1>9. obs' \in Observations /\ chunk' = 0
  BY <1>1
<1>10. ChunkStart' = 0
  <2>1. ChunkStart' = (obs.nScans * 0) \div PartCount
    BY <1>1 DEF ChunkStart, PartCount
  <2>2. obs.nScans \in Nat /\ PartCount \in Nat \ {0}
    BY <1>1, Observed
  <2>3. obs.nScans * 0 = 0 * PartCount + 0 /\ 0 \in 0..(PartCount - 1)
    BY <2>2
  <2>4. (0 * PartCount + 0) \div PartCount = 0
    BY <2>2, <2>3, DivisionOf
  <2> QED BY <2>1, <2>3, <2>4
<1>11. NextScan' = 0
  BY <1>10 DEF NextScan, Reading
<1>12. FilledIs' /\ FirstIs'
  BY <1>1, <1>5 DEF FilledIs, FirstIs, Reading
<1> QED BY <1>1, <1>5, <1>7, <1>8, <1>11, <1>12

LEMMA GaplessReadNothing ==
  ASSUME TypeInv, Gapless, Readable, Followed, ReadNothing
  PROVE  Followed'
<1>1. /\ pc = "read" /\ pc' = "more" /\ reader.currentHDU > reader.stopHDU /\ moreAvailable' = FALSE
      /\ obs' = obs /\ fileSets' = fileSets /\ chunk' = chunk /\ buffer' = buffer
      /\ bufferPos' = bufferPos /\ set' = set /\ reader' = reader
  BY DEF ReadNothing, given
<1>2. Going
  BY <1>1 DEF Going, Reading
<1>3. reader.opened
  BY <1>1 DEF Followed, ReaderIs, NewReader
<1>4. Exhausted
  BY <1>1, <1>3 DEF Exhausted
<1>5. chunk > 0 /\ firstScan = Origin /\ firstScan' = firstScan
  <2>1. chunk # 0
    BY <1>1, <1>3 DEF Followed, FirstIs
  <2>2. chunk > 0
    BY <1>2, <2>1, Numbers
  <2> QED BY <1>1, <2>1, <2>2 DEF ReadNothing, Followed, FirstIs
<1>6. /\ ReaderIs' /\ NextTime' = NextTime /\ Exhausted' /\ HasMore' = HasMore
      /\ Origin' = Origin /\ DataEnd' = DataEnd /\ Complete' = Complete
      /\ ChunkStart' = ChunkStart /\ ScanCount' = ScanCount
  BY <1>1, <1>4, ReaderSame, GivenSame, ChunkSame DEF Followed
<1>7. NextScan' = NextScan
  BY <1>1, <1>6 DEF NextScan, Reading
<1>8. FilledIs'
  BY <1>1, <1>6 DEF Followed, FilledIs, Reading
<1>9. FirstIs'
  BY <1>1, <1>5, <1>6 DEF FirstIs
<1>10. GaplessIs'
  BY <1>1, <1>3, <1>6, <1>7 DEF Followed, GaplessIs
<1> QED BY <1>6, <1>8, <1>9, <1>10 DEF Followed

LEMMA GaplessRead ==
  ASSUME TypeInv, Gapless, Readable, Followed, Read, pc' = "more"
  PROVE  Followed'
<1>1. pc = "read" /\ reader.currentHDU <= reader.stopHDU /\ Going /\ ReaderIs
  BY DEF Read, Going, Reading, Followed
<1>2. /\ obs.firstHDU \in {1, 2} /\ ScanCount \in Nat /\ bufferPos \in 0..ScanCount
      /\ ChunkStart \in Nat /\ Origin \in Nat /\ chunk \in Nat
      /\ Len(fileSets) \in Nat \ {0} /\ set \in 1..(Len(fileSets) + 1)
      /\ CurrentSet.present # {} /\ Complete \subseteq CurrentSet.present
      /\ LatestStart(CurrentSet) \in Nat /\ LeastHDUs(CurrentSet) \in Nat
      /\ reader \in ReaderType
  <2>1. chunk \in 0..(PartCount - 1) /\ PartCount \in Nat
    BY <1>1, Numbers
  <2>2. chunk \in Nat
    BY <2>1
  <2> QED BY <1>1, <2>2, Numbers DEF Reading
<1>3. reader.opened => reader.isOpen
  <2> SUFFICES ASSUME reader.opened, ~reader.isOpen PROVE FALSE
    OBVIOUS
  <2>1. reader.currentHDU > reader.stopHDU
    BY DEF Followed, GaplessIs, Exhausted
  <2> QED BY <1>1, <1>2, <2>1 DEF ReaderType
<1>4. ~Exhausted
  BY <1>1, <1>2 DEF Exhausted, ReaderType
<1>5. set <= Len(fileSets) /\ HasMore
  <2>1. ~(set > Len(fileSets))
    BY <1>4 DEF Followed, GaplessIs
  <2> QED BY <1>2, <1>4, <2>1 DEF HasMore
<1>6. CurrentSet = fileSets[set] /\ set \in DOMAIN fileSets
  <2>1. fileSets \in Seq(SetType)
    BY <1>1 DEF TypeInv, SetsAre
  <2> QED BY <1>1, <1>2, <1>5, <2>1, SetInUse, LenProperties
<1>7. NextTime = Origin + ChunkStart + bufferPos
  <2>1. NextTime = Origin + NextScan /\ NextScan = ChunkStart + bufferPos
    BY <1>1, <1>5 DEF Followed, GaplessIs, NextScan, Reading
  <2> QED BY <1>2, <2>1
<1>8. PICK c \in Nat : c = Ready.currentHDU
  BY <1>1, OpenedTyped DEF ReaderType
<1>9. /\ Ready.offsets = [f \in Files |-> OffsetOf(f)] /\ Ready.startTime = LatestStart(CurrentSet)
      /\ NextTime = LatestStart(CurrentSet) + c - obs.firstHDU
      /\ Ready.opened /\ Ready.stopHDU = LeastHDUs(CurrentSet) /\ Ready \in ReaderType
      /\ reader.opened => Ready = reader
      /\ ~reader.opened => c = obs.firstHDU
  BY <1>1, <1>3, <1>8, ReadyIs
<1>10. \A f \in CurrentSet.present :
         /\ OffsetOf(f) = 0 /\ f \in Files /\ CurrentSet.hdus[f] \in Nat
         /\ LeastHDUs(CurrentSet) <= CurrentSet.hdus[f] /\ obs.firstHDU <= CurrentSet.hdus[f] + 1
  <2>1. PICK g \in CurrentSet.present : LatestStart(CurrentSet) = CurrentSet.start[g]
    BY <1>1, FilesInUse
  <2>2. ASSUME NEW f \in CurrentSet.present PROVE OffsetOf(f) = 0
    <3>1. CurrentSet.start[f] = CurrentSet.start[g]
      BY <1>6 DEF Gapless
    <3>2. OffsetOf(f) = LatestStart(CurrentSet) - CurrentSet.start[f]
      BY DEF OffsetOf
    <3> QED BY <1>2, <2>1, <3>1, <3>2
  <2> QED BY <1>1, <2>2, FilesInUse
<1>11. ASSUME NEW f \in CurrentSet.present
       PROVE  /\ FileBufferPos(f) = bufferPos /\ FileHDU(f) = c + OffsetOf(f) /\ Left(f) >= 0
              /\ Left(f) = CurrentSet.hdus[f] + 1 - c
  <2>1. Ready.offsets[f] = 0 /\ OffsetOf(f) = 0 /\ CurrentSet.hdus[f] \in Nat
    BY <1>9, <1>10
  <2>2. FileBufferPos(f) = bufferPos
    BY <1>2, <2>1 DEF FileBufferPos
  <2>3. FileHDU(f) = c
    BY <1>2, <1>8, <2>1 DEF FileHDU
  <2>4. c <= CurrentSet.hdus[f] + 1
    <3>1. CASE reader.opened
      <4>1. c <= LeastHDUs(CurrentSet)
        BY <1>1, <1>8, <1>9, <3>1
      <4> QED BY <1>2, <1>10, <2>1, <4>1
    <3>2. CASE ~reader.opened
      BY <1>9, <1>10, <3>2
    <3> QED BY <3>1, <3>2
  <2> QED BY <2>1, <2>2, <2>3, <2>4 DEF Left
<1>12. PICK d \in 0..(ScanCount - bufferPos) :
         /\ bufferPos' = bufferPos + d
         /\ \A f \in CurrentSet.present : d <= Left(f) /\ Left(f) \in Nat
         /\ d = ScanCount - bufferPos \/ \E f \in CurrentSet.present : d = Left(f)
         /\ reader' = [Ready EXCEPT !.currentHDU = c + d, !.isOpen = moreAvailable']
         /\ ReaderIs' /\ reader'.opened
         /\ NextTime' = Origin + ChunkStart + bufferPos'
         /\ moreAvailable' = (\E f \in CurrentSet.present : Left(f) > ScanCount - bufferPos)
         /\ \A f \in CurrentSet.present, p \in 0..(ScanCount - 1) :
              p < bufferPos' =>
                buffer'[f][p] = IF p < bufferPos THEN buffer[f][p] ELSE Origin + ChunkStart + p
  <2>1. \A f \in CurrentSet.present :
          FileBufferPos(f) = bufferPos /\ FileHDU(f) = c + OffsetOf(f) /\ Left(f) >= 0
    BY <1>11
  <2> QED BY <1>1, <1>3, <1>7, <1>8, <2>1, ReadCall
<1>13. /\ obs' = obs /\ fileSets' = fileSets /\ chunk' = chunk /\ set' = set
       /\ Origin' = Origin /\ DataEnd' = DataEnd /\ Complete' = Complete
       /\ ChunkStart' = ChunkStart /\ ScanCount' = ScanCount
  <2>1. obs' = obs /\ fileSets' = fileSets /\ chunk' = chunk /\ set' = set
    BY DEF Read, given
  <2> QED BY <2>1, GivenSame, ChunkSame
<1>14. FilledIs'
  <2> SUFFICES ASSUME NEW f \in Complete, NEW p \in 0..(ScanCount - 1), p < bufferPos'
               PROVE  buffer'[f][p] = Origin + ChunkStart + p
    BY <1>13 DEF FilledIs
  <2>1. f \in CurrentSet.present
    BY <1>2
  <2>2. p < bufferPos => buffer[f][p] = Origin + ChunkStart + p
    BY <1>1 DEF Followed, FilledIs, Reading
  <2> QED BY <1>12, <2>1, <2>2
<1>15. FirstIs'
  <2>1. firstScan' = Origin
    <3>1. CASE bufferPos = 0 /\ chunk = 0
      <4>1. ~reader.opened /\ ChunkStart = 0
        <5>1. obs \in Observations
          BY DEF TypeInv, SetsAre
        <5> QED BY <1>1, <3>1, <5>1, FirstChunk DEF Followed, FirstIs
      <4>2. LatestStart(CurrentSet) = Origin
        BY <1>2, <1>7, <1>9, <3>1, <4>1
      <4> QED BY <1>9, <3>1, <4>2 DEF Read
    <3>2. CASE ~(bufferPos = 0 /\ chunk = 0)
      <4>1. bufferPos > 0 \/ chunk > 0
        BY <1>2, <3>2
      <4> QED BY <1>1, <3>2, <4>1 DEF Read, Followed, FirstIs
    <3> QED BY <3>1, <3>2
  <2> QED BY <1>13, <2>1 DEF FirstIs
<1>16. reader'.currentHDU = c + d /\ reader'.stopHDU = LeastHDUs(CurrentSet) /\ reader'.isOpen = moreAvailable'
  BY <1>9, <1>12 DEF ReaderType
<1>17. c + d <= LeastHDUs(CurrentSet) + 1
  <2>1. PICK f \in CurrentSet.present : LeastHDUs(CurrentSet) = CurrentSet.hdus[f]
    BY <1>1, FilesInUse
  <2>2. d <= Left(f) /\ Left(f) = CurrentSet.hdus[f] + 1 - c /\ CurrentSet.hdus[f] \in Nat
    BY <1>10, <1>11, <1>12
  <2> QED BY <2>1, <2>2
<1>18. ASSUME NEW f \in CurrentSet.present, d = Left(f)
       PROVE  Exhausted'
  <2>1. c + d = CurrentSet.hdus[f] + 1 /\ CurrentSet.hdus[f] \in Nat
        /\ LeastHDUs(CurrentSet) <= CurrentSet.hdus[f]
    BY <1>10, <1>11, <1>18
  <2>2. c + d > LeastHDUs(CurrentSet)
    BY <1>2, <2>1
  <2> QED BY <1>12, <1>16, <2>2 DEF Exhausted
<1>19. ~moreAvailable' => Exhausted'
  <2> SUFFICES ASSUME ~moreAvailable' PROVE Exhausted'
    OBVIOUS
  <2>1. \A f \in CurrentSet.present : ~(Left(f) > ScanCount - bufferPos)
    BY <1>12
  <2>2. CASE d = ScanCount - bufferPos
    <3>1. PICK f \in CurrentSet.present : TRUE
      BY <1>2
    <3>2. d = Left(f)
      BY <1>2, <1>12, <2>1, <2>2
    <3> QED BY <1>18, <3>2
  <2>3. CASE \E f \in CurrentSet.present : d = Left(f)
    BY <1>18, <2>3
  <2> QED BY <1>12, <2>2, <2>3
<1>20. bufferPos' < ScanCount => Exhausted' /\ (set < Len(fileSets) => ~moreAvailable')
  <2> SUFFICES ASSUME bufferPos' < ScanCount
               PROVE  Exhausted' /\ (set < Len(fileSets) => ~moreAvailable')
    OBVIOUS
  <2>1. d # ScanCount - bufferPos
    BY <1>2, <1>12
  <2>2. PICK f \in CurrentSet.present : d = Left(f)
    BY <1>12, <2>1
  <2>3. ASSUME set < Len(fileSets), NEW g \in CurrentSet.present PROVE ~(Left(g) > ScanCount - bufferPos)
    <3>1. CurrentSet.hdus[f] = CurrentSet.hdus[g]
      BY <1>6, <2>3 DEF Gapless
    <3>2. Left(g) = Left(f)
      BY <1>11, <3>1
    <3> QED BY <1>2, <2>2, <3>2
  <2>4. set < Len(fileSets) => ~moreAvailable'
    BY <1>12, <2>3
  <2> QED BY <1>18, <2>2, <2>4
<1>21. HasMore' = (set < Len(fileSets) \/ (set = Len(fileSets) /\ ~Exhausted'))
  BY <1>13 DEF HasMore
<1>22. NextScan' = ChunkStart + bufferPos' /\ NextScan' \in Int /\ NextTime' = Origin' + NextScan'
  <2>1. NextScan' = ChunkStart + bufferPos'
    BY <1>13 DEF NextScan, Reading
  <2> QED BY <1>2, <1>12, <1>13, <2>1
<1>23. ~HasMore' => DataEnd' <= Origin' + NextScan'
  <2> SUFFICES ASSUME ~HasMore' PROVE DataEnd' <= Origin' + NextScan'
    OBVIOUS
  <2>1. set = Len(fileSets) /\ Exhausted'
    <3>1. ~(set < Len(fileSets)) /\ ~(set = Len(fileSets) /\ ~Exhausted')
      BY <1>21
    <3>2. set = Len(fileSets)
      BY <1>2, <1>5, <3>1
    <3> QED BY <3>1, <3>2
  <2>2. c + d = LeastHDUs(CurrentSet) + 1
    BY <1>2, <1>16, <1>17, <2>1 DEF Exhausted
  <2>3. DataEnd = LatestStart(CurrentSet) + (LeastHDUs(CurrentSet) - obs.firstHDU + 1)
    BY <1>6, <2>1 DEF DataEnd, ScansOf
  <2>4. LatestStart(CurrentSet) + c - obs.firstHDU = Origin + ChunkStart + bufferPos
    BY <1>7, <1>9
  <2>5. DataEnd = Origin + ChunkStart + bufferPos'
    <3>1. /\ c \in Int /\ d \in Int /\ bufferPos \in Int /\ obs.firstHDU \in Int
          /\ LatestStart(CurrentSet) \in Int /\ LeastHDUs(CurrentSet) \in Int
          /\ bufferPos' = bufferPos + d /\ ChunkStart \in Int /\ Origin \in Int
      BY <1>2, <1>12
    <3>2. LeastHDUs(CurrentSet) = c + d - 1
      BY <2>2, <3>1
    <3>3. DataEnd = LatestStart(CurrentSet) + (c + d - obs.firstHDU)
      BY <2>3, <3>1, <3>2
    <3> QED BY <2>4, <3>1, <3>3
  <2>6. DataEnd' = Origin' + NextScan'
    <3>1. NextScan' = ChunkStart + bufferPos'
      BY <1>13 DEF NextScan, Reading
    <3>2. Origin + ChunkStart + bufferPos' = Origin + (ChunkStart + bufferPos')
      BY <1>2, <1>12
    <3> QED BY <1>13, <2>5, <3>1, <3>2
  <2>7. Origin' + NextScan' \in Int
    BY <1>2, <1>12, <1>13, <1>22
  <2> QED BY <2>6, <2>7
<1>24. GaplessIs'
  <2>1. reader'.opened => reader'.currentHDU <= reader'.stopHDU + 1
    BY <1>16, <1>17
  <2>2. reader'.opened /\ ~reader'.isOpen => Exhausted'
    BY <1>16, <1>19
  <2>3. ~(set' > Len(fileSets'))
    BY <1>2, <1>5, <1>13
  <2> QED BY <1>12, <1>13, <1>19, <1>20, <1>22, <1>23, <2>1, <2>2, <2>3 DEF GaplessIs
<1> QED BY <1>12, <1>14, <1>15, <1>24 DEF Followed

LEMMA GaplessNextFileSet ==
  ASSUME TypeInv, Gapless, Readable, Followed, NextFileSet, Going'
  PROVE  Followed'
<1>1. /\ pc = "more" /\ ~moreAvailable /\ bufferPos < ScanCount /\ Going
      /\ obs' = obs /\ fileSets' = fileSets /\ chunk' = chunk /\ buffer' = buffer
      /\ bufferPos' = bufferPos /\ moreAvailable' = moreAvailable /\ firstScan' = firstScan
  BY DEF NextFileSet, given, Going, Reading
<1>2. /\ Len(fileSets) \in Nat \ {0} /\ set \in 1..(Len(fileSets) + 1) /\ ChunkStart \in Nat
      /\ bufferPos \in Nat /\ obs.firstHDU \in {1, 2} /\ Origin \in Nat /\ DataEnd \in Int
      /\ CurrentSet.present # {} /\ LatestStart(CurrentSet) \in Nat /\ LeastHDUs(CurrentSet) \in Nat
      /\ reader \in ReaderType
  <2>1. bufferPos \in 0..ScanCount /\ ScanCount \in Nat
    BY <1>1, Numbers DEF Reading
  <2>2. bufferPos \in Nat
    BY <2>1
  <2> QED BY <1>1, <2>2, Numbers
<1>3. reader.opened /\ Exhausted /\ reader.currentHDU = reader.stopHDU + 1
      /\ reader.stopHDU = LeastHDUs(CurrentSet) /\ firstScan = Origin
  <2>1. reader.opened /\ Exhausted /\ reader.currentHDU <= reader.stopHDU + 1
    BY <1>1 DEF Followed, GaplessIs
  <2>2. reader.currentHDU = reader.stopHDU + 1
    BY <1>2, <2>1 DEF Exhausted, ReaderType
  <2> QED BY <1>1, <2>1, <2>2 DEF Followed, ReaderIs, FirstIs
<1>4. /\ Origin' = Origin /\ DataEnd' = DataEnd /\ Complete' = Complete
      /\ ChunkStart' = ChunkStart /\ ScanCount' = ScanCount
  BY <1>1, GivenSame, ChunkSame
<1>5. pc' \in {"read", "flag"} /\ NextScan' = NextScan /\ NextScan = ChunkStart + bufferPos
  <2>1. pc' \in {"read", "flag", "crashed"}
    BY DEF NextFileSet, AfterCreateReader
  <2>2. pc' \in {"read", "flag"}
    BY <2>1 DEF Going, Reading
  <2> QED BY <1>1, <1>4, <2>2 DEF NextScan, Reading
<1>6. FilledIs'
  BY <1>1, <1>4 DEF Followed, FilledIs, Reading
<1>7. CASE set < Len(fileSets)
  <2>1. /\ set' = set + 1 /\ reader' = NewReader /\ ~reader'.opened /\ ~reader'.isOpen /\ pc' = "read"
    <3>1. set <= Len(fileSets)
      BY <1>2, <1>7
    <3>2. pc' \in AfterCreateReader(fileSets[set + 1], "read")
      BY <1>7 DEF NextFileSet
    <3>3. pc' = "read"
      BY <1>5, <3>2 DEF AfterCreateReader
    <3> QED BY <1>7, <3>1, <3>3 DEF NextFileSet, NewReader
  <2>2. /\ set \in DOMAIN fileSets /\ set \in 1..Len(fileSets) /\ CurrentSet = fileSets[set]
        /\ CurrentSet' = fileSets[set + 1]
    <3>1. fileSets \in Seq(SetType)
      BY <1>1 DEF TypeInv, SetsAre
    <3>2. set \in 1..Len(fileSets) /\ ~(set > Len(fileSets)) /\ ~(set + 1 > Len(fileSets))
      BY <1>2, <1>7
    <3> QED BY <1>1, <2>1, <3>1, <3>2, LenProperties DEF CurrentSet
  <2>3. LatestStart(fileSets[set + 1]) = LatestStart(CurrentSet) + ScansOf(CurrentSet)
    BY <1>7, <2>2 DEF Gapless
  <2>4. NextTime = Origin + NextScan /\ NextTime = LatestStart(CurrentSet) + ScansOf(CurrentSet)
    <3>1. NextTime = Origin + NextScan
      BY <1>7 DEF Followed, GaplessIs, HasMore
    <3>2. NextTime = LatestStart(CurrentSet) + (LeastHDUs(CurrentSet) + 1) - obs.firstHDU
      BY <1>3 DEF NextTime
    <3> QED BY <1>2, <3>1, <3>2 DEF ScansOf
  <2>5. NextTime' = Origin' + NextScan'
    <3>1. NextTime' = LatestStart(fileSets[set + 1])
      BY <2>1, <2>2 DEF NextTime, LatestStart
    <3> QED BY <1>4, <1>5, <2>3, <2>4, <3>1
  <2>6. ~Exhausted' /\ HasMore'
    <3>1. set' = Len(fileSets) \/ set' < Len(fileSets)
      BY <1>2, <1>7, <2>1
    <3> QED BY <1>1, <2>1, <3>1 DEF Exhausted, HasMore
  <2>7. ReaderIs'
    BY <2>1 DEF ReaderIs, NewReader
  <2>8. FirstIs'
    BY <1>1, <1>3, <1>4, <2>1 DEF FirstIs
  <2>9. ~(set' > Len(fileSets'))
    BY <1>1, <1>2, <1>7, <2>1
  <2>10. GaplessIs'
    BY <2>1, <2>5, <2>6, <2>9 DEF GaplessIs
  <2> QED BY <1>6, <2>7, <2>8, <2>10 DEF Followed
<1>8. CASE ~(set < Len(fileSets))
  <2>1. /\ set' = Len(fileSets) + 1 /\ reader' = reader /\ pc' = "flag"
    <3>1. set = Len(fileSets) \/ set = Len(fileSets) + 1
      BY <1>2, <1>8
    <3>2. set' = IF set <= Len(fileSets) THEN set + 1 ELSE set
      BY DEF NextFileSet
    <3>3. set' = Len(fileSets) + 1
      BY <1>2, <3>1, <3>2
    <3> QED BY <1>8, <3>3 DEF NextFileSet
  <2>2. CurrentSet' = CurrentSet
    <3>1. set = Len(fileSets) \/ set = Len(fileSets) + 1
      BY <1>2, <1>8
    <3>2. CurrentSet = fileSets[Len(fileSets)]
      <4>1. CASE set = Len(fileSets)
        BY <1>2, <4>1 DEF CurrentSet
      <4>2. CASE set = Len(fileSets) + 1
        BY <4>2 DEF CurrentSet
      <4> QED BY <3>1, <4>1, <4>2
    <3>3. CurrentSet' = fileSets[Len(fileSets)]
      <4>1. set' > Len(fileSets)
        BY <1>2, <2>1
      <4> QED BY <1>1, <4>1 DEF CurrentSet
    <3> QED BY <3>2, <3>3
  <2>3. ReaderIs'
    <3>1. /\ LatestStart(CurrentSet)' = LatestStart(CurrentSet)
          /\ LeastHDUs(CurrentSet)' = LeastHDUs(CurrentSet)
          /\ [f \in Files |-> OffsetOf(f)]' = [f \in Files |-> OffsetOf(f)]
      BY <2>2 DEF LatestStart, LeastHDUs, OffsetOf
    <3> QED BY <1>1, <2>1, <3>1 DEF Followed, ReaderIs, NewReader
  <2>4. Exhausted' /\ ~HasMore /\ ~HasMore'
    <3>1. Exhausted'
      BY <1>3, <2>1 DEF Exhausted
    <3>2. ~HasMore
      BY <1>3, <1>8 DEF HasMore
    <3>3. ~(set' < Len(fileSets)) /\ set' # Len(fileSets)
      BY <1>2, <2>1
    <3> QED BY <1>1, <3>1, <3>2, <3>3 DEF HasMore
  <2>5. DataEnd' <= Origin' + NextScan'
    BY <1>4, <1>5, <2>4 DEF Followed, GaplessIs
  <2>6. FirstIs'
    BY <1>1, <1>3, <1>4, <2>1 DEF FirstIs
  <2>7. GaplessIs'
    <3>1. reader'.currentHDU <= reader'.stopHDU + 1
      BY <1>3, <2>1 DEF Followed, GaplessIs
    <3> QED BY <2>1, <2>4, <2>5, <3>1 DEF GaplessIs
  <2> QED BY <1>6, <2>3, <2>6, <2>7 DEF Followed
<1> QED BY <1>7, <1>8

(* Steps that leave the reader alone.                                        *)
LEMMA GaplessRest ==
  ASSUME TypeInv, Gapless, Readable, Followed, Going, Going',
         BeginChunk \/ KeepFileSet \/ FlagMissing \/ EndChunk \/ UNCHANGED vars
  PROVE  Followed'
<1>1. obs' = obs /\ fileSets' = fileSets /\ set' = set /\ reader' = reader
      /\ moreAvailable' = moreAvailable /\ firstScan' = firstScan
  BY DEF BeginChunk, KeepFileSet, FlagMissing, EndChunk, vars, given
<1>2. /\ ReaderIs' /\ NextTime' = NextTime /\ Exhausted' = Exhausted /\ HasMore' = HasMore
      /\ Origin' = Origin /\ DataEnd' = DataEnd /\ Complete' = Complete /\ PartCount' = PartCount
  BY <1>1, ReaderSame, GivenSame DEF Followed
<1>3. chunk' = chunk => ChunkStart' = ChunkStart /\ ScanCount' = ScanCount
  BY <1>1, ChunkSame
<1>4. /\ Len(fileSets) \in Nat \ {0} /\ set \in 1..(Len(fileSets) + 1) /\ ChunkStart \in Nat
      /\ ScanCount \in Nat /\ ChunkEnd = ChunkStart + ScanCount
      /\ Origin \in Nat /\ DataEnd \in Int /\ chunk \in Nat
      /\ pc \in Reading => bufferPos \in 0..ScanCount
  <2>1. chunk \in 0..(PartCount - 1) /\ PartCount \in Nat
    BY Numbers
  <2>2. chunk \in Nat
    BY <2>1
  <2> QED BY <2>2, Numbers
<1>5. CASE BeginChunk
  <2>1. pc = "chunk" /\ pc' = "read" /\ bufferPos' = 0 /\ chunk' = chunk
    BY <1>5 DEF BeginChunk, given
  <2>2. NextScan' = NextScan
    BY <1>3, <1>4, <2>1 DEF NextScan, Reading
  <2>3. FilledIs'
    <3>1. \A p \in 0..(ScanCount - 1) : ~(p < 0)
      BY <1>4
    <3> QED BY <1>3, <2>1, <3>1 DEF FilledIs
  <2>4. FirstIs'
    BY <1>1, <1>2, <2>1 DEF Followed, FirstIs
  <2>5. GaplessIs'
    BY <1>1, <1>2, <2>1, <2>2 DEF Followed, GaplessIs
  <2> QED BY <1>2, <2>3, <2>4, <2>5 DEF Followed
<1>6. CASE KeepFileSet
  <2>1. /\ pc = "more" /\ pc' = "flag" /\ bufferPos' = bufferPos /\ chunk' = chunk /\ buffer' = buffer
        /\ moreAvailable \/ bufferPos >= ScanCount
    BY <1>6 DEF KeepFileSet, given
  <2>2. NextScan' = NextScan
    BY <1>3, <2>1 DEF NextScan, Reading
  <2>3. FilledIs'
    BY <1>2, <1>3, <2>1 DEF Followed, FilledIs, Reading
  <2>4. FirstIs'
    BY <1>1, <1>2, <2>1 DEF Followed, FirstIs
  <2>5. bufferPos = ScanCount \/ ~HasMore
    <3>1. CASE bufferPos < ScanCount
      <4>1. moreAvailable /\ Exhausted /\ ~(set < Len(fileSets))
        BY <1>4, <2>1, <3>1 DEF Followed, GaplessIs, Reading
      <4> QED BY <4>1 DEF HasMore
    <3>2. CASE ~(bufferPos < ScanCount)
      BY <1>4, <2>1, <3>2 DEF Reading
    <3> QED BY <3>1, <3>2
  <2>6. GaplessIs'
    BY <1>1, <1>2, <1>3, <2>1, <2>2, <2>5 DEF Followed, GaplessIs
  <2> QED BY <1>2, <2>3, <2>4, <2>6 DEF Followed
<1>7. CASE FlagMissing
  <2>1. /\ pc = "flag" /\ pc' = "process" /\ bufferPos' = bufferPos /\ chunk' = chunk /\ buffer' = buffer
    BY <1>7 DEF FlagMissing, given
  <2>2. NextScan' = NextScan
    BY <1>3, <2>1 DEF NextScan, Reading
  <2>3. FilledIs'
    BY <1>2, <1>3, <2>1 DEF Followed, FilledIs, Reading
  <2>4. FirstIs'
    BY <1>1, <1>2, <2>1 DEF Followed, FirstIs
  <2>5. GaplessIs'
    BY <1>1, <1>2, <1>3, <2>1, <2>2 DEF Followed, GaplessIs
  <2> QED BY <1>2, <2>3, <2>4, <2>5 DEF Followed
<1>8. CASE EndChunk
  <2>1. /\ pc = "process" /\ pc' = "chunk" /\ chunk' = chunk + 1
    BY <1>8 DEF EndChunk, Going, Reading
  <2>2. NextScan' = ChunkEnd /\ NextScan = ChunkStart + bufferPos
    <3>1. ChunkStart' = ChunkEnd
      BY <1>1, <1>2, <2>1 DEF ChunkStart, ChunkEnd
    <3> QED BY <2>1, <3>1 DEF NextScan, Reading
  <2>3. FilledIs'
    BY <2>1 DEF FilledIs, Reading
  <2>4. FirstIs'
    <3>1. firstScan = Origin /\ chunk' # 0
      BY <1>4, <2>1 DEF Followed, FirstIs
    <3> QED BY <1>1, <1>2, <2>1, <3>1 DEF FirstIs
  <2>5. bufferPos \in 0..ScanCount /\ (bufferPos = ScanCount \/ ~HasMore)
    BY <1>4, <2>1 DEF Followed, GaplessIs, Reading
  <2>6. HasMore' => NextTime' = Origin' + NextScan'
    <3>1. ASSUME HasMore PROVE NextTime = Origin + ChunkEnd
      <4>1. NextTime = Origin + NextScan /\ bufferPos = ScanCount
        BY <2>5, <3>1 DEF Followed, GaplessIs
      <4> QED BY <1>4, <2>2, <4>1
    <3> QED BY <1>2, <2>2, <3>1
  <2>7. ~HasMore' => DataEnd' <= Origin' + NextScan'
    <3>1. ASSUME ~HasMore PROVE DataEnd <= Origin + ChunkEnd
      <4>1. DataEnd <= Origin + NextScan
        BY <3>1 DEF Followed, GaplessIs
      <4> QED BY <1>4, <2>2, <2>5, <4>1
    <3> QED BY <1>2, <2>2, <3>1
  <2>8. GaplessIs'
    BY <1>1, <1>2, <2>1, <2>6, <2>7 DEF Followed, GaplessIs
  <2> QED BY <1>2, <2>3, <2>4, <2>8 DEF Followed
<1>9. CASE UNCHANGED vars
  <2>1. /\ pc' = pc /\ bufferPos' = bufferPos /\ chunk' = chunk /\ buffer' = buffer
    BY <1>9 DEF vars
  <2>2. NextScan' = NextScan
    BY <1>3, <2>1 DEF NextScan
  <2>3. FilledIs'
    BY <1>2, <1>3, <2>1 DEF Followed, FilledIs
  <2>4. FirstIs'
    BY <1>1, <1>2, <2>1 DEF Followed, FirstIs
  <2>5. GaplessIs'
    BY <1>1, <1>2, <1>3, <2>1, <2>2 DEF Followed, GaplessIs
  <2> QED BY <1>2, <2>3, <2>4, <2>5 DEF Followed
<1> QED BY <1>5, <1>6, <1>7, <1>8, <1>9

LEMMA OriginOf ==
  ASSUME TypeInv, Start, (Gapless \/ Covered)', pc' = "chunk"
  PROVE  Origin' \in Nat /\ Len(fileSets') \in Nat \ {0} /\ fileSets' \in Seq(SetType)
<1>1. TypeInv'
  BY TypeStep DEF Next
<1>2. fileSets' \in Seq(SetType) /\ Len(fileSets') > 0
  BY <1>1 DEF TypeInv, SetsAre
<1>3. Len(fileSets') \in Nat \ {0} /\ DOMAIN fileSets' = 1..Len(fileSets')
  BY <1>2, LenProperties
<1>4. 1 \in 1..Len(fileSets')
  BY <1>3
<1>5. fileSets'[1] \in SetType
  BY <1>2, <1>4, ElementOfSeq
<1>6. fileSets'[1].present # {}
  BY <1>3, <1>4 DEF Gapless, Covered
<1>7. LatestStart(fileSets'[1]) \in Nat
  BY <1>5, <1>6, SetFacts
<1> QED BY <1>2, <1>3, <1>7 DEF Origin, LatestStart

LEMMA GaplessStep == TypeInv /\ GaplessInv /\ [Next]_vars => GaplessInv'
<1> SUFFICES ASSUME TypeInv, GaplessInv, [Next]_vars, Going', Gapless', Readable'
             PROVE  Followed'
  BY DEF GaplessInv, Followed
<1>1. CASE Start
  <2>1. pc' = "chunk"
    BY <1>1 DEF Start, AfterCreateReader, Going, Reading
  <2>2. /\ ReaderIs' /\ FilledIs' /\ FirstIs'
        /\ set' = 1 /\ ~reader'.opened /\ NextTime' = Origin' /\ NextScan' = 0
    BY <1>1, <2>1, GaplessBegin
  <2>3. PICK o \in Nat, n \in Nat \ {0} : o = Origin' /\ n = Len(fileSets')
    <3>1. Origin' \in Nat /\ Len(fileSets') \in Nat \ {0}
      BY <1>1, <2>1, OriginOf
    <3> QED BY <3>1
  <2>4. (1 < n \/ 1 = n) /\ ~(1 > n) /\ o = o + 0
    OBVIOUS
  <2>5. ~Exhausted' /\ HasMore'
    <3>1. set' = 1 /\ ~reader'.opened
      BY <2>2
    <3>2. set' < Len(fileSets') \/ set' = Len(fileSets')
      BY <2>3, <2>4, <3>1
    <3>3. ~Exhausted'
      BY <3>1 DEF Exhausted
    <3> QED BY <3>2, <3>3 DEF HasMore
  <2>6. NextTime' = Origin' + NextScan' /\ ~(set' > Len(fileSets'))
    <3>1. set' = 1 /\ NextTime' = Origin' /\ NextScan' = 0
      BY <2>2
    <3>2. Origin' = Origin' + 0 /\ ~(1 > Len(fileSets'))
      BY <2>3, <2>4
    <3> QED BY <3>1, <3>2
  <2>7. GaplessIs'
    BY <2>1, <2>2, <2>5, <2>6 DEF GaplessIs
  <2> QED BY <2>2, <2>7 DEF Followed
<1>2. CASE ~Start
  <2>1. obs' = obs /\ fileSets' = fileSets /\ Going
    BY <1>2 DEF Next, Refuse, BeginChunk, ReadNothing, Read, NextFileSet, KeepFileSet, FlagMissing,
                EndChunk, Stopped, vars, given, Going, Reading
  <2>2. Gapless /\ Readable
    BY <2>1, GivenSame
  <2>3. Followed
    BY <2>1, <2>2 DEF GaplessInv, Followed
  <2>4. CASE ReadNothing
    BY <2>2, <2>3, <2>4, GaplessReadNothing
  <2>5. CASE Read
    <3>1. pc' = "more"
      BY <2>5 DEF Read, Going, Reading
    <3> QED BY <2>2, <2>3, <2>5, <3>1, GaplessRead
  <2>6. CASE NextFileSet
    BY <2>2, <2>3, <2>6, GaplessNextFileSet
  <2>7. CASE BeginChunk \/ KeepFileSet \/ FlagMissing \/ EndChunk \/ UNCHANGED vars
    BY <2>1, <2>2, <2>3, <2>7, GaplessRest
  <2>8. CASE Refuse
    BY <2>8 DEF Refuse, Going, Reading
  <2> QED BY <1>2, <2>4, <2>5, <2>6, <2>7, <2>8 DEF Next, Stopped
<1> QED BY <1>1, <1>2

LEMMA GaplessInvariant == Spec => []GaplessInv
<1>1. Init => GaplessInv
  BY DEF Init, GaplessInv, Going, Reading
<1> QED BY <1>1, GaplessStep, TypeInvariant, PTL DEF Spec

-----------------------------------------------------------------------------
(* One set that covers the header, step by step: every chunk is filled by a   *)
(* single call of Read.                                                      *)
Aligned == ReaderIs /\ FilledIs /\ FirstIs /\ CoveredIs

LEMMA LastingFiles ==
  ASSUME TypeInv, Going, Covered, Readable, set = 1,
         NEW c \in Nat, LatestStart(CurrentSet) + c - obs.firstHDU = Origin + ChunkStart
  PROVE  /\ CurrentSet = fileSets[1] /\ c = obs.firstHDU + ChunkStart
         /\ c <= LeastHDUs(CurrentSet)
         /\ \A f \in CurrentSet.present :
              /\ CurrentSet.hdus[f] + 1 - (c + OffsetOf(f)) \in Nat
              /\ obs.nScans - ChunkStart <= CurrentSet.hdus[f] + 1 - (c + OffsetOf(f))
<1>1. /\ obs.nScans \in Int /\ obs.firstHDU \in Int /\ ChunkStart \in Int /\ ChunkStart < obs.nScans
      /\ Origin \in Int /\ LatestStart(CurrentSet) \in Int /\ LeastHDUs(CurrentSet) \in Int
  <2>1. /\ obs.nScans \in Nat \ {0} /\ obs.firstHDU \in {1, 2} /\ ChunkStart \in Nat
        /\ ChunkStart < obs.nScans /\ Origin \in Nat /\ LatestStart(CurrentSet) \in Nat
        /\ LeastHDUs(CurrentSet) \in Nat
    BY Numbers
  <2> QED BY <2>1
<1>2. CurrentSet = fileSets[1]
  BY DEF Covered, CurrentSet
<1>3. LatestStart(CurrentSet) = Origin
  BY <1>2 DEF Origin
<1>4. c = obs.firstHDU + ChunkStart
  BY <1>1, <1>3
<1>5. ASSUME NEW f \in CurrentSet.present
      PROVE  /\ CurrentSet.hdus[f] \in Nat /\ OffsetOf(f) \in Nat
             /\ obs.nScans <= CurrentSet.hdus[f] - OffsetOf(f) - obs.firstHDU + 1
  <2>1. CurrentSet.hdus[f] \in Nat /\ OffsetOf(f) \in Nat
        /\ OffsetOf(f) = LatestStart(CurrentSet) - CurrentSet.start[f]
    BY FilesInUse
  <2>2. obs.nScans <= CurrentSet.hdus[f] - (LatestStart(CurrentSet) - CurrentSet.start[f]) - obs.firstHDU + 1
    BY <1>2 DEF Covered
  <2> QED BY <2>1, <2>2
<1>6. ASSUME NEW f \in CurrentSet.present
      PROVE  /\ CurrentSet.hdus[f] + 1 - (c + OffsetOf(f)) \in Nat
             /\ obs.nScans - ChunkStart <= CurrentSet.hdus[f] + 1 - (c + OffsetOf(f))
  BY <1>1, <1>4, <1>5
<1>7. c <= LeastHDUs(CurrentSet)
  <2>1. PICK f \in CurrentSet.present : LeastHDUs(CurrentSet) = CurrentSet.hdus[f]
    BY FilesInUse
  <2> QED BY <1>1, <1>4, <1>5, <2>1
<1> QED BY <1>2, <1>4, <1>6, <1>7

LEMMA AlignedReads ==
  ASSUME TypeInv, Covered, Readable, Aligned, pc = "read"
  PROVE  /\ ~ReadNothing /\ Going /\ bufferPos = 0 /\ set = 1
         /\ reader.opened => reader.isOpen
         /\ NextTime = Origin + ChunkStart
<1>1. Going /\ pc \in Reading
  BY DEF Going, Reading
<1>2. bufferPos = 0 /\ set = 1 /\ NextTime = Origin + NextScan /\ ReaderIs
      /\ (reader.opened => reader.isOpen)
  BY DEF Aligned, CoveredIs
<1>3. /\ ChunkStart \in Nat /\ Origin \in Nat /\ reader \in ReaderType
      /\ LatestStart(CurrentSet) \in Nat /\ LeastHDUs(CurrentSet) \in Nat
  BY <1>1, Numbers
<1>4. NextTime = Origin + ChunkStart
  <2>1. NextScan = ChunkStart + bufferPos
    BY <1>1 DEF NextScan
  <2> QED BY <1>2, <1>3, <2>1
<1>5. ~(reader.currentHDU > reader.stopHDU)
  <2>1. CASE reader.opened
    <3>1. reader.currentHDU \in Nat /\ reader.stopHDU = LeastHDUs(CurrentSet)
          /\ LatestStart(CurrentSet) + reader.currentHDU - obs.firstHDU = Origin + ChunkStart
      BY <1>2, <1>3, <1>4, <2>1 DEF ReaderIs, NextTime, ReaderType
    <3>2. reader.currentHDU <= LeastHDUs(CurrentSet)
      BY <1>1, <1>2, <3>1, LastingFiles
    <3> QED BY <1>3, <3>1, <3>2
  <2>2. CASE ~reader.opened
    BY <1>2, <2>2 DEF ReaderIs, NewReader
  <2> QED BY <2>1, <2>2
<1> QED BY <1>1, <1>2, <1>4, <1>5 DEF ReadNothing

LEMMA AlignedRead ==
  ASSUME TypeInv, Covered, Readable, Aligned, Read, pc' = "more"
  PROVE  Aligned'
<1>1. /\ pc = "read" /\ Going /\ bufferPos = 0 /\ set = 1 /\ NextTime = Origin + ChunkStart
      /\ (reader.opened => reader.isOpen) /\ ReaderIs
  BY AlignedReads DEF Read, Aligned
<1>2. /\ obs.firstHDU \in {1, 2} /\ obs.nScans \in Nat /\ ScanCount \in Nat
      /\ ChunkStart \in Nat /\ Origin \in Nat
      /\ ChunkEnd = ChunkStart + ScanCount /\ ChunkEnd <= obs.nScans
      /\ CurrentSet.present # {} /\ Complete \subseteq CurrentSet.present
      /\ LatestStart(CurrentSet) \in Nat
  <2>1. obs.nScans \in Nat \ {0}
    BY <1>1, Numbers
  <2>2. obs.nScans \in Nat
    BY <2>1
  <2> QED BY <1>1, <2>2, Numbers
<1>3. PICK c \in Nat : c = Ready.currentHDU
  BY <1>1, OpenedTyped DEF ReaderType
<1>4. /\ Ready.offsets = [f \in Files |-> OffsetOf(f)] /\ Ready.startTime = LatestStart(CurrentSet)
      /\ NextTime = LatestStart(CurrentSet) + c - obs.firstHDU /\ Ready.opened
  BY <1>1, <1>3, ReadyIs
<1>5. /\ CurrentSet = fileSets[1]
      /\ \A f \in CurrentSet.present :
           /\ CurrentSet.hdus[f] + 1 - (c + OffsetOf(f)) \in Nat
           /\ obs.nScans - ChunkStart <= CurrentSet.hdus[f] + 1 - (c + OffsetOf(f))
  BY <1>1, <1>4, LastingFiles
<1>6. ASSUME NEW f \in CurrentSet.present
      PROVE  /\ FileBufferPos(f) = bufferPos /\ FileHDU(f) = c + OffsetOf(f)
             /\ Left(f) \in Nat /\ Left(f) >= 0 /\ ScanCount <= Left(f)
             /\ obs.nScans - ChunkStart <= Left(f)
  <2>1. obs.doAlign /\ Ready.offsets[f] = OffsetOf(f) /\ OffsetOf(f) \in Nat
    <3>1. f \in Files /\ OffsetOf(f) \in Nat
      BY <1>1, FilesInUse
    <3> QED BY <1>4, <3>1 DEF Covered
  <2>2. FileBufferPos(f) = bufferPos /\ FileHDU(f) = c + OffsetOf(f)
    <3>1. CASE OffsetOf(f) = 0
      BY <1>1, <1>3, <2>1, <3>1 DEF FileBufferPos, FileHDU
    <3>2. CASE OffsetOf(f) > 0
      BY <1>1, <1>3, <2>1, <3>2 DEF FileBufferPos, FileHDU
    <3> QED BY <2>1, <3>1, <3>2
  <2>3. Left(f) \in Nat /\ obs.nScans - ChunkStart <= Left(f)
    BY <1>5, <2>2 DEF Left
  <2>4. ScanCount <= obs.nScans - ChunkStart
    BY <1>2
  <2> QED BY <1>2, <2>2, <2>3, <2>4
<1>7. PICK d \in 0..(ScanCount - bufferPos) :
         /\ bufferPos' = bufferPos + d
         /\ d = ScanCount - bufferPos \/ \E f \in CurrentSet.present : d = Left(f)
         /\ reader' = [Ready EXCEPT !.currentHDU = c + d, !.isOpen = moreAvailable']
         /\ ReaderIs' /\ reader'.opened
         /\ NextTime' = Origin + ChunkStart + bufferPos'
         /\ moreAvailable' = (\E f \in CurrentSet.present : Left(f) > ScanCount - bufferPos)
         /\ \A f \in CurrentSet.present, p \in 0..(ScanCount - 1) :
              p < bufferPos' =>
                buffer'[f][p] = IF p < bufferPos THEN buffer[f][p] ELSE Origin + ChunkStart + p
  <2>1. \A f \in CurrentSet.present :
          FileBufferPos(f) = bufferPos /\ FileHDU(f) = c + OffsetOf(f) /\ Left(f) >= 0
    BY <1>6
  <2>2. NextTime = Origin + ChunkStart + bufferPos
    BY <1>1, <1>2
  <2> QED BY <1>1, <1>3, <2>1, <2>2, ReadCall
<1>8. d = ScanCount /\ bufferPos' = ScanCount
  <2>1. CASE d = ScanCount - bufferPos
    BY <1>1, <1>2, <1>7, <2>1
  <2>2. ASSUME NEW f \in CurrentSet.present, d = Left(f) PROVE d = ScanCount
    <3>1. d <= ScanCount /\ d \in Nat
      BY <1>1, <1>2, <1>7
    <3> QED BY <1>2, <1>6, <2>2, <3>1
  <2>3. d = ScanCount
    BY <1>1, <1>2, <1>7, <2>1, <2>2
  <2> QED BY <1>1, <1>2, <1>7, <2>3
<1>9. /\ obs' = obs /\ fileSets' = fileSets /\ chunk' = chunk /\ set' = set
      /\ Origin' = Origin /\ Complete' = Complete
      /\ ChunkStart' = ChunkStart /\ ScanCount' = ScanCount /\ ChunkEnd' = ChunkEnd
  <2>1. obs' = obs /\ fileSets' = fileSets /\ chunk' = chunk /\ set' = set
    BY DEF Read, given
  <2> QED BY <2>1, GivenSame, ChunkSame
<1>10. FilledIs'
  <2> SUFFICES ASSUME NEW f \in Complete, NEW p \in 0..(ScanCount - 1), p < bufferPos'
               PROVE  buffer'[f][p] = Origin + ChunkStart + p
    BY <1>9 DEF FilledIs
  <2>1. f \in CurrentSet.present /\ ~(p < bufferPos)
    BY <1>1, <1>2
  <2> QED BY <1>7, <2>1
<1>11. FirstIs'
  <2>1. firstScan' = Origin
    <3>1. CASE chunk = 0
      <4>1. LatestStart(CurrentSet) = Origin
        BY <1>5 DEF Origin
      <4> QED BY <1>1, <1>4, <3>1, <4>1 DEF Read
    <3>2. CASE chunk # 0
      <4>1. chunk > 0
        BY <1>1, <3>2, Numbers
      <4> QED BY <1>1, <3>2, <4>1 DEF Read, Aligned, FirstIs
    <3> QED BY <3>1, <3>2
  <2> QED BY <1>9, <2>1 DEF FirstIs
<1>12. reader'.isOpen = moreAvailable'
  BY <1>7
<1>13. ~moreAvailable' => ChunkEnd = obs.nScans
  <2> SUFFICES ASSUME ~moreAvailable' PROVE ChunkEnd = obs.nScans
    OBVIOUS
  <2>1. PICK f \in CurrentSet.present : TRUE
    BY <1>2
  <2>2. ~(Left(f) > ScanCount - bufferPos)
    BY <1>7
  <2>3. Left(f) \in Nat /\ obs.nScans - ChunkStart <= Left(f)
    BY <1>6
  <2> QED BY <1>1, <1>2, <2>2, <2>3
<1>14. NextTime' = Origin' + NextScan'
  <2>1. NextScan' = ChunkStart + bufferPos'
    BY <1>9 DEF NextScan, Reading
  <2>2. Origin + ChunkStart + bufferPos' = Origin + (ChunkStart + bufferPos')
    BY <1>2, <1>8
  <2> QED BY <1>7, <1>9, <2>1, <2>2
<1>15. CoveredIs'
  BY <1>1, <1>7, <1>8, <1>9, <1>12, <1>13, <1>14 DEF CoveredIs
<1> QED BY <1>7, <1>10, <1>11, <1>15 DEF Aligned

LEMMA AlignedRest ==
  ASSUME TypeInv, Covered, Readable, Aligned, Going, Going',
         BeginChunk \/ KeepFileSet \/ FlagMissing \/ EndChunk \/ UNCHANGED vars
  PROVE  Aligned'
<1>1. obs' = obs /\ fileSets' = fileSets /\ set' = set /\ reader' = reader /\ firstScan' = firstScan
  BY DEF BeginChunk, KeepFileSet, FlagMissing, EndChunk, vars, given
<1>2. /\ ReaderIs' /\ NextTime' = NextTime /\ Origin' = Origin /\ Complete' = Complete
      /\ PartCount' = PartCount
  BY <1>1, ReaderSame, GivenSame DEF Aligned
<1>3. chunk' = chunk => ChunkStart' = ChunkStart /\ ScanCount' = ScanCount /\ ChunkEnd' = ChunkEnd
  BY <1>1, ChunkSame
<1>4. /\ ChunkStart \in Nat /\ ScanCount \in Nat /\ ChunkEnd = ChunkStart + ScanCount
      /\ obs.nScans \in Nat \ {0} /\ PartCount \in Nat \ {0} /\ chunk \in Nat
      /\ set = 1 /\ NextTime = Origin + NextScan
  <2>1. chunk \in 0..(PartCount - 1) /\ PartCount \in Nat
    BY Numbers
  <2>2. chunk \in Nat
    BY <2>1
  <2> QED BY <2>2, Numbers DEF Aligned, CoveredIs
<1>5. CASE BeginChunk
  <2>1. pc = "chunk" /\ pc' = "read" /\ bufferPos' = 0 /\ chunk' = chunk
    BY <1>5 DEF BeginChunk, given
  <2>2. NextScan' = NextScan
    BY <1>3, <1>4, <2>1 DEF NextScan, Reading
  <2>3. FilledIs'
    <3>1. \A p \in 0..(ScanCount - 1) : ~(p < 0)
      BY <1>4
    <3> QED BY <1>3, <2>1, <3>1 DEF FilledIs
  <2>4. FirstIs'
    BY <1>1, <1>2, <2>1 DEF Aligned, FirstIs
  <2>5. CoveredIs'
    BY <1>1, <1>2, <1>4, <2>1, <2>2 DEF Aligned, CoveredIs
  <2> QED BY <1>2, <2>3, <2>4, <2>5 DEF Aligned
<1>6. CASE KeepFileSet \/ FlagMissing
  <2>1. /\ pc \in {"more", "flag"} /\ pc' \in {"flag", "process"}
        /\ bufferPos' = bufferPos /\ chunk' = chunk /\ buffer' = buffer
    BY <1>6 DEF KeepFileSet, FlagMissing, given
  <2>2. NextScan' = NextScan
    BY <1>3, <2>1 DEF NextScan, Reading
  <2>3. FilledIs'
    BY <1>2, <1>3, <2>1 DEF Aligned, FilledIs, Reading
  <2>4. FirstIs'
    BY <1>1, <1>2, <2>1 DEF Aligned, FirstIs
  <2>5. CoveredIs'
    BY <1>1, <1>2, <1>3, <2>1, <2>2 DEF Aligned, CoveredIs
  <2> QED BY <1>2, <2>3, <2>4, <2>5 DEF Aligned
<1>7. CASE EndChunk
  <2>1. /\ pc = "process" /\ pc' = "chunk" /\ chunk' = chunk + 1 /\ chunk + 1 # PartCount
    BY <1>7 DEF EndChunk, Going, Reading
  <2>2. bufferPos = ScanCount /\ reader.opened /\ firstScan = Origin
    BY <2>1 DEF Aligned, CoveredIs, FirstIs
  <2>3. NextScan' = NextScan
    <3>1. NextScan' = ChunkEnd
      BY <1>1, <1>2, <2>1 DEF NextScan, Reading, ChunkStart, ChunkEnd
    <3> QED BY <1>4, <2>1, <2>2, <3>1 DEF NextScan, Reading
  <2>4. FilledIs'
    BY <2>1 DEF FilledIs, Reading
  <2>5. FirstIs'
    <3>1. chunk' # 0
      BY <1>4, <2>1
    <3> QED BY <1>1, <1>2, <2>1, <2>2, <3>1 DEF FirstIs
  <2>6. reader'.isOpen
    <3>1. ChunkEnd < obs.nScans
      <4>1. chunk + 1 < PartCount /\ chunk + 1 \in Nat
        BY <1>4, <2>1, Numbers
      <4> QED BY <1>4, <4>1, CutBefore DEF ChunkEnd
    <3>2. ChunkEnd # obs.nScans
      BY <1>4, <3>1
    <3> QED BY <1>1, <2>2, <3>2 DEF Aligned, CoveredIs
  <2>7. CoveredIs'
    BY <1>1, <1>2, <1>4, <2>1, <2>3, <2>6 DEF CoveredIs
  <2> QED BY <1>2, <2>4, <2>5, <2>7 DEF Aligned
<1>8. CASE UNCHANGED vars
  <2>1. pc' = pc /\ bufferPos' = bufferPos /\ chunk' = chunk /\ buffer' = buffer
    BY <1>8 DEF vars
  <2>2. NextScan' = NextScan
    BY <1>3, <2>1 DEF NextScan
  <2>3. FilledIs'
    BY <1>2, <1>3, <2>1 DEF Aligned, FilledIs
  <2>4. FirstIs'
    BY <1>1, <1>2, <2>1 DEF Aligned, FirstIs
  <2>5. CoveredIs'
    BY <1>1, <1>2, <1>3, <2>1, <2>2 DEF Aligned, CoveredIs
  <2> QED BY <1>2, <2>3, <2>4, <2>5 DEF Aligned
<1> QED BY <1>5, <1>6, <1>7, <1>8

LEMMA CoveredStep == TypeInv /\ CoveredInv /\ [Next]_vars => CoveredInv'
<1> SUFFICES ASSUME TypeInv, CoveredInv, [Next]_vars, Going', Covered', Readable'
             PROVE  Aligned'
  BY DEF CoveredInv, Aligned
<1>1. CASE Start
  <2>1. pc' = "chunk"
    BY <1>1 DEF Start, AfterCreateReader, Going, Reading
  <2>2. /\ ReaderIs' /\ FilledIs' /\ FirstIs'
        /\ set' = 1 /\ ~reader'.opened /\ NextTime' = Origin' /\ NextScan' = 0
    BY <1>1, <2>1, GaplessBegin
  <2>3. PICK o \in Nat : o = Origin'
    BY <1>1, <2>1, OriginOf
  <2>4. o = o + 0
    OBVIOUS
  <2>5. NextTime' = Origin' + NextScan'
    BY <2>2, <2>3, <2>4
  <2>6. CoveredIs'
    BY <2>1, <2>2, <2>5 DEF CoveredIs
  <2> QED BY <2>2, <2>6 DEF Aligned
<1>2. CASE ~Start
  <2>1. obs' = obs /\ fileSets' = fileSets /\ Going
    BY <1>2 DEF Next, Refuse, BeginChunk, ReadNothing, Read, NextFileSet, KeepFileSet, FlagMissing,
                EndChunk, Stopped, vars, given, Going, Reading
  <2>2. Covered /\ Readable
    BY <2>1, GivenSame
  <2>3. Aligned
    BY <2>1, <2>2 DEF CoveredInv, Aligned
  <2>4. ~ReadNothing
    <3>1. ReadNothing => pc = "read"
      BY DEF ReadNothing
    <3> QED BY <2>2, <2>3, <3>1, AlignedReads
  <2>5. CASE Read
    <3>1. pc' = "more"
      BY <2>5 DEF Read, Going, Reading
    <3> QED BY <2>2, <2>3, <2>5, <3>1, AlignedRead
  <2>6. ~NextFileSet
    <3> SUFFICES ASSUME NextFileSet PROVE FALSE
      OBVIOUS
    <3>1. bufferPos = ScanCount /\ bufferPos < ScanCount /\ ScanCount \in Nat
      BY <2>1, <2>2, <2>3, Numbers DEF NextFileSet, Aligned, CoveredIs
    <3> QED BY <3>1
  <2>7. CASE BeginChunk \/ KeepFileSet \/ FlagMissing \/ EndChunk \/ UNCHANGED vars
    BY <2>1, <2>2, <2>3, <2>7, AlignedRest
  <2>8. CASE Refuse
    BY <2>8 DEF Refuse, Going, Reading
  <2> QED BY <1>2, <2>4, <2>5, <2>6, <2>7, <2>8 DEF Next, Stopped
<1> QED BY <1>1, <1>2

LEMMA CoveredInvariant == Spec => []CoveredInv
<1>1. Init => CoveredInv
  BY DEF Init, CoveredInv, Going, Reading
<1> QED BY <1>1, CoveredStep, TypeInvariant, PTL DEF Spec

(* What FlagMissing computed still holds when the chunk is processed.         *)
LEMMA MissingStep == MissingIs /\ [Next]_vars => MissingIs'
<1> SUFFICES ASSUME MissingIs, [Next]_vars, pc' = "process"
             PROVE  missing' = (ScanCount' - bufferPos')
                              + (IF ChunkEnd' + obs'.quackEnd > obs'.nScans
                                 THEN ChunkEnd' + obs'.quackEnd - obs'.nScans ELSE 0)
  BY DEF MissingIs
<1>1. CASE FlagMissing
  <2>1. obs' = obs /\ chunk' = chunk /\ bufferPos' = bufferPos
    BY <1>1 DEF FlagMissing, given
  <2> QED BY <1>1, <2>1, ChunkSame DEF FlagMissing
<1>2. CASE UNCHANGED vars
  <2>1. /\ obs' = obs /\ chunk' = chunk /\ bufferPos' = bufferPos /\ pc = "process"
        /\ missing' = missing
    BY <1>2 DEF vars, given
  <2> QED BY <2>1, ChunkSame DEF MissingIs
<1>3. CASE ~FlagMissing /\ ~UNCHANGED vars
  BY <1>3 DEF Next, Start, Refuse, BeginChunk, ReadNothing, Read, NextFileSet, KeepFileSet, EndChunk,
              Stopped, AfterCreateReader
<1> QED BY <1>1, <1>2, <1>3

LEMMA MissingInvariant == Spec => []MissingIs
<1>1. Init => MissingIs
  BY DEF Init, MissingIs
<1> QED BY <1>1, MissingStep, PTL DEF Spec

-----------------------------------------------------------------------------
(* What is flagged and what is kept when a chunk is processed.                *)
LEMMA Processed ==
  ASSUME TypeInv, GaplessInv, CoveredInv, MissingIs, pc = "process", Regular
  PROVE  /\ Going /\ FilledIs /\ firstScan = Origin
         /\ obs \in Observations /\ obs.quackEnd \in Nat /\ obs.nScans \in Nat
         /\ ScanCount \in Nat /\ bufferPos \in 0..ScanCount /\ ChunkStart \in Nat
         /\ ChunkEnd = ChunkStart + ScanCount /\ ChunkEnd <= obs.nScans
         /\ Origin \in Nat /\ DataEnd \in Int
         /\ bufferPos = ScanCount \/ (Gapless /\ DataEnd <= Origin + ChunkStart + bufferPos)
<1>1. Going /\ pc \in Reading
  BY DEF Going, Reading
<1>2. /\ obs \in Observations /\ obs.nScans \in Nat
      /\ ScanCount \in Nat /\ bufferPos \in 0..ScanCount /\ ChunkStart \in Nat
      /\ ChunkEnd = ChunkStart + ScanCount /\ ChunkEnd <= obs.nScans
      /\ Origin \in Nat /\ DataEnd \in Int
  <2>1. obs.nScans \in Nat \ {0}
    BY <1>1, Numbers DEF Regular
  <2>2. obs.nScans \in Nat
    BY <2>1
  <2> QED BY <1>1, <2>2, Numbers DEF Regular
<1>3. obs.quackEnd \in Nat
  BY <1>2, Observed
<1>4. CASE Covered
  BY <1>1, <1>2, <1>3, <1>4 DEF CoveredInv, CoveredIs, FirstIs, Regular
<1>5. CASE Gapless
  <2>1. FilledIs /\ FirstIs /\ GaplessIs
    BY <1>1, <1>5 DEF GaplessInv, Regular
  <2>2. firstScan = Origin
    BY <2>1 DEF FirstIs
  <2>3. bufferPos = ScanCount \/ DataEnd <= Origin + NextScan
    BY <2>1 DEF GaplessIs
  <2>4. NextScan = ChunkStart + bufferPos /\ Origin + (ChunkStart + bufferPos) = Origin + ChunkStart + bufferPos
    BY <1>1, <1>2 DEF NextScan
  <2> QED BY <1>1, <1>2, <1>3, <1>5, <2>1, <2>2, <2>3, <2>4
<1> QED BY <1>4, <1>5 DEF Regular

(* -endflag reaches beyond the last scan of the last chunk only.              *)
LEMMA EndOfChunk ==
  ASSUME TypeInv, pc = "process", EndFits
  PROVE  \/ ~(ChunkEnd + obs.quackEnd > obs.nScans)
         \/ /\ obs.quackEnd > 0 /\ ChunkStart = LastChunkStart /\ ChunkEnd = obs.nScans
<1>1. obs \in Observations /\ obs.nScans \in Nat /\ PartCount \in Nat \ {0} /\ obs.quackEnd \in Nat
  BY Observed DEF TypeInv, SetsAre
<1>2. chunk \in 0..(PartCount - 1)
  BY <1>1 DEF TypeInv, StateIs, Reading
<1>3. /\ ChunkStart \in Nat /\ ChunkEnd \in Nat /\ ChunkEnd <= obs.nScans
  BY <1>1, <1>2, Chunks
<1>4. CASE obs.quackEnd = 0
  BY <1>1, <1>3, <1>4
<1>5. CASE obs.quackEnd # 0 /\ chunk + 1 < PartCount
  <2>1. LastChunkStart + obs.quackEnd <= obs.nScans
    BY <1>1, <1>5 DEF EndFits
  <2>2. PICK a \in Nat, b \in Nat : a = chunk + 1 /\ b = PartCount - 1 /\ a <= b
    BY <1>1, <1>2, <1>5
  <2>3. /\ (obs.nScans * a) \div PartCount \in Nat /\ (obs.nScans * b) \div PartCount \in Nat
        /\ (obs.nScans * a) \div PartCount <= (obs.nScans * b) \div PartCount
    BY <1>1, <2>2, Cuts
  <2>4. LastChunkStart \in Nat /\ ChunkEnd <= LastChunkStart
    BY <2>2, <2>3 DEF ChunkEnd, LastChunkStart
  <2> QED BY <1>1, <1>3, <2>1, <2>4
<1>6. CASE obs.quackEnd # 0 /\ ~(chunk + 1 < PartCount)
  <2>1. chunk = PartCount - 1 /\ chunk + 1 = PartCount
    BY <1>1, <1>2, <1>6
  <2>2. ChunkEnd = obs.nScans
    <3>1. 0 \in 0..(PartCount - 1) /\ obs.nScans * PartCount + 0 = obs.nScans * PartCount
      BY <1>1
    <3>2. (obs.nScans * PartCount + 0) \div PartCount = obs.nScans
      BY <1>1, <3>1, DivisionOf
    <3> QED BY <2>1, <3>1, <3>2 DEF ChunkEnd
  <2>3. ChunkStart = LastChunkStart
    BY <2>1 DEF ChunkStart, LastChunkStart
  <2> QED BY <1>1, <1>6, <2>2, <2>3
<1> QED BY <1>4, <1>5, <1>6

LEMMA MissingBound ==
  ASSUME TypeInv, GaplessInv, CoveredInv, MissingIs, pc = "process", Regular, EndFits
  PROVE  missing \in 0..ScanCount /\ ScanCount - missing <= bufferPos
<1>1. /\ obs.quackEnd \in Nat /\ obs.nScans \in Nat
      /\ ScanCount \in Nat /\ bufferPos \in 0..ScanCount /\ ChunkStart \in Nat
      /\ ChunkEnd = ChunkStart + ScanCount
      /\ Origin \in Nat /\ DataEnd \in Int
      /\ bufferPos = ScanCount \/ DataEnd <= Origin + ChunkStart + bufferPos
  BY Processed
<1>2. missing = (ScanCount - bufferPos)
                + (IF ChunkEnd + obs.quackEnd > obs.nScans
                   THEN ChunkEnd + obs.quackEnd - obs.nScans ELSE 0)
  BY DEF MissingIs
<1>3. CASE ~(ChunkEnd + obs.quackEnd > obs.nScans)
  <2>1. missing = ScanCount - bufferPos
    BY <1>1, <1>2, <1>3
  <2> QED BY <1>1, <2>1
<1>4. CASE /\ ChunkEnd + obs.quackEnd > obs.nScans
           /\ obs.quackEnd > 0 /\ ChunkStart = LastChunkStart /\ ChunkEnd = obs.nScans
  <2>1. missing = (ScanCount - bufferPos) + obs.quackEnd
    BY <1>1, <1>2, <1>4
  <2>2. ChunkStart + obs.quackEnd <= obs.nScans /\ Origin + ChunkStart + obs.quackEnd <= DataEnd
    BY <1>4 DEF EndFits
  <2>3. obs.quackEnd <= bufferPos
    <3>1. CASE bufferPos = ScanCount
      BY <1>1, <1>4, <2>2, <3>1
    <3>2. CASE DataEnd <= Origin + ChunkStart + bufferPos
      <4>1. bufferPos \in Int
        BY <1>1
      <4> QED BY <1>1, <2>2, <3>2, <4>1
    <3> QED BY <1>1, <3>1, <3>2
  <2> QED BY <1>1, <2>1, <2>3
<1> QED BY <1>3, <1>4, EndOfChunk

(* For every observation whose file sets follow each other without a break,   *)
(* or whose only set covers the header, and of which -endflag does not ask    *)
(* for more than the last chunk has, the number of scans to flag at the end   *)
(* of a chunk is at most its length: flagBadCorrelatorSamples starts within   *)
(* the row (cotter.cpp:1322).                                                *)
THEOREM MissingWithinChunk == Spec => [](Regular /\ EndFits => MissingFits)
<1>1. TypeInv /\ GaplessInv /\ CoveredInv /\ MissingIs => (Regular /\ EndFits => MissingFits)
  <2> SUFFICES ASSUME TypeInv, GaplessInv, CoveredInv, MissingIs, Regular, EndFits, pc = "process"
               PROVE  missing <= ScanCount
    BY DEF MissingFits
  <2>1. missing \in 0..ScanCount /\ ScanCount \in Nat
    BY MissingBound, Processed
  <2> QED BY <2>1
<1> QED BY <1>1, TypeInvariant, GaplessInvariant, CoveredInvariant, MissingInvariant, PTL

(* For those observations, if the subbands of missing gpuboxes are flagged,   *)
(* whatever is not flagged in the output was taken at the time the output     *)
(* gives for it: the alignment in Read, the hand-over from one file set to    *)
(* the next and the flagging of what is missing work together.               *)
THEOREM KeptAtItsTime == Spec => [](Regular /\ EndFits /\ NoneKept => PlacedByTime)
<1>1. TypeInv /\ GaplessInv /\ CoveredInv /\ MissingIs => (Regular /\ EndFits /\ NoneKept => PlacedByTime)
  <2> SUFFICES ASSUME TypeInv, GaplessInv, CoveredInv, MissingIs, Regular, EndFits, NoneKept,
                      pc = "process", NEW s \in Samples \ BadSamples
               PROVE  buffer[s[1]][s[3]] = firstScan + ChunkStart + s[3]
    BY DEF PlacedByTime
  <2>1. /\ FilledIs /\ firstScan = Origin /\ ScanCount \in Nat /\ bufferPos \in 0..ScanCount
        /\ pc \in Reading
    BY Processed DEF Reading
  <2>2. missing \in 0..ScanCount /\ ScanCount - missing <= bufferPos
    BY MissingBound
  <2>3. s[1] \in Files /\ s[3] \in 0..(ScanCount - 1)
    BY DEF Samples
  <2>4. s[1] \notin FlaggedSubbands /\ ~(s[3] >= ScanCount - missing)
    BY DEF BadSamples
  <2>5. s[3] < bufferPos
    BY <2>1, <2>2, <2>3, <2>4
  <2>6. s[1] \in Complete
    <3>1. CASE obs.flagMissing
      BY <2>3, <2>4, <3>1 DEF FlaggedSubbands, Complete
    <3>2. CASE Complete = Files
      BY <2>3, <3>2
    <3> QED BY <3>1, <3>2 DEF NoneKept
  <2> QED BY <2>1, <2>3, <2>5, <2>6 DEF FilledIs
<1> QED BY <1>1, TypeInvariant, GaplessInvariant, CoveredInvariant, MissingInvariant, PTL

-----------------------------------------------------------------------------
(* What the files hold.                                                      *)
EndOfSet(i) == LatestStart(fileSets[i]) + ScansOf(fileSets[i])

(* No set ends after the last one.                                           *)
LEMMA SetEnds ==
  ASSUME TypeInv, pc \notin {"start", "refused"}, Gapless, Readable,
         NEW i \in 1..Len(fileSets)
  PROVE  EndOfSet(i) \in Int /\ EndOfSet(i) <= DataEnd
<1>1. Len(fileSets) \in Nat /\ DOMAIN fileSets = 1..Len(fileSets) /\ obs.firstHDU \in {1, 2}
  <2>1. fileSets \in Seq(SetType) /\ obs \in Observations
    BY DEF TypeInv, SetsAre
  <2> QED BY <2>1, LenProperties, Observed
<1>2. ASSUME NEW j \in 1..Len(fileSets)
      PROVE  /\ LatestStart(fileSets[j]) \in Nat /\ ScansOf(fileSets[j]) \in Nat
             /\ EndOfSet(j) \in Int
  <2>1. LatestStart(fileSets[j]) \in Nat /\ LeastHDUs(fileSets[j]) \in Nat
        /\ obs.firstHDU <= LeastHDUs(fileSets[j]) + 1
    BY FilesOfSet
  <2>2. ScansOf(fileSets[j]) \in Nat
    BY <1>1, <2>1 DEF ScansOf
  <2> QED BY <2>1, <2>2 DEF EndOfSet
<1>3. Len(fileSets) \in 1..Len(fileSets) /\ DataEnd = EndOfSet(Len(fileSets))
  BY <1>1 DEF DataEnd, EndOfSet
<1> DEFINE Later == {j \in 1..Len(fileSets) : ~(EndOfSet(j) <= DataEnd)}
<1>4. Later = {}
  <2> SUFFICES ASSUME Later # {} PROVE FALSE
    OBVIOUS
  <2>1. PICK j \in Later : \A k \in Later : j >= k
    <3>1. Later \in SUBSET Nat /\ \A k \in Later : k <= Len(fileSets)
      BY <1>1
    <3>2. Max(Later) \in Later /\ \A k \in Later : Max(Later) >= k
      <4> HIDE DEF Later
      <4> QED BY <1>1, <3>1, MaxIsGreatest
    <3> QED BY <3>2
  <2>2. j \in 1..Len(fileSets) /\ ~(EndOfSet(j) <= DataEnd)
    OBVIOUS
  <2>3. j # Len(fileSets)
    <3>1. EndOfSet(Len(fileSets)) <= EndOfSet(Len(fileSets))
      BY <1>2, <1>3
    <3> QED BY <1>3, <2>2, <3>1
  <2>4. j \in DOMAIN fileSets /\ j < Len(fileSets) /\ j + 1 \in 1..Len(fileSets) /\ ~(j >= j + 1)
    <3>1. PICK n \in Nat : n = Len(fileSets)
      BY <1>1
    <3>2. j \in 1..n /\ j # n
      BY <2>2, <2>3, <3>1
    <3>3. j < n /\ j + 1 \in 1..n /\ ~(j >= j + 1)
      <4> HIDE DEF Later
      <4> QED BY <3>2
    <3> QED BY <1>1, <2>2, <3>1, <3>3
  <2>5. LatestStart(fileSets[j + 1]) = EndOfSet(j)
    BY <2>4 DEF Gapless, EndOfSet
  <2>6. EndOfSet(j) <= EndOfSet(j + 1)
    <3>1. EndOfSet(j + 1) = EndOfSet(j) + ScansOf(fileSets[j + 1])
      BY <2>5 DEF EndOfSet
    <3>2. PICK e \in Int, n \in Nat : e = EndOfSet(j) /\ n = ScansOf(fileSets[j + 1])
      BY <1>2, <2>2, <2>4
    <3>3. e <= e + n
      BY <3>2
    <3> QED BY <3>1, <3>2, <3>3
  <2>7. ~(EndOfSet(j + 1) <= DataEnd)
    <3>1. PICK a \in Int, b \in Int, c \in Int : a = EndOfSet(j) /\ b = EndOfSet(j + 1) /\ c = DataEnd
      BY <1>2, <1>3, <2>2, <2>4
    <3>2. a <= b /\ ~(a <= c)
      BY <2>2, <2>6, <3>1
    <3>3. ~(b <= c)
      BY <3>1, <3>2
    <3> QED BY <3>1, <3>3
  <2> QED BY <2>1, <2>4, <2>7
<1> QED BY <1>2, <1>4

(* A file is in the set of its time step, in the place of its gpubox.         *)
LEMMA FileInSet ==
  ASSUME TypeInv, pc \notin {"start", "refused"}, NEW i \in DOMAIN obs.files
  PROVE  LET file == obs.files[i]
             f == BoxOf(file, obs.sbStart)
             s == fileSets[file.time + 1]
         IN  /\ file.time + 1 \in 1..Len(fileSets) /\ f \in s.present
             /\ s.start[f] = file.start /\ s.hdus[f] = file.hdus
<1> DEFINE files == obs.files
           file == files[i]
           f == BoxOf(file, obs.sbStart)
           k == file.time + 1
           s == fileSets[k]
<1>1. /\ obs \in Observations /\ Accepted(files, obs.sbStart, obs.allowMissing)
      /\ fileSets = GroupFiles(files, obs.sbStart)
  BY DEF TypeInv, SetsAre
<1>2. files \in Seq(FileType)
  BY <1>1, Observed
<1>3. file \in FileType /\ DOMAIN files \subseteq Nat
  <2> HIDE DEF files
  <2>1. Len(files) \in Nat /\ DOMAIN files = 1..Len(files)
    BY <1>2, LenProperties
  <2>2. i \in 1..Len(files)
    BY <2>1 DEF files
  <2> QED BY <1>2, <2>1, <2>2, ElementOfSeq
<1>4. file.time \in Nat /\ f \in Boxes
  BY <1>1, <1>3 DEF FileType, Accepted
<1>5. /\ LastTime(files) \in Nat /\ file.time <= LastTime(files)
      /\ Len(fileSets) = LastTime(files) + 1
  BY <1>1, Grouped
<1>6. k \in 1..Len(fileSets) /\ k - 1 = file.time
  BY <1>4, <1>5
<1>7. At(files, obs.sbStart, file.time, f) = {i}
  <2>1. i \in At(files, obs.sbStart, file.time, f)
    BY DEF At
  <2>2. ASSUME NEW j \in At(files, obs.sbStart, file.time, f) PROVE j = i
    BY <1>1 DEF At, Accepted
  <2> QED BY <2>1, <2>2
<1>8. Max({i}) = i
  <2>1. i \in Nat
    BY <1>3
  <2>2. {i} \in SUBSET Nat /\ {i} # {} /\ \A y \in {i} : y <= i
    BY <2>1
  <2>3. Max({i}) \in {i}
    BY <2>1, <2>2, MaxIsGreatest
  <2> QED BY <2>3
<1>9. s = FileSet(files, obs.sbStart, file.time)
  BY <1>1, <1>5, <1>6 DEF GroupFiles
<1>10. f \in s.present /\ s.start[f] = file.start /\ s.hdus[f] = file.hdus
  <2> DEFINE present == {b \in Boxes : At(files, obs.sbStart, file.time, b) # {}}
             fileOf == [b \in present |-> files[Max(At(files, obs.sbStart, file.time, b))]]
  <2>1. f \in present
    BY <1>4, <1>7
  <2>2. fileOf[f] = file
    BY <1>7, <1>8, <2>1
  <2>3. s = [present |-> present,
             start |-> [b \in Boxes |-> IF b \in present THEN fileOf[b].start ELSE 0],
             hdus |-> [b \in Boxes |-> IF b \in present THEN fileOf[b].hdus ELSE 0]]
    BY <1>9 DEF FileSet
  <2> HIDE DEF present, fileOf, f, s, file
  <2> QED BY <1>4, <2>1, <2>2, <2>3
<1> QED BY <1>6, <1>10

(* Nor does a gpubox whose last file has no HDUs in excess have data for      *)
(* later scans.                                                              *)
LEMMA HeldBeforeEnd ==
  ASSUME TypeInv, pc \notin {"start", "refused"}, Gapless, Readable,
         NEW f \in Complete, fileSets[Len(fileSets)].hdus[f] = LeastHDUs(fileSets[Len(fileSets)]),
         NEW t, HasScan(f, t)
  PROVE  t \in Int /\ t < DataEnd
<1>1. PICK i \in DOMAIN obs.files :
        /\ BoxOf(obs.files[i], obs.sbStart) = f
        /\ t \in obs.files[i].start..(obs.files[i].start + obs.files[i].hdus - obs.firstHDU)
  BY DEF HasScan
<1>2. PICK k \in 1..Len(fileSets) :
        /\ f \in fileSets[k].present
        /\ fileSets[k].start[f] = obs.files[i].start /\ fileSets[k].hdus[f] = obs.files[i].hdus
  BY <1>1, FileInSet
<1>3. /\ LatestStart(fileSets[k]) \in Nat /\ LeastHDUs(fileSets[k]) \in Nat
      /\ \E g \in fileSets[k].present : LatestStart(fileSets[k]) = fileSets[k].start[g]
      /\ \E g \in fileSets[k].present : LeastHDUs(fileSets[k]) = fileSets[k].hdus[g]
  BY FilesOfSet
<1>4. obs.firstHDU \in {1, 2} /\ DOMAIN fileSets = 1..Len(fileSets) /\ Len(fileSets) \in Nat
  <2>1. fileSets \in Seq(SetType) /\ obs \in Observations
    BY DEF TypeInv, SetsAre
  <2> QED BY <2>1, LenProperties, Observed
<1>5. LatestStart(fileSets[k]) = fileSets[k].start[f]
  BY <1>2, <1>3, <1>4 DEF Gapless
<1>6. LeastHDUs(fileSets[k]) = fileSets[k].hdus[f]
  <2>1. CASE k = Len(fileSets)
    BY <2>1
  <2>2. CASE k # Len(fileSets)
    <3>1. k < Len(fileSets)
      <4>1. PICK n \in Nat : n = Len(fileSets)
        BY <1>4
      <4>2. k \in 1..n /\ k # n
        BY <2>2, <4>1
      <4>3. k < n
        BY <4>2
      <4> QED BY <4>1, <4>3
    <3> QED BY <1>2, <1>3, <1>4, <3>1 DEF Gapless
  <2> QED BY <2>1, <2>2
<1>7. t \in Int /\ t < EndOfSet(k)
  <2>1. t \in LatestStart(fileSets[k])..(LatestStart(fileSets[k]) + LeastHDUs(fileSets[k]) - obs.firstHDU)
    BY <1>1, <1>2, <1>5, <1>6
  <2> QED BY <1>3, <1>4, <2>1 DEF EndOfSet, ScansOf
<1>8. EndOfSet(k) \in Int /\ EndOfSet(k) <= DataEnd
  BY SetEnds
<1>9. DataEnd \in Int
  <2>1. Len(fileSets) \in 1..Len(fileSets)
    BY <1>4
  <2>2. EndOfSet(Len(fileSets)) \in Int
    BY <2>1, SetEnds
  <2> QED BY <2>2 DEF EndOfSet, DataEnd
<1> QED BY <1>7, <1>8, <1>9

(* For observations as above, if -endflag is used only when the files last    *)
(* until the last scan of the header, and a gpubox that is complete has no    *)
(* more HDUs in the last set than the others: a scan that the files of all    *)
(* complete gpuboxes hold is flagged only where an option asks for it.        *)
THEOREM NothingLost ==
  Spec => [](/\ Regular /\ EndFits /\ LastEven
             /\ obs.quackEnd > 0 => HeaderCovered
             => AllDataUsed)
<1>1. TypeInv /\ GaplessInv /\ CoveredInv /\ MissingIs
      => (/\ Regular /\ EndFits /\ LastEven
          /\ obs.quackEnd > 0 => HeaderCovered
          => AllDataUsed)
  <2> SUFFICES ASSUME TypeInv, GaplessInv, CoveredInv, MissingIs, Regular, EndFits, LastEven,
                      obs.quackEnd > 0 => HeaderCovered, pc = "process", NEW s \in BadSamples,
                      \A f \in Complete : HasScan(f, firstScan + (ChunkStart + s[3])),
                      s[1] \in Complete \ obs.flagSubbands
               PROVE  \/ ChunkStart + s[3] < obs.quackInit
                      \/ (ChunkStart + s[3]) + obs.quackEnd >= obs.nScans
                      \/ s[2] < obs.edge \/ s[2] >= ChPerSb - obs.edge
                      \/ obs.flagDC /\ s[2] = ChPerSb \div 2
    BY DEF AllDataUsed
  <2>1. /\ firstScan = Origin /\ Origin \in Nat /\ ScanCount \in Nat /\ bufferPos \in 0..ScanCount
        /\ ChunkStart \in Nat /\ ChunkEnd = ChunkStart + ScanCount /\ ChunkEnd <= obs.nScans
        /\ obs.nScans \in Nat /\ obs.quackEnd \in Nat /\ obs.quackInit \in Nat /\ DataEnd \in Int
        /\ bufferPos = ScanCount \/ (Gapless /\ DataEnd <= Origin + ChunkStart + bufferPos)
    BY Processed, Observed
  <2>2. s[3] \in 0..(ScanCount - 1) /\ s[3] \in Nat
    <3>1. s[3] \in 0..(ScanCount - 1)
      BY DEF BadSamples, Samples
    <3> QED BY <2>1, <3>1
  <2>3. s[1] \notin FlaggedSubbands
    BY DEF FlaggedSubbands, Complete
  <2>4. CASE s[2] < obs.edge \/ s[2] >= ChPerSb - obs.edge \/ (obs.flagDC /\ s[2] = ChPerSb \div 2)
    BY <2>4
  <2>5. CASE obs.quackInit >= ChunkStart /\ s[3] < obs.quackInit - ChunkStart
    <3>1. ChunkStart + s[3] < obs.quackInit
      BY <2>1, <2>2, <2>5
    <3> QED BY <3>1
  <2>6. CASE s[3] >= ScanCount - missing
    <3>1. s[3] >= ScanCount - missing /\ missing \in 0..ScanCount
      BY <2>6, MissingBound
    <3>2. missing = (ScanCount - bufferPos)
                    + (IF ChunkEnd + obs.quackEnd > obs.nScans
                       THEN ChunkEnd + obs.quackEnd - obs.nScans ELSE 0)
      BY DEF MissingIs
    <3>3. CASE bufferPos = ScanCount
      <4>1. CASE ChunkEnd + obs.quackEnd > obs.nScans
        <5>1. missing = ChunkEnd + obs.quackEnd - obs.nScans
          BY <2>1, <3>2, <3>3, <4>1
        <5>2. (ChunkStart + s[3]) + obs.quackEnd >= obs.nScans
          BY <2>1, <2>2, <3>1, <5>1
        <5> QED BY <5>2
      <4>2. CASE ~(ChunkEnd + obs.quackEnd > obs.nScans)
        <5>1. missing = 0
          BY <2>1, <3>2, <3>3, <4>2
        <5> QED BY <2>1, <2>2, <3>1, <5>1
      <4> QED BY <4>1, <4>2
    <3>4. CASE bufferPos # ScanCount
      <4>1. Gapless /\ DataEnd <= Origin + ChunkStart + bufferPos /\ bufferPos < ScanCount
            /\ bufferPos \in Nat
        BY <2>1, <3>4
      <4>2. ~(ChunkEnd + obs.quackEnd > obs.nScans)
        <5> SUFFICES ASSUME ChunkEnd + obs.quackEnd > obs.nScans PROVE FALSE
          OBVIOUS
        <5>1. Origin + obs.nScans <= DataEnd
          BY EndOfChunk DEF HeaderCovered
        <5> QED BY <2>1, <4>1, <5>1
      <4>3. missing = ScanCount - bufferPos
        BY <2>1, <3>2, <4>2
      <4>4. DataEnd <= Origin + (ChunkStart + s[3])
        BY <2>1, <2>2, <3>1, <4>1, <4>3
      <4>5. PICK f \in Complete : fileSets[Len(fileSets)].hdus[f] = LeastHDUs(fileSets[Len(fileSets)])
        BY DEF LastEven
      <4>6. HasScan(f, Origin + (ChunkStart + s[3]))
        BY <2>1
      <4>7. Origin + (ChunkStart + s[3]) < DataEnd
        BY <4>1, <4>5, <4>6, HeldBeforeEnd DEF Regular
      <4> QED BY <2>1, <2>2, <4>4, <4>7
    <3> QED BY <3>3, <3>4
  <2> QED BY <2>3, <2>4, <2>5, <2>6 DEF BadSamples
<1> QED BY <1>1, TypeInvariant, GaplessInvariant, CoveredInvariant, MissingInvariant, PTL
=============================================================================
