---------------------------- MODULE InputMapping ----------------------------
(***************************************************************************)
(* From correlator inputs to antennas: how the tile table of the metafits   *)
(* file becomes MWAConfig's inputs (metafitsfile.cpp, mwaconfig.cpp/.h),     *)
(* and where GPUFileReader puts the products it finds in a gpubox file      *)
(* (gpufilereader.cpp: initMapping, shuffleBuffer).                         *)
(*                                                                         *)
(* An output is antenna*2 + polarization.  A product is the pair of inputs  *)
(* it was correlated from, in the order of the stations that the gpubox     *)
(* file gives them; taking its complex conjugate reverses the pair.         *)
(***************************************************************************)
EXTENDS Integers, Sequences, FiniteSets, FiniteSetsExt

CONSTANTS NAntennae,
          PFBColumns, PFBRows   \* of the table of one polyphase filter bank: 4, 16

ASSUME MappingAssumption ==
  /\ NAntennae \in Nat \ {0} /\ PFBColumns \in Nat \ {0} /\ PFBRows \in Nat \ {0}
  /\ (2 * NAntennae) % (PFBColumns * PFBRows) = 0

Antennae == 0..(NAntennae - 1)
Pols == {0, 1}                      \* X, Y
Outputs == 0..(2 * NAntennae - 1)   \* and inputs

TileRow == [input : Outputs, antenna : Antennae, pol : {"X", "Y"}, flag : BOOLEAN]
ConfigLine == [antenna : Antennae, pol : {"X", "Y"}, flag : BOOLEAN]

-----------------------------------------------------------------------------
(* MetaFitsFile::ReadTiles: each row of the table overwrites its input.      *)
ReadTiles(rows) ==
  [i \in Outputs |->
     LET At == {k \in DOMAIN rows : rows[k].input = i}
         row == rows[Max(At)]
     IN  IF At = {} THEN [antenna |-> 0, polarization |-> 0, isFlagged |-> FALSE]
         ELSE [antenna |-> row.antenna, polarization |-> IF row.pol = "X" THEN 0 ELSE 1,
               isFlagged |-> row.flag]]

(* ReadInputConfig (-i): line i overrides what the metafits file says of      *)
(* input i.  Another number of lines than of inputs is refused.              *)
Fits(lines) == Len(lines) = 2 * NAntennae

ReadInputConfig(lines) ==
  [i \in Outputs |-> [antenna |-> lines[i + 1].antenna,
                      polarization |-> IF lines[i + 1].pol = "X" THEN 0 ELSE 1,
                      isFlagged |-> lines[i + 1].flag]]

InputsOf(inputs, p) == {i \in Outputs : inputs[i].polarization = p}

(* _antennaXInputs and _antennaYInputs: the first input inserted. *)
AntennaInputs(inputs) ==
  [p \in Pols |-> [a \in Antennae |-> Min({i \in InputsOf(inputs, p) : inputs[i].antenna = a})]]

CheckSetup(inputs) ==
  \A p \in Pols : Cardinality({inputs[i].antenna : i \in InputsOf(inputs, p)}) = NAntennae

(* writeAntennae: the antennas of -flagantenna and those of a flagged input. *)
IsAntennaFlagged(inputs, antennaInputs, userFlagged, antenna) ==
  \/ antenna \in userFlagged
  \/ \E p \in Pols : inputs[antennaInputs[p][antenna]].isFlagged

-----------------------------------------------------------------------------
CorrInputToOutput(inputs, i) == inputs[i].antenna * 2 + inputs[i].polarization

(* A bank's table is read by columns; the banks follow each other. *)
PFBOutputToInput(o) ==
  LET size == PFBColumns * PFBRows
      i == o % size
  IN  (o \div size) * size + (i % PFBColumns) * PFBRows + i \div PFBColumns

(* The elements of a gpubox file, for stations s1 >= s2 and polarizations p1, *)
(* p2, p2 moving fastest.                                                    *)
Elements == {e \in [s1 : Antennae, p1 : Pols, s2 : Antennae, p2 : Pols] : e.s2 <= e.s1}
Source1(e) == e.s1 * 2 + e.p1
Source2(e) == e.s2 * 2 + e.p2
Actual1(inputs, e) == CorrInputToOutput(inputs, PFBOutputToInput(Source1(e)))
Actual2(inputs, e) == CorrInputToOutput(inputs, PFBOutputToInput(Source2(e)))

ElementProduct(e) == <<PFBOutputToInput(Source1(e)), PFBOutputToInput(Source2(e))>>

(* initMapping, with the stations the other way around as shuffleBuffer asks  *)
(* for them: the two outputs whose buffer an element is copied to, the       *)
(* lower antenna first.                                                      *)
Destination(inputs, e) ==
  IF Actual2(inputs, e) \div 2 <= Actual1(inputs, e) \div 2
  THEN <<Actual2(inputs, e), Actual1(inputs, e)>>
  ELSE <<Actual1(inputs, e), Actual2(inputs, e)>>

(* Several elements with one destination agree.                              *)
(* (Slip: the order of the sources is not looked at.)                        *)
IsConjugatedByOutput(inputs, d) ==
  \E e \in Elements : /\ Destination(inputs, e) = d
                      /\ Actual2(inputs, e) < Actual1(inputs, e)

IsConjugated(inputs, d) ==
  \E e \in Elements :
    /\ Destination(inputs, e) = d
    /\ \/ Actual2(inputs, e) < Actual1(inputs, e) /\ Source2(e) < Source1(e)
       \/ Actual2(inputs, e) > Actual1(inputs, e) /\ Source2(e) > Source1(e)

NoProduct == <<>>

(* What shuffleBuffer leaves in the buffer of two outputs.  The two mixed     *)
(* elements of a station with itself have one destination when its inputs    *)
(* are of different antennas: the last one stays.                            *)
Writers(inputs, d) == {e \in Elements : Destination(inputs, e) = d}

Shuffled(inputs, d) ==
  IF Writers(inputs, d) = {} THEN NoProduct
  ELSE ElementProduct(CHOOSE e \in Writers(inputs, d) :
                        \A f \in Writers(inputs, d) : 2 * f.p1 + f.p2 <= 2 * e.p1 + e.p2)
=============================================================================
