------------------------------ MODULE FlagFiles ------------------------------
(***************************************************************************)
(* Flag files: a run of Cotter that writes them (FlagWriter), and a later   *)
(* run on the same gpubox files that reads them (FlagReader, -flagfiles).   *)
(* Both follow the order of the subbands and the contiguous bands           *)
(* (initializeSbOrder, processAllContiguousBands, createReader), and the    *)
(* HDU offsets GPUFileReader reports (onHDUOffsetsChange).                  *)
(*                                                                         *)
(* The flags of a row of one subband are named by their scan, baseline and  *)
(* subband.  Subbands, gpuboxes, scans and baselines count from 0, the rows *)
(* of a FITS table from 1.                                                 *)
(***************************************************************************)
EXTENDS Integers, Sequences, FiniteSetsExt

CONSTANTS NBaselines,   \* baselines, in the order of the loops over antennas
          NScans,       \* nScans of the header
          Observations  \* see ObservationType

(* subbandNumbers (coarse channels) and, per gpubox, the start of its file. *)
ObservationType == [numbers : Seq(Nat) \ {<<>>}, start : Seq(Nat), doAlign : BOOLEAN]

ASSUME FlagFilesAssumption ==
  /\ NBaselines \in Nat \ {0} /\ NScans \in Nat \ {0}
  /\ Observations \subseteq ObservationType
  /\ \A o \in Observations : Len(o.numbers) = Len(o.start)

VARIABLES
  obs,          \* the observation: constant
  run,          \* "write", "read" or "done"
  band,         \* bandIndex, from 1
  offsets,      \* _hduOffsetsPerGPUBox
  toWriter,     \* FlagWriter::_hduOffsets: a vector
  rowsWritten,  \* FlagWriter::_rowsWritten; in the reading run: rows read
  file,         \* per gpubox, the rows of its flag file
  readBack      \* _flagBuffers of the reading run, per scan, baseline, subband

vars == <<obs, run, band, offsets, toWriter, rowsWritten, file, readBack>>

SubbandCount == Len(obs.numbers)
Subbands == 0..(SubbandCount - 1)
Number(sb) == obs.numbers[sb + 1]
Unknown == 9999
Zero == <<"zero">>        \* no flag is set; a row that cfitsio skipped
Garbage == <<"garbage">>  \* flags of no row: what happened to be in memory

(* initializeSbOrder: coarse channels above 128 come in reversed order.      *)
(* (Slip: the reversal is about the whole band.)                             *)
SubbandOrderReversed(sb) ==
  IF \E s \in 0..sb : Number(s) > 128 THEN SubbandCount - 1 - sb ELSE sb

SubbandOrder(sb) ==
  LET Right == {s \in Subbands : \E r \in 0..s : Number(r) > 128}
  IN  IF sb \in Right THEN SubbandCount - 1 - sb + Min(Right) ELSE sb

(* processAllContiguousBands: the first subbands of the ranges, and where    *)
(* the range that starts at sb ends.                                         *)
Starts == {sb \in Subbands : sb = 0 \/ Number(sb) # Number(sb - 1) + 1}
BandCount == Cardinality(Starts)
SbStart == CHOOSE s \in Starts : Cardinality({r \in Starts : r <= s}) = band
SbEnd == Min({s \in Starts : s > SbStart} \union {SubbandCount})
CurSubbands == SbStart..(SbEnd - 1)

(* The file set GPUFileReader opens: by position in the band. *)
FileOf(sb) == SubbandOrder(sb)
NewHDUOffset(sb) ==
  Max({obs.start[FileOf(s) + 1] : s \in CurSubbands}) - obs.start[FileOf(sb) + 1]

(* What a cell of the reading run's masks may hold until the flags of a row   *)
(* are stored in it: they are made without an initial value (cotter.cpp:473,  *)
(* unlike those at cotter.cpp:439, 440, 949 and 955).                        *)
MakeFlagMask == {Zero, Garbage}

Init ==
  /\ obs \in Observations
  /\ run = "write" /\ band = 1
  /\ offsets = [g \in Subbands |-> Unknown]
  /\ toWriter = <<>> /\ rowsWritten = -1
  /\ file = [g \in Subbands |-> <<>>]
  /\ \E memory \in MakeFlagMask :
       readBack = [i \in (0..(NScans - 1)) \X (0..(NBaselines - 1)) \X Subbands |-> memory]

-----------------------------------------------------------------------------
(* The first Read of the band opens the files and reports their offsets,     *)
(* which are kept per gpubox and handed to the writer: the vector as it is,  *)
(* or with -noalign one of zeros, as long as the band.                       *)
OpenFiles ==
  /\ run # "done" /\ rowsWritten = -1
  /\ offsets' = [g \in Subbands |->
                   IF \E sb \in CurSubbands : FileOf(sb) = g
                   THEN NewHDUOffset(CHOOSE sb \in CurSubbands : FileOf(sb) = g)
                   ELSE offsets[g]]
  /\ toWriter' = IF obs.doAlign THEN [i \in 1..SubbandCount |-> offsets'[i - 1]]
                 ELSE [i \in 1..(SbEnd - SbStart) |-> 0]
  /\ rowsWritten' = 0
  /\ UNCHANGED <<obs, run, band, file, readBack>>

Scan(i) == i \div NBaselines
Baseline(i) == i % NBaselines

Put(rows, r, flags) ==
  [i \in 1..Max({r, Len(rows)}) |->
     IF i = r THEN flags ELSE IF i <= Len(rows) THEN rows[i] ELSE Zero]

(* FlagWriter::writeRow: the row goes to the file of each gpubox, "offset"   *)
(* scans earlier.  (Slip: the row is not moved.)                             *)
RowInFileUnmoved(n, offset) == n

RowInFile(n, offset) == n - offset * NBaselines

Writable(n, offset) == n > offset * NBaselines + 1

WriteRow ==
  /\ run = "write" /\ rowsWritten \in 0..(NScans * NBaselines - 1)
  /\ LET n == rowsWritten + 1
     IN  file' = [g \in Subbands |->
           IF \E sb \in CurSubbands : FileOf(sb) = g /\ Writable(n, toWriter[FileOf(sb) + 1])
           THEN Put(file[g], RowInFile(n, toWriter[g + 1]),
                    <<Scan(rowsWritten), Baseline(rowsWritten),
                      CHOOSE sb \in CurSubbands : FileOf(sb) = g>>)
           ELSE file[g]]
  /\ rowsWritten' = rowsWritten + 1
  /\ UNCHANGED <<obs, run, band, offsets, toWriter, readBack>>

(* FlagReader::Read, for the rows of the chunk in the same order.  It has    *)
(* the offsets as reported, also with -noalign.  For a scan before the       *)
(* offset of a file nothing is stored: the cell goes on to the flags of the  *)
(* baseline as it is.                                                        *)
ReadRow ==
  /\ run = "read" /\ rowsWritten \in 0..(NScans * NBaselines - 1)
  /\ LET t == Scan(rowsWritten)
         b == Baseline(rowsWritten)
         Row(g) == (t - offsets[g]) * NBaselines + b + 1
     IN  readBack' = [i \in DOMAIN readBack |->
           IF i[1] = t /\ i[2] = b /\ i[3] \in CurSubbands /\ t >= offsets[FileOf(i[3])]
           THEN file[FileOf(i[3])][Row(FileOf(i[3]))]
           ELSE readBack[i]]
  /\ rowsWritten' = rowsWritten + 1
  /\ UNCHANGED <<obs, run, band, offsets, toWriter, file>>

(* The band is finished: the next one, the reading run, or the end. *)
EndBand ==
  /\ run # "done" /\ rowsWritten = NScans * NBaselines
  /\ IF band < BandCount THEN band' = band + 1 /\ UNCHANGED run
     ELSE band' = 1 /\ run' = IF run = "write" THEN "read" ELSE "done"
  /\ rowsWritten' = -1
  /\ offsets' = [g \in Subbands |-> Unknown] /\ toWriter' = <<>>
  /\ UNCHANGED <<obs, file, readBack>>

Stopped == run = "done" /\ UNCHANGED vars

Next == OpenFiles \/ WriteRow \/ ReadRow \/ EndBand \/ Stopped

Spec == Init /\ [][Next]_vars

-----------------------------------------------------------------------------
(* initializeSbOrder flags subband _subbandOrder[g] when gpubox g is missing, *)
(* while createReader takes the data of subband sb from gpubox                *)
(* _subbandOrder[sb]: the two agree, and no two subbands share a gpubox.      *)
MissingBoxFlagsItsSubband ==
  \A g \in Subbands : FileOf(SubbandOrder(g)) = g

(* The cell of row i was passed by the reading run: it has what it will have. *)
HasRead(i) ==
  run = "read" /\ i[3] \in CurSubbands /\ rowsWritten > i[1] * NBaselines + i[2]
OffsetOf(i) == offsets[FileOf(i[3])]

(* The reading run gets the flags that were written for the row's own scan,   *)
(* baseline and subband, in every row that a file holds but its first one,    *)
(* which is what FirstRowReadBack is about.  Of the scans before the offset   *)
(* of a file that starts early no file holds the flags, though their data    *)
(* are in the output (gpufilereader.cpp:158): they do not come back, and     *)
(* what the later run has instead depends on MakeFlagMask.                   *)
FlagsReadBack ==
  \A i \in DOMAIN readBack :
    HasRead(i) /\ (i[1] > OffsetOf(i) \/ (i[1] = OffsetOf(i) /\ i[2] > 0)) => readBack[i] = i

(* "Use previously writted MWAF files to skip RFI detection" (main.cpp:103): *)
(* the first row of a file, the first baseline in the first scan it holds,   *)
(* has the flags that were written for it, too.                              *)
FirstRowReadBack ==
  \A i \in DOMAIN readBack :
    HasRead(i) /\ i[1] = OffsetOf(i) /\ i[2] = 0 => readBack[i] = i
=============================================================================
