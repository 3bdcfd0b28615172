----------------------------- MODULE RowContents -----------------------------
(***************************************************************************)
(* What is in a row on its way through the writers: the channels announced  *)
(* by WriteBandInfo and, per channel, the samples a visibility is made of,  *)
(* their flag and weight (cotter.cpp: writeSPW, processAndWriteTimestep;    *)
(* averagingwriter.h/.cpp; applysolutionswriter.cpp; fitswriter.cpp).       *)
(*                                                                         *)
(* A sample is a scan and a fine channel of the band (from 0), with the     *)
(* solutions it was corrected by, if any: the antenna and channel of the    *)
(* one on the left and of the one on the right.  The four polarizations     *)
(* share flag and weight.  A sample of Cotter weighs 1, one of an alignment *)
(* scan 0.  "run" is a record of RunType.                                   *)
(***************************************************************************)
EXTENDS Integers, Sequences, SequencesExt

RunType ==
  [flagged : SUBSET Nat,               \* _isAntennaFlaggedMap
   removeFlagged : BOOLEAN,            \* _removeFlaggedAntennae
   removeAutos : BOOLEAN,              \* _removeAutoCorrelations
   skipWriting : BOOLEAN,              \* _skipWriting
   output : {"ms", "fits"},            \* _outputFormat
   nScans : Nat \ {0}, timeAvg : Nat \ {0}, freqAvg : Nat \ {0},
   numbers : Seq(Nat) \ {<<>>},        \* subbandNumbers: coarse channels
   chPerSb : Nat \ {0},                \* fine channels of a subband
   sbStart : Nat, sbEnd : Nat \ {0},   \* _curSbStart and _curSbEnd of the band
   bad : SUBSET (Nat \X Nat),          \* flagged samples: scan, channel of the band
   solutions : {"none", "after", "before"}, \* -apply, -full-apply
   nSolutionChannels : Nat \ {0}]

NChannels(run) == Len(run.numbers) * run.chPerSb
BandChannels(run) == (run.sbEnd - run.sbStart) * run.chPerSb
Averaging(run) == run.timeAvg # 1 \/ run.freqAvg # 1
AvgChannelCount(run) == BandChannels(run) \div run.freqAvg

-----------------------------------------------------------------------------
(* Frequencies, in a unit of which a fine channel has ChWidth.               *)
ChWidth == 12

(* The coarse channels of a band are consecutive, from that of its start.   *)
ChannelFrequencyHz(run, ch) ==
  ((run.numbers[run.sbStart + 1] * run.chPerSb) + ch) * ChWidth

SPW(run) ==
  [channels |-> [i \in 1..BandChannels(run) |->
                   [chanFreq |-> ChannelFrequencyHz(run, i - 1), chanWidth |-> ChWidth]],
   totalBandwidth |-> BandChannels(run) * ChWidth]

Group(s, f, c) == SubSeq(s, (c - 1) * f + 1, c * f)
Total(s) == FoldSeq(LAMBDA x, y : x + y, 0, s)

(* AveragingWriter::WriteBandInfo: the last channels are left out when they  *)
(* do not fill a group; the bandwidth is passed on.                          *)
AveragedBandInfo(run, info) ==
  [info EXCEPT !.channels = [c \in 1..AvgChannelCount(run) |->
     LET group == Group(info.channels, run.freqAvg, c) IN
     [chanFreq |-> Total([i \in DOMAIN group |-> group[i].chanFreq]) \div run.freqAvg,
      chanWidth |-> Total([i \in DOMAIN group |-> group[i].chanWidth])]]]

SinkBandInfo(run) == IF Averaging(run) THEN AveragedBandInfo(run, SPW(run)) ELSE SPW(run)

(* How the files give the frequency of channel c and its width: a table of   *)
(* the measurement set, or a reference channel and an increment.             *)
FitsAxis(info) ==
  LET n == Len(info.channels) IN
  [value |-> info.channels[(n \div 2) + 1].chanFreq, pixel |-> (n \div 2) + 1,
   delta |-> info.totalBandwidth \div n]

FrequencyInFile(run, info, c) ==
  IF run.output = "ms" THEN info.channels[c].chanFreq
  ELSE FitsAxis(info).value + (c - FitsAxis(info).pixel) * FitsAxis(info).delta

WidthInFile(run, info, c) ==
  IF run.output = "ms" THEN info.channels[c].chanWidth ELSE FitsAxis(info).delta

-----------------------------------------------------------------------------
(* Cotter's row of a scan: one sample per channel, all of the same weight but *)
(* for those of an alignment scan.                                           *)
SampleWeight(run, scan) == IF scan < run.nScans THEN 1 ELSE 0

CotterCells(run, scan) ==
  [i \in 1..BandChannels(run) |->
     [samples |-> <<[scan |-> scan, ch |-> i - 1, by |-> <<>>]>>,
      flag |-> scan >= run.nScans \/ <<scan, i - 1>> \in run.bad,
      weight |-> SampleWeight(run, scan)]]

(* AveragingWriter's buffer of a baseline. *)
ZeroBuffer(run) ==
  [scans |-> <<>>,
   all |-> [c \in 1..AvgChannelCount(run) |-> <<>>],
   unflagged |-> [c \in 1..AvgChannelCount(run) |-> <<>>],
   weight |-> [c \in 1..AvgChannelCount(run) |-> 0]]

(* What the channels of a group add: all samples, those that are not flagged, *)
(* and the weight of these.                                                  *)
SamplesOf(cells) == FlattenSeq([i \in DOMAIN cells |-> cells[i].samples])
UnflaggedOf(cells) ==
  FlattenSeq([i \in DOMAIN cells |-> IF cells[i].flag THEN <<>> ELSE cells[i].samples])
UnflaggedWeight(cells) ==
  Total([i \in DOMAIN cells |-> IF cells[i].flag THEN 0 ELSE cells[i].weight])

Added(run, buffer, row) ==
  LET group(c) == Group(row.cells, run.freqAvg, c)
  IN  [scans |-> buffer.scans \o row.scans,
       all |-> [c \in DOMAIN buffer.all |-> buffer.all[c] \o SamplesOf(group(c))],
       unflagged |-> [c \in DOMAIN buffer.all |-> buffer.unflagged[c] \o UnflaggedOf(group(c))],
       weight |-> [c \in DOMAIN buffer.all |-> buffer.weight[c] + UnflaggedWeight(group(c))]]

(* writeCurrentTimestep: the mean of the unflagged samples or, flagged, of   *)
(* all of them.                                                             *)
Averaged(buffer) ==
  [c \in DOMAIN buffer.all |->
     IF buffer.unflagged[c] = <<>>
     THEN [samples |-> buffer.all[c], flag |-> TRUE, weight |-> buffer.weight[c]]
     ELSE [samples |-> buffer.unflagged[c], flag |-> FALSE, weight |-> buffer.weight[c]]]

-----------------------------------------------------------------------------
(* ApplySolutionsWriter.  Its second and third argument: the fine channels   *)
(* before the band and those of the observation, as they are after averaging *)
(* or (-full-apply) before.                                                 *)
Divisor(run) == IF run.solutions = "after" THEN run.freqAvg ELSE 1
BandFineChanStart(run) ==
  ((run.sbStart * NChannels(run)) \div Len(run.numbers)) \div Divisor(run)
NTotalFineChannels(run) == NChannels(run) \div Divisor(run)

IncompatibleSolutions(run) ==
  LET nSol == run.nSolutionChannels
      n == NTotalFineChannels(run)
  IN  /\ run.solutions # "none"
      /\ IF nSol > n THEN nSol % n # 0 ELSE n % nSol # 0

(* (Slip: the start of the band is left out.) *)
SolChannelInBand(run, ch) ==
  LET nSol == run.nSolutionChannels
      n == NTotalFineChannels(run)
  IN  IF nSol > n THEN ch * (nSol \div n) ELSE ch \div (n \div nSol)

SolChannel(run, ch) ==
  LET nSol == run.nSolutionChannels
      n == NTotalFineChannels(run)
      k == ch + BandFineChanStart(run)
  IN  IF nSol > n THEN k * (nSol \div n) ELSE k \div (n \div nSol)

(* The solutions are read antenna by antenna, and within it by channel.      *)
SolutionAt(run, index) ==
  <<index \div run.nSolutionChannels, index % run.nSolutionChannels>>

(* Correction of a row: J(antenna1) V J(antenna2)^H in every channel.        *)
Multiplied(samples, pair) == [k \in DOMAIN samples |-> [samples[k] EXCEPT !.by = @ \o pair]]

CorrectedBy(run, b, cells) ==
  [i \in DOMAIN cells |->
     LET Sol(a) == SolutionAt(run, a * run.nSolutionChannels + SolChannel(run, i - 1)) IN
     [cells[i] EXCEPT !.samples = Multiplied(@, <<Sol(b[1]), Sol(b[2])>>)]]

(* What Cotter's row is when it comes out of the writers above averaging,    *)
(* and what an averaged one is below it.                                    *)
BeforeAveraging(run, b, cells) ==
  IF run.solutions = "before" THEN CorrectedBy(run, b, cells) ELSE cells
AfterAveraging(run, b, cells) ==
  IF run.solutions = "after" THEN CorrectedBy(run, b, cells) ELSE cells

-----------------------------------------------------------------------------
(* FitsWriter::WriteRow: a flagged visibility has a negative weight, and     *)
(* who reads the file takes one that is not positive for flagged.            *)
FitsWeight(cell) == IF cell.flag THEN -cell.weight ELSE cell.weight

CellInFile(run, cell) ==
  IF run.output = "ms" THEN cell
  ELSE [samples |-> cell.samples, flag |-> FitsWeight(cell) <= 0, weight |-> FitsWeight(cell)]
==============================================================================
