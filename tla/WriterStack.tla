----------------------------- MODULE WriterStack -----------------------------
(***************************************************************************)
(* Cotter's write loop and the writers below it:                           *)
(*                                                                         *)
(*   Cotter -> [ApplySolutionsWriter, -full-apply] -> ThreadedWriter       *)
(*          -> AveragingWriter -> [ApplySolutionsWriter, -apply]           *)
(*          -> ThreadedWriter -> MSWriter or FitsWriter                    *)
(*                                                                         *)
(* with averaging; without, the first ThreadedWriter and AveragingWriter   *)
(* are left out (cotter.cpp: processOneContiguousBand,                     *)
(* processAndWriteTimestep, writeAlignmentScans).  Each ThreadedWriter is  *)
(* a place for one accepted row and a thread that serves it: what module   *)
(* ThreadedWriter implements.  A row is a baseline, the scans it is the    *)
(* mean of, and what RowContents says of its channels.                     *)
(***************************************************************************)
EXTENDS RowContents, FiniteSets

CONSTANTS NAntennae,  \* number of antennas
          Runs        \* the runs of Cotter considered: see RunType

ASSUME RunAssumption ==
  /\ NAntennae \in Nat \ {0} /\ Runs \subseteq RunType
  /\ \A r \in Runs : /\ r.flagged \subseteq 0..(NAntennae - 1)
                     /\ r.sbStart < r.sbEnd /\ r.sbEnd <= Len(r.numbers)

VARIABLES
  run,        \* the run: constant
  pc,         \* Cotter: "setup", "rows", "ask" (IsTimeAligned), "closing",
              \* "destroyed" or, after an exception, "refused"
  scan,       \* the scan being written
  next,       \* rows of this scan written; -1 before its AddRows
  outer,      \* the row the outer ThreadedWriter has accepted: 0 or 1 rows
  emitting,   \* is AveragingWriter in writeCurrentTimestep for that row?
  sums,       \* AveragingWriter's buffers, per baseline
  rowsAdded,  \* AveragingWriter::_rowsAdded
  inner,      \* the row the inner ThreadedWriter has accepted: 0 or 1 rows
  bandInfo,   \* _bandInfo of MSWriter or FitsWriter: 0 or 1 of them
  header,     \* the one the file was initialized with: 0 or 1
  nrow,       \* rows of the measurement set; GCOUNT of the UVFITS file
  table       \* rows put; its length is _rowIndex or _nRowsWritten

clientVars == <<pc, scan, next>>
fileVars == <<bandInfo, header, nrow, table>>
vars == <<run, clientVars, outer, emitting, sums, rowsAdded, inner, fileVars>>

Antennae == 0..(NAntennae-1)
Baselines == {b \in Antennae \X Antennae : b[1] <= b[2]}

OutputBaseline(b) ==
  /\ run.removeFlagged => b[1] \notin run.flagged /\ b[2] \notin run.flagged
  /\ run.removeAutos => b[1] # b[2]

OutputBaselines == {b \in Baselines : OutputBaseline(b)}

(* The baselines in the order of the two loops over antenna1 and antenna2:   *)
(* the k-th is the one that k - 1 others precede.                            *)
(* (Slip: the loops run backwards.)                                          *)
Before(b, c) == b[1] < c[1] \/ (b[1] = c[1] /\ b[2] < c[2])

OutputOrderBackwards ==
  [k \in 1..Cardinality(OutputBaselines) |->
     CHOOSE b \in OutputBaselines : Cardinality({c \in OutputBaselines : Before(b, c)}) = k - 1]

OutputOrder ==
  [k \in 1..Cardinality(OutputBaselines) |->
     CHOOSE b \in OutputBaselines : Cardinality({c \in OutputBaselines : Before(c, b)}) = k - 1]

RowsPerTimescan ==
  LET n == IF run.removeFlagged THEN NAntennae - Cardinality(run.flagged) ELSE NAntennae
  IN  (IF run.removeAutos THEN n * (n - 1) ELSE n * (n + 1)) \div 2

(* The outer ThreadedWriter forwards the question to AveragingWriter without *)
(* its mutex; the other writers are always aligned.                         *)
IsTimeAligned(b) == Averaging(run) => sums[b].scans = <<>>

Init ==
  /\ run \in Runs
  /\ pc = "setup" /\ scan = 0 /\ next = -1
  /\ outer = <<>> /\ emitting = FALSE /\ inner = <<>>
  /\ sums = <<>> /\ rowsAdded = 0
  /\ bandInfo = <<>> /\ header = <<>> /\ nrow = 0 /\ table = <<>>

-----------------------------------------------------------------------------
(* Cotter's thread. *)

(* WriteAntennae, WriteBandInfo and the other calls before the first row.    *)
(* AveragingWriter makes its buffers when it has seen the two of them;       *)
(* ApplySolutionsWriter forwards the band and then throws if the solutions   *)
(* do not fit.                                                              *)
SetUp ==
  /\ pc = "setup"
  /\ bandInfo' = <<SinkBandInfo(run)>>
  /\ sums' = IF Averaging(run) THEN [b \in Baselines |-> ZeroBuffer(run)] ELSE <<>>
  /\ pc' = IF IncompatibleSolutions(run) THEN "refused"
           ELSE IF run.skipWriting THEN "ask" ELSE "rows"
  /\ UNCHANGED <<run, scan, next, outer, emitting, rowsAdded, inner, header, nrow, table>>

(* AddRows of MSWriter and FitsWriter: the first one initializes the file    *)
(* with what it was told before, the UVFITS file with room for one time.     *)
Initialized == IF header = <<>> THEN bandInfo ELSE header
InitialGroups == Cardinality(Baselines)

FileAddRows ==
  /\ header' = Initialized
  /\ nrow' = CASE run.output = "ms" -> nrow + RowsPerTimescan
               [] run.output = "fits" /\ header = <<>> -> InitialGroups
               [] OTHER -> nrow

(* AddRows at the start of a scan.  ThreadedWriter runs AveragingWriter's   *)
(* AddRows on this thread once its buffer is empty; the first scan of an    *)
(* averaged one goes on to the inner ThreadedWriter and to the file.        *)
(* (Slip: _rowsAdded is not wrapped.)                                       *)
AddRowsUnwrapped ==
  /\ pc = "rows" /\ next = -1 /\ outer = <<>>
  /\ IF rowsAdded = 0 THEN inner = <<>> /\ FileAddRows ELSE UNCHANGED <<header, nrow>>
  /\ rowsAdded' = rowsAdded + 1
  /\ next' = 0
  /\ UNCHANGED <<run, pc, scan, outer, emitting, sums, inner, bandInfo, table>>

AddRows ==
  /\ pc = "rows" /\ next = -1 /\ outer = <<>>
  /\ IF rowsAdded = 0 THEN inner = <<>> /\ FileAddRows ELSE UNCHANGED <<header, nrow>>
  /\ rowsAdded' = (rowsAdded + 1) % run.timeAvg
  /\ next' = 0
  /\ UNCHANGED <<run, pc, scan, outer, emitting, sums, inner, bandInfo, table>>

WithCells(row, cells) == [baseline |-> row.baseline, scans |-> row.scans, cells |-> cells]

(* WriteRow, which waits until the uppermost ThreadedWriter has room. *)
CotterRow ==
  LET b == OutputOrder[next + 1] IN
  [baseline |-> b, scans |-> <<scan>>, cells |-> BeforeAveraging(run, b, CotterCells(run, scan))]

WriteRow ==
  /\ pc = "rows" /\ next \in 0..(Len(OutputOrder) - 1)
  /\ IF Averaging(run)
     THEN outer = <<>> /\ outer' = <<CotterRow>> /\ UNCHANGED inner
     ELSE /\ inner = <<>> /\ UNCHANGED outer
          /\ inner' = <<WithCells(CotterRow, AfterAveraging(run, CotterRow.baseline, CotterRow.cells))>>
  /\ next' = next + 1
  /\ UNCHANGED <<run, pc, scan, emitting, sums, rowsAdded, fileVars>>

(* The end of a scan: the next one of the observation, or the question      *)
(* whether the averaging of the last one is complete.                       *)
ScanWritten ==
  /\ pc = "rows" /\ next = Len(OutputOrder)
  /\ scan' = scan + 1 /\ next' = -1
  /\ pc' = IF scan + 1 < run.nScans THEN "rows" ELSE "ask"
  /\ UNCHANGED <<run, outer, emitting, sums, rowsAdded, inner, fileVars>>

(* writeAlignmentScans: one more scan, all flagged and of zero weight, as   *)
(* long as baseline (0,0) is not aligned.                                   *)
WriteAlignmentScan ==
  /\ pc = "ask" /\ ~IsTimeAligned(<<0, 0>>)
  /\ pc' = "rows"
  /\ UNCHANGED <<run, scan, next, outer, emitting, sums, rowsAdded, inner, fileVars>>

(* Aligned: the writers are destroyed, the outer one first.                  *)
(* (Slip: one alignment scan is thought to be enough.)                       *)
AlignedAfterOne ==
  /\ pc = "ask" /\ (IsTimeAligned(<<0, 0>>) \/ scan > run.nScans)
  /\ pc' = "closing"
  /\ UNCHANGED <<run, scan, next, outer, emitting, sums, rowsAdded, inner, fileVars>>

Aligned ==
  /\ pc = "ask" /\ IsTimeAligned(<<0, 0>>)
  /\ pc' = "closing"
  /\ UNCHANGED <<run, scan, next, outer, emitting, sums, rowsAdded, inner, fileVars>>

(* MSWriter's destructor initializes a file that has no rows, FitsWriter's   *)
(* sets the number of groups.                                               *)
FileClosed ==
  /\ header' = IF run.output = "ms" THEN Initialized ELSE header
  /\ nrow' = IF run.output = "fits" THEN Len(table) ELSE nrow

(* The destructor of each ThreadedWriter drains it, AveragingWriter drops    *)
(* the sums it holds, and the file is closed.                                *)
Destroy ==
  /\ pc = "closing" /\ outer = <<>> /\ inner = <<>>
  /\ pc' = "destroyed"
  /\ FileClosed
  /\ UNCHANGED <<run, scan, next, outer, emitting, sums, rowsAdded, inner, bandInfo, table>>

-----------------------------------------------------------------------------
(* The thread of the outer ThreadedWriter, in AveragingWriter::WriteRow.     *)
(* (Slip: the test for a complete group is off by one.)                      *)
AccumulateOneMore ==
  /\ outer # <<>> /\ ~emitting
  /\ LET b == outer[1].baseline
         sum == Added(run, sums[b], outer[1])
     IN  /\ sums' = [sums EXCEPT ![b] = sum]
         /\ IF Len(sum.scans) > run.timeAvg
            THEN emitting' = TRUE /\ UNCHANGED outer
            ELSE outer' = <<>> /\ UNCHANGED emitting
  /\ UNCHANGED <<run, clientVars, rowsAdded, inner, fileVars>>

Accumulate ==
  /\ outer # <<>> /\ ~emitting
  /\ LET b == outer[1].baseline
         sum == Added(run, sums[b], outer[1])
     IN  /\ sums' = [sums EXCEPT ![b] = sum]
         /\ IF Len(sum.scans) = run.timeAvg
            THEN emitting' = TRUE /\ UNCHANGED outer
            ELSE outer' = <<>> /\ UNCHANGED emitting
  /\ UNCHANGED <<run, clientVars, rowsAdded, inner, fileVars>>

AveragedRow ==
  LET b == outer[1].baseline IN
  [baseline |-> b, scans |-> sums[b].scans, cells |-> AfterAveraging(run, b, Averaged(sums[b]))]

(* writeCurrentTimestep: the averaged row goes to the inner ThreadedWriter,  *)
(* once that has room, and the buffer is zeroed.                             *)
(* (Slips: the buffer is not zeroed; the wait for room is inverted.)         *)
EmitUncleared ==
  /\ emitting /\ inner = <<>>
  /\ inner' = <<AveragedRow>>
  /\ outer' = <<>> /\ emitting' = FALSE
  /\ UNCHANGED <<run, clientVars, sums, rowsAdded, fileVars>>

EmitWhenOccupied ==
  /\ emitting /\ inner # <<>>
  /\ inner' = <<AveragedRow>>
  /\ sums' = [sums EXCEPT ![outer[1].baseline] = ZeroBuffer(run)]
  /\ outer' = <<>> /\ emitting' = FALSE
  /\ UNCHANGED <<run, clientVars, rowsAdded, fileVars>>

Emit ==
  /\ emitting /\ inner = <<>>
  /\ inner' = <<AveragedRow>>
  /\ sums' = [sums EXCEPT ![outer[1].baseline] = ZeroBuffer(run)]
  /\ outer' = <<>> /\ emitting' = FALSE
  /\ UNCHANGED <<run, clientVars, rowsAdded, fileVars>>

(* The thread of the inner ThreadedWriter, in the file's WriteRow: the row   *)
(* is put at a counter that only this thread advances.                       *)
PutRow ==
  /\ inner # <<>>
  /\ LET cells == inner[1].cells IN
     table' = Append(table, WithCells(inner[1], [c \in DOMAIN cells |-> CellInFile(run, cells[c])]))
  /\ inner' = <<>>
  /\ UNCHANGED <<run, clientVars, outer, emitting, sums, rowsAdded, bandInfo, header, nrow>>

Terminated == pc \in {"destroyed", "refused"} /\ UNCHANGED vars

-----------------------------------------------------------------------------
Client == SetUp \/ AddRows \/ WriteRow \/ ScanWritten \/ WriteAlignmentScan \/ Aligned
          \/ Destroy
OuterThread == Accumulate \/ Emit

Next == Client \/ OuterThread \/ PutRow \/ Terminated

Spec == Init /\ [][Next]_vars /\ WF_vars(Client) /\ WF_vars(OuterThread) /\ WF_vars(PutRow)

-----------------------------------------------------------------------------
(* Which scans the averaged scan g is made of, those past the end included. *)
GroupScans(g) == [i \in 1..run.timeAvg |-> g * run.timeAvg + i - 1]
NGroups == (run.nScans + run.timeAvg - 1) \div run.timeAvg

(* The types of the state: at most one row is between two writers, and a sum  *)
(* has no more scans than are averaged.                                      *)
TypeOK ==
  /\ run \in Runs
  /\ pc \in {"setup", "rows", "ask", "closing", "destroyed", "refused"}
  /\ scan \in Nat /\ next \in -1..Len(OutputOrder)
  /\ Len(outer) <= 1 /\ Len(inner) <= 1
  /\ emitting \in BOOLEAN /\ rowsAdded \in 0..(run.timeAvg - 1)
  /\ Len(bandInfo) <= 1 /\ Len(header) <= 1 /\ nrow \in Nat
  /\ Averaging(run) /\ pc # "setup" =>
       \A b \in Baselines : Len(sums[b].scans) <= run.timeAvg

(* Row i of the file is the baseline and the averaged scan that a single     *)
(* thread would have put there: the writer, whose rows are placed by a       *)
(* counter, sees them in time order and by baseline within a time, and no    *)
(* scan is summed twice, into the wrong row or with a neighbour group.       *)
TableAsAveraged ==
  LET n == Len(OutputOrder) IN
  \A i \in 1..Len(table) :
    /\ table[i].baseline = OutputOrder[((i - 1) % n) + 1]
    /\ table[i].scans = GroupScans((i - 1) \div n)

(* The fine channels, by their own frequencies, that channel c of the file   *)
(* covers by the frequency and width the file gives for it.                  *)
Covered(c) ==
  {k \in 0..(BandChannels(run) - 1) :
     LET d == ChannelFrequencyHz(run, k) - FrequencyInFile(run, header[1], c)
         w == WidthInFile(run, header[1], c)
     IN  -w < 2 * d /\ 2 * d < w}

(* Does solution channel s hold for one of the channels K of the observation *)
(* when the solutions divide its channels evenly?                            *)
SolutionCovers(s, K) ==
  LET n == NChannels(run) IN
  \E k \in K : s * n < (k + 1) * run.nSolutionChannels /\ k * run.nSolutionChannels < (s + 1) * n

InObservation(K) == {(run.sbStart * run.chPerSb) + k : k \in K}

(* A visibility of the file is the mean of the samples in the frequencies    *)
(* that the file gives for its channel and in its scans: of the unflagged    *)
(* ones, each once, and it is flagged, with all samples, if there are none.  *)
(* Each was corrected once, by solutions of the row's two antennas for its   *)
(* frequency; no channel is left empty or announced without a visibility.    *)
ContentsAtFrequency ==
  \A i \in 1..Len(table) :
    /\ DOMAIN table[i].cells = DOMAIN header[1].channels
    /\ \A c \in DOMAIN table[i].cells :
         LET cell == table[i].cells[c]
             here == ToSet(table[i].scans) \X Covered(c)
             good == {s \in here : s[1] < run.nScans /\ s \notin run.bad}
             used == {<<cell.samples[k].scan, cell.samples[k].ch>> : k \in DOMAIN cell.samples}
         IN  /\ here # {}
             /\ used = IF good # {} THEN good ELSE here
             /\ Cardinality(used) = Len(cell.samples)
             /\ cell.flag <=> good = {}
             /\ \A k \in DOMAIN cell.samples :
                  LET by == cell.samples[k].by
                      extent == InObservation(IF run.solutions = "before"
                                              THEN {cell.samples[k].ch} ELSE Covered(c))
                  IN  IF run.solutions = "none" THEN by = <<>>
                      ELSE /\ Len(by) = 2
                           /\ \A side \in {1, 2} : /\ by[side][1] = table[i].baseline[side]
                                                   /\ SolutionCovers(by[side][2], extent)

(* MSWriter never puts a row it has not allocated: the AddRows that the     *)
(* averaging thins out on Cotter's thread are ahead of the rows that come   *)
(* through the two writer threads.  No file gets a row before its header.   *)
RowsAllocated ==
  Len(table) + Len(inner) > 0 =>
    header # <<>> /\ (run.output = "ms" => Len(table) + Len(inner) <= nrow)

(* While Cotter asks for baseline (0,0) without the mutex, no row of it is on *)
(* its way to AveragingWriter: the answer does not depend on the threads.     *)
AnswerSettled ==
  pc = "ask" => ~\E i \in DOMAIN outer : outer[i].baseline = <<0, 0>>

(* When the writers are gone, the file has its header and as many rows as it *)
(* says, every row it allocated has been put, and every scan of every output *)
(* baseline is in one of them.                                               *)
Complete ==
  pc = "destroyed" =>
    /\ Len(table) = nrow
    /\ nrow = IF run.skipWriting THEN 0 ELSE NGroups * Len(OutputOrder)
    /\ header # <<>>

(* The observation ends: no thread of the stack waits for ever, and the     *)
(* alignment scans come to an end.                                          *)
Finishes == <>(pc \in {"destroyed", "refused"})

(* "Last averaged sample will be downweighted" (cotter.cpp:1393), "more      *)
(* timesteps should be added" (writer.h:82): the scans left over at the end  *)
(* of the observation are in the output.                                    *)
LeftoverScansWritten ==
  pc = "destroyed" =>
    \A b \in {OutputOrder[i] : i \in 1..Len(OutputOrder)}, s \in 0..(run.nScans - 1) :
      \E i \in 1..Len(table) :
        table[i].baseline = b /\ \E k \in DOMAIN table[i].scans : table[i].scans[k] = s
==============================================================================
