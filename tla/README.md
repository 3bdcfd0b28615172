# Cotter in TLA+

Cotter turns the raw files of the MWA correlator (the "gpubox" files) into a
measurement set, a uvfits file or flag files. It aligns the files in time,
reorders and conjugates the correlations, corrects them for cables and gains,
finds RFI with a pool of threads and writes the result through a chain of
writers that average and that run on threads of their own. This directory holds
TLA+ modules of the parts of Cotter where order and concurrency matter, TLC
configurations that check them, and proofs: about the components in which
threads wait for each other (`ThreadedWriter`, `Lane`, `ShuffleRead`), about the
stack of writers and the pool of threads built with them (`WriterStack`,
`BaselinePool`), about the placing of the scans (`ScanPlacement`), and about the
mappings the results depend on (`InputMapping`, `FlagFiles`).

`PROJECT.json` lists the components, the runs, for every definition the lines it
is translated from (`map`), the hazards and the properties that watch them, and
for every property a small plausible bug ("mutant") that breaks it. Those bugs
stand in the modules beside the operator they are a slip of, marked "Slip"; no
specification uses them.

    tlasany M.tla                       parse
    tlc -config MCX.cfg MCX             model-check
    tlapm XProofs.tla                   check the proofs about X

## 1. Inventory

| Component | State | Operations | What makes it correct |
|---|---|---|---|
| `main.cpp`: command line | the options in `Cotter` | one `if` per option, in order | later options overrule earlier ones as documented; contradictions are refused |
| `main.cpp`: file grouping | `fileSets[time][gpubox]` | parse two numbers of each name, place, check | each file once in its place; missing files are refused or tolerated as asked |
| `MetaFitsFile`, `MWAConfig` | inputs, antennas, `_antennaXInputs`, `_antennaYInputs` | `ReadTiles`, `ReadMetaFits`, `CheckSetup`, `-a`/`-h`/`-i` files | every antenna has one X and one Y input |
| `Cotter`: chunk loop | chunk bounds, current file set, `bufferPos`, `_missingEndScans` | `processOneContiguousBand`, `createReader` | every scan of the header is in one chunk; unflagged data are at their time |
| `Cotter`: bands, subband order | `_subbandOrder`, `_hduOffsetsPerGPUBox` | `initializeSbOrder`, `processAllContiguousBands`, `onHDUOffsetsChange` | data, flag files and missing gpuboxes follow the same order |
| `Cotter`: baseline pool | `_baselinesToProcess`, `_imageSetBuffers`, `_flagBuffers`, `_statistics` | `baselineProcessThreadFunc`, `processBaseline` | each baseline corrected, flagged and counted once, by one thread |
| `Cotter`: write loop | row counters | `processAndWriteTimestep`, `writeAlignmentScans` | rows in the order the writers count on |
| `GPUFileReader`: placing | `_currentHDU`, `_stopHDU`, offsets | `openFiles`, `Read`, `closeFiles`, `findStopHDU` | all gpuboxes of a column were taken at the same time |
| `GPUFileReader`: mapping | `_corrInputToOutput`, mapped buffers, `_isConjugated` | `initMapping`, `shuffleBuffer` | each product ends up at its antennas, conjugated if its order was reversed |
| `GPUFileReader`: shuffle threads | two lanes, matrix buffers | `Read`, `shuffleThreadFunc` | a buffer has one owner; `Read` returns after the last copy |
| `lane.h` | cyclic buffer, two condition variables | `write`, `read`, `write_end`, `clear`, ... | bounded FIFO with an end, no missed notification |
| `ThreadedWriter` | one-place buffer, three flags, a condition variable | `WriteRow`, `AddRows`, forwarded calls, destructor, its thread | calls reach the parent in order, one at a time; destruction drains |
| `AveragingWriter` | sums per baseline, `_rowsAdded` | `AddRows`, `WriteRow`, `IsTimeAligned` | a row per averaged scan, made of the right scans |
| `MSWriter` | `_rowIndex`, allocated rows, tables | `AddRows`, `WriteRow`, table writing | no row is put that is not allocated |
| `FlagWriter`, `FlagReader` | `_rowsWritten`, offsets, one file per gpubox | `writeRow`, `SetOffsetsPerGPUBox`, `Read` | flags read are the flags written |
| `FitsWriter` | group counter | `AddRows`, `WriteRow` | as `MSWriter` |
| `ApplySolutionsWriter`, `SolutionFile`, `matrix2x2.h` | solutions | `WriteRow` multiplies by matrices | right solution for antenna and channel |
| `geometry.h`, `radeccoord.h` | none | floating-point geometry | accuracy |
| `mwams`, `mwafits`, `fixmwams` | none | extra tables and keywords at the end | - |
| `subbandpassband`, `stopwatch`, `progressbar`, `aligned_ptr`, `fitsuser`, `numberlist`, ... | - | tables, reporting, helpers | - |

How they interact. `main` groups the files and sets the options, then calls
`Cotter::Run`. For each contiguous band, Cotter builds a stack of writers
(`ThreadedWriter` - `AveragingWriter` - `ThreadedWriter` - `MSWriter` or
`FitsWriter` when it averages, with an `ApplySolutionsWriter` above or below the
averaging when there are solutions) and a reader per file set. For each chunk it calls `Read` until the
chunk is full or the files are exhausted (`Read` hands each HDU through a lane to
shuffle threads, which hand the buffer back through another), starts the
baseline threads, joins them, and writes scan after scan through the stack.

What is hard. Four places have several threads: the two `ThreadedWriter`s, the
lanes and shuffle threads, the baseline pool, and (through the writers) rows
that overtake their `AddRows`. Elsewhere the code is sequential, and the
difficulty is arithmetic at boundaries: chunks and file sets that end at
different scans, files that start at different times, counters that wrap
together, rows that count from 1, and orders that are reversed twice. Nothing
persists over a crash and nothing is sent over a network, so there is no
recovery or message loss to model. Errors are exceptions that end the program.

## 2. Modules

| Module | Models | State and actions against the code |
|---|---|---|
| `CallSink` | abstract: what a writer hidden behind a thread promises | `issued`, `performed`, `closed` |
| `ThreadedWriter` | `threadedwriter.cpp/.h` | the three flags, the one-place buffer and the set of sleepers of the condition variable. One step is one critical section, from the lock to the unlock or to `wait()`. The parent's `WriteRow` runs between two of the thread's critical sections; the parent's `AddRows` between two steps of the client that keep the mutex. `issued` and `performed` are histories |
| `ThreadedWriterProofs` | | theorems, see section 5 |
| `RowContents` | what a row holds: `writeSPW`, `WriteBandInfo` of the writers, the averaging of channels and scans, `ApplySolutionsWriter::WriteRow`, the flags and frequency axis of both formats | operators on rows; a sample is a scan and a fine channel, with the solutions it was corrected by; frequencies are exact multiples of a twelfth of a channel |
| `WriterStack` | write loop and stack of writers, with and without averaging, `-apply` and `-full-apply`, `MSWriter` and `FitsWriter`; EXTENDS `RowContents` | each `ThreadedWriter` is a place for one accepted row and a thread that serves it, which `ThreadedWriter` is shown to implement; `AddRows` and `WriteBandInfo` run ahead on Cotter's thread; the file is the header it was initialized with, the rows allocated and the rows put |
| `LaneQueue`, `Lane` | abstract bounded FIFO with an end; `lane.h` | cells, `_write_position`, `_free_write_space`, `_status`, sleepers; a call that does not fit stores a part and waits |
| `LaneProofs` | | theorems, see section 5 |
| `ShuffleRead` | the threads of `GPUFileReader::Read` | the lanes are bounded queues (what `Lane` is proved to implement), the buffers, the shuffle threads, which copy cell by cell |
| `ShuffleReadProofs` | | theorems, see section 5 |
| `FileSets` | grouping of the files in `main.cpp` | operators on a list of files; a file name is the two numbers in it |
| `ScanPlacement` | chunk loop and `GPUFileReader::Read`'s placing; EXTENDS `FileSets` | one step per call: `Start`/`Refuse`, `BeginChunk`, `Read` or `ReadNothing`, `NextFileSet` or `KeepFileSet`, `FlagMissing`, `EndChunk`. The data of a scan are the time it was taken at. `BadSamples` is `flagBadCorrelatorSamples` |
| `CommandLine`, `InputMapping` | options; tile table, the file of `-i`, mapping and conjugation | operators: options folded over the arguments; the tile table and the text file that replaces it are lists of lines; a product is the pair of inputs it was correlated from, its conjugate the reversed pair |
| `BaselinePool` | the baseline threads; EXTENDS the two above | the queue under the mutex, in-place corrections (conjugation, cables, the digital gains of each subband of the band), flag masks as sets of reasons, statistics as how often a baseline was counted |
| `FlagFiles` | `FlagWriter`, `FlagReader`, subband order, bands | a run that writes and a run that reads the same observation, row by row |
| `WriterStackProofs`, `ScanPlacementProofs`, `BaselinePoolProofs` (with those about `InputMapping`), `FlagFilesProofs` | | theorems, see section 5 |
| `NumberProofs` | | lemmas the other proofs share: quotients, least and greatest elements, induction, a bound that is kept; sequences that list a set, sequences that are put together, sums |

The order of the output baselines in `WriterStack` and of the bands in `FlagFiles`
is defined by ranks (the element that has k before it) instead of by sorting or
recursion, because the provers can reason about ranks.

`MC*.tla` define the small instances and `MC*.cfg` assign the constants.

Conventions. Data are abstracted to what the properties tell apart: a row is a
name, a scan its time, a flag mask its reasons. Condition variables are sets of
sleepers; both `notify_all` and spurious wakeups are modelled. Undefined
behaviour (an index past the end) is a choice between going on and "crashed".

## 3. Runs

| Run | Instance | States | Shows |
|---|---|---|---|
| `ThreadedWriter` | 2 rows, up to 4 calls, destructor at any idle moment | 3204 | types; `CallsInOrder`, `ParentCallsExclusive`, `NoMutualSleep`; calls return, destruction ends; implements `CallSink` |
| `WriterStack` | 3 antennas, every choice of flagged ones and pruning, 1-4 scans, time averaging 1-3; bands, frequency averaging 1-3, flagged samples, solutions before or after the averaging, both formats: 463 initial states | 22420 | the table is what a single thread would have made; each visibility is made of, and corrected by, what belongs to the frequency the file gives for it; rows allocated before they are put; `IsTimeAligned` is answered from settled counters; all written; ends |
| `WriterStackPruned` | two runs where (0,0) is not output and the length is not a multiple | violation | finding 1 |
| `Lane` | 2 writers, 2 readers, 2 cells, 3 elements a writer, calls of 1-3 | 23048 | FIFO, end after last, no missed notification, everybody returns; implements `LaneQueue` |
| `ScanPlacement` | 2 gpuboxes of 4 channels, 1-6 scans in chunks of 1-5, up to 3 file sets | 33018 | unflagged data are at their time; data that all files hold are not flagged unless asked for; the flagged end fits; ends or is refused |
| `ScanPlacementShort` | one set with an offset, shorter than the header | violation | finding 2 |
| `ScanPlacementShifted` | two sets, one gpubox early in both | violation | finding 3 |
| `ScanPlacementMissing` | last gpubox missing | violation | finding 4 |
| `ShuffleRead` | 3 threads, calls of 6, 0 and 2 HDUs, 2 cells each | 62428 | one owner per buffer, no lane is written to when full, nothing lost or torn, `Read` returns |
| `BaselinePool` | 2 threads, 2 antennas, 2 chunks, 24 cablings, ten further observations | 173342 | once, exclusively, the right inputs with their gains, flagged, counted once, ends |
| `FlagFiles` | 3 gpuboxes, 3 baselines, 3 scans, coarse channels around 128, one and two bands | 4134 | a missing gpubox flags its subband; in the rows that a file holds, but its first one, the flags read are those written for the row |
| `FlagFilesFirstRow` | the same | violation | finding 5 |

Why the bounds are enough to be interesting.

* `ThreadedWriter`: two rows tell a lost row from a repeated one; with four calls
  a row, an `AddRows`, a row and the destructor meet in every order. The proofs
  remove the bound.
* `WriterStack`: for the order of rows, three antennas give one to six output baselines, so the
  counters wrap at different points; four scans give complete groups, leftovers and an averaging
  factor above the length. Left out: leftovers when (0,0) is not in the output
  (finding 1), and (0,0) as the only output baseline, where `IsTimeAligned` is a
  race: it is forwarded without a lock, so the answer depends on whether the
  thread has added the last row yet. For the contents, one or two bands of two
  subbands of two channels, contiguous or with a gap; flagged samples in one
  scan, in one channel and everywhere; numbers of solutions below, equal to
  and above the channels, and one that fits neither; a factor that leaves channels
  over, in a measurement set only (in a uvfits file the axis is then stretched,
  fitswriter.cpp:108). With `-apply` the factor divides the channels of a subband:
  otherwise the start of a later band is rounded down (cotter.cpp:262), which
  matters if there are more solutions than averaged channels. Every run meets
  the hypothesis of `ContentsAreAtFrequency` (section 5), and for each half of it
  there are 24 runs that it is about.
* `Lane`: calls longer than the capacity split up and wrap; two of each kind make
  it possible to wake the wrong one.
* `ScanPlacement`: chunks that need several sets, sets that need several
  chunks, a remainder of scans, more chunks than scans (one
  is then empty), files up to two scans apart. `SizeT` (256 for 2^64) is far above any count, so a
  wrap-around shows. Left out of the passing run: what findings 2 to 4 are
  about, an offset between gpuboxes in a set that is not the only one,
  `-noflagmissings` with a gpubox missing (its cells stay unflagged, as asked), and
  more scans for `-endflag` than the last chunk has data (section 6).
* `ShuffleRead`: `Read` is called at least once (`HDUsPerCall` is not empty);
  more HDUs than buffers, a call that reads none, and a second
  call with the lanes of the first.
* `BaselinePool`: two threads are enough for every pairwise race, three
  baselines enough for one thread to take two; the second chunk adds to the
  statistics of the first. The filter-bank table is 2 by 2 instead of four of 4 by 16; the
  operator is parameterised. `-i` comes with the wiring of the metafits file and
  other flags. Another wiring is left out, and so are flag files together with flagged
  antennas that are kept (`-flagfiles -noantennapruning`): section 6.
* `FlagFiles`: bands below, across and above coarse channel 128, starts that
  differ between the gpuboxes. With `-noalign` only one band and equal starts:
  `onHDUOffsetsChange` then hands over as many zeros as the band has subbands,
  which is indexed by gpubox. Left out of `FlagsReadBack` are the first row of a
  file (finding 5) and the scans before the offset of a file that starts early
  (section 6): no flag file holds their flags. The cells of a mask made without an initial value
  (cotter.cpp:473; aoflagger is external) start as no flag or as anything, the same in all cells of a run, which is
  enough for properties that look at one cell; only a row that is read
  replaces them.

Fairness. Every thread that runs in the code has weak fairness on the
disjunction of its steps: a thread that can go on does so. New calls of a client, spurious wakeups and
exceptions have none. A thread waiting for a `std::mutex` gets it when it stays
free, and every owner in these modules releases it for good at some time: the
writer thread and its client alternate, readers of a lane block on its condition,
baseline threads find their queue empty. `FlagFiles` has no liveness
property and no fairness.

## 4. Findings

1. `cotter.cpp:1389`: `writeAlignmentScans` asks baseline (0,0) only. When it is
   not in the output (antenna 0 flagged and pruned, or `-noautos`), the leftover
   scans of the last averaged sample are never written, against
   cotter.cpp:1393 and writer.h:80-82.
2. `gpufilereader.cpp:113`: "already past the end of the files" compares
   counters without the offsets, so a reader that has closed its files may open
   and read them again in the next chunk.
3. `gpufilereader.cpp:155`: in a second file set, a gpubox that starts early is
   placed over the data of the first set, one scan too early for the others.
4. `cotter.cpp:605`: with `-allowmissing` and the last gpubox missing,
   `createReader` reads past the end of the file set (main.cpp:88).
5. `flagwriter.cpp:144`: the first row of every flag file is never written, and
   `FlagReader` reads it (main.cpp:103).
The loss of finding 5 does not show in the output where `-initflag`, 4 seconds by
default, flags the same scan again.

## 5. Proofs

`ThreadedWriterProofs` proves, for any set of rows and any number of calls, of
the safety part of the specification (`Safety`, i.e. without fairness):

* `TypeCorrect`: `[]TypeOK`
* `CallsStayInOrder`: `[]CallsInOrder`
* `ParentCallsNeverOverlap`: `[]ParentCallsExclusive`
* `NoLostWakeup`: `[]NoMutualSleep`
* `DestructorDrains`: `[]DrainedWhenDestroyed`
* `ThreadedWriterRefinesSink`: `Safety` implies the safety part of `CallSink`.

Assumptions: `CallAssumption` (the mark of an `AddRows` call is not a row) and
`MaxCallsAssumption` (the bound is a natural number).

Argument. None of the invariants is inductive: whether the client may overwrite
the buffer depends on where the writer thread is in its loop, which
only the two flags tell it. `IndInv` adds that connection
(`FlagsFollowWriter`: `_isWriterReady` exactly while the thread waits,
`_isBufferReady` while it is in the parent), where the client is once it has
begun to destroy (`FinishingFollowsClient`), that a thread sleeps only while the
condition it waits for is false (`SleepIsJustified`, from which `NoMutualSleep`
follows), and the bound (`CallsBounded`). `InOrder` is `CallsInOrder` without
concatenation, which the provers cannot handle beside `Append`; a lemma shows them equivalent
in the direction needed. `IndInvNext` has one step per action. The refinement
maps `closed` to "destroyed"; each action is `Issue`, `Perform`, `Close` or a
stutter.

`LaneProofs` proves, for any capacity, sets of threads and lengths of calls:

* `TypeCorrect`: `[]TypeOK`
* `LaneIsFifo`: `[]Fifo`
* `EndComesLast`: `[]EndAfterLast`
* `NoNotificationMissed`: `[]NoMissedWakeup`
* `LaneImplementsQueue`: `Spec` implements `LaneQueue`, whose specification is a
  safety property, in full.

Assumption: `LaneAssumption` (positive capacity, no thread both reads and
writes). `Fifo` alone is not inductive: a step needs to know that the free space
counts what is stored and not taken, that a writer in a call excludes the end
(`Ending`), and which threads sleep. `Inv` adds these. `Contents` is `Fifo`
element by element; three lemmas about remainders (`DistanceOfPosition`,
`ReadPositionKept`, `ReadPositionMoved`) say where the j-th cell to be read lies
before and after a step, and so carry the wrap-around; `StoreKeepsContents` and
`FetchKeepsContents` use them for a turn of `write_generic` and of `read`, which
all four calls share. `Step` is both the inductive step and the refinement:
each action puts, takes, ends or leaves the queue alone.

`ShuffleReadProofs` proves, for any numbers of shuffle threads, calls of `Read`,
HDUs and cells:

* `TypeCorrect`: `[]TypeOK`
* `BuffersOwnedOnce`: `[]OwnedOnce`
* `EverythingShuffled`: `[]AllShuffled`
* `SendersNeverBlock`: `[]LanesHaveRoom`

Assumption: `ShuffleAssumption`. Ownership is inductive only with the place of
Cotter's thread in `Read` (`Phases`: it holds a buffer exactly while it fills
one, no thread or buffer is left over from the last call, no task is left when
a thread has gone). `AllShuffled` looks only at calls that have returned; during
a call each HDU read waits, is with a thread or has been copied (`Accounted`),
and what waits or is being copied still holds the HDU its task says and what has been
copied of it is right (`Filled`), which is where ownership comes in. When the
last thread has left, nothing waits and nobody holds a task, so all is copied.
`LanesHaveRoom` follows from ownership by the pigeonhole principle: a lane that lacks
the buffer in someone's hand is not full. There is one lemma per action.

`WriterStackProofs` proves, for any number of antennas, scans, averaging factor,
choice of flagged antennas and output baselines, both formats, with and without
solutions:

* `TypeCorrect`: `[]TypeOK`
* `RowsAreAveraged`: `[]TableAsAveraged`
* `AllocatedBeforePut`: `[]RowsAllocated`
* `AnswerDoesNotRace`: `[](FirstNotAlone => AnswerSettled)`
* `FilesAreComplete`: `[]Complete` where `FirstNotAlone`, `FirstOrMultiple`, and a run
  that writes no rows writes a measurement set.
* `ContentsAreAtFrequency`: `[](ChannelsFit => ContentsAtFrequency)`, also for any
  channels, subbands and bands, frequency averaging, bad samples and numbers of
  solutions.

Assumption: `RunAssumption`. The hypotheses name what the code leaves open:
`FirstNotAlone` excludes (0,0) as the only output baseline (the race of section
3), `FirstOrMultiple` is finding 1 (without (0,0) in the output no scans may be
left over), and a uvfits file for which no row is written does not get its
header. All three have runs on both sides of them. `ChannelsFit` says that the
channels of a uvfits file fill the groups of the averaging (otherwise its axis is
stretched, fitswriter.cpp:108), and that, if solutions are applied after averaging and there
are more of them than averaged channels, the channels before the band fill
groups too (otherwise the start of the band, rounded down at cotter.cpp:262, is
that of other solutions). TLC finds `ContentsAtFrequency` violated without
either. With fewer solutions than averaged channels the rounding does no harm, as the theorem
shows.

Argument. Each row on its way is described by its number: with `k` rows
issued by the client, the thread of the outer writer has handled `k` or `k - 1` of
them, so the sums of each baseline are those of the scans of its group up to the
handled row (`SumsAre`), the rows that have left the averaging are a prefix of the
rows of a single thread (`RowsAre`), and the rows allocated are N for each group
that `AddRows` was called for (`FileIs`). `IInv` also says where the client is
(`ClientIs`), what the two threads hold (`OuterIs`), and how far the alignment
scans have come (`EndIs`). That the next row out is the next of the file needs the
output baselines counted: `RowsPerTimescanIs` proves that the code's formula for
rowsPerTimescan is the number of output baselines, and `OrderIs` that each of them
has one place in the order. One lemma per action; the lemmas about groups of scans
(`SinceNext`, `GroupsNext`, `RowsOutNext`) use the division of `NumberProofs`.
`AnswerIsSettled` shows why the unlocked `IsTimeAligned` is safe: it asks about
the first baseline, and the row that may still be on its way is the last one.

For the contents, `CInv` says of each row, wherever it is, which samples it is
made of, with `IInv` saying which row and scans that is: the row that the outer thread holds is
Cotter's (`OuterHolds`), a buffer has the samples of the scans that it has summed, each
once, apart from the unflagged ones and their weight (`SumsHold`), a row below the
averaging has been averaged and corrected (`InnerHolds`, `TableHolds`). Why a weight:
FitsWriter writes flags as the sign of it, so an unflagged mean needs a positive one
(`FileCells`). `Lists(q, Y)` is what carries it: the sequence `q` has the
elements of the set `Y`, each once. Sequences are put together of such lists
(`FlattenLists`, `ListsConcat`), so a sum over channels and then over scans is a set of
places, a scan and a channel each, and that none is summed twice is that a scan is
not in the buffer it is added to (`SinceEarlier`). What `FlattenSeq` and `FoldSeq` come to is
found by induction over the length and, since the order in which `FoldSeq` takes
the elements is not determined, over sets (`FlattenIs`, `SummedAnyOrder`, `TotalIs`).

What is left is arithmetic, for the two questions of the property. Which channels
lie in the width that the file gives about its frequency: the mean of the frequencies
of a group of f channels is half way between the first and the last, so these
are the f of the group (`SinkChannels`, `FrequencyIs`, `CoveredIs`), in a
measurement set and, if no channel is left over, on the axis of a uvfits file.
And which channels a solution is for: whichever are more, the solution and the
channel that it is applied to overlap (`SolutionRange`, `SomeChannel`), also when
the channel was averaged in groups that begin elsewhere in the observation (`ExtentCovers`).

`ScanPlacementProofs` proves, for any number of gpuboxes, file sets, scans, chunks
and options:

* `TypeCorrect`: `[]TypeOK`, without a condition on the files
* `MissingWithinChunk`: `[](Regular /\ EndFits => MissingFits)`
* `KeptAtItsTime`: `[](Regular /\ EndFits /\ NoneKept => PlacedByTime)`
* `NothingLost`: `[](... => AllDataUsed)` where `Regular`, `EndFits`, `LastEven`, and
  `HeaderCovered` if `-endflag` is used.

Assumption: `PlacementAssumption`. The hypotheses say which observations the code
places right; they are conditions on the files and the options, which never change,
and every chunk processed in the passing run meets them. `Regular` is one of two
cases, with files far shorter than what a `size_t` holds (`Readable`). `Gapless`:
the gpuboxes start together in every set and the sets follow each other without a
break; in the last one some may be shorter, and the header may say anything.
`Covered`: one set, aligned, whose files start when they like but last to the end of
the header. Beyond them lie findings 2 (an offset and files that are too short) and 3
(an offset in a second set), and sets with a break between them, whose scans
the code places as if there were none. `EndFits`: `-endflag` asks for no more scans than the
last chunk has and has data for. `NoneKept`: the cells of a missing gpubox are
flagged, or none is missing. `LastEven`: some complete gpubox has no more HDUs in the
last set than any other.

Argument. `PlacedByTime` speaks of the end of a chunk; what carries it there is where
the reader is. As long as there are data, the time of the HDU that the reader comes
to next is that of the column to be filled next (`NextTime = Origin + NextScan`),
across chunks, file sets, and readers that are closed and not opened again; when there are none
left, all the files end before that column. `GaplessIs` and `CoveredIs` say this
with what a call of `Read` has done, `FilledIs` that the columns before it hold
their scans. `ReadCall` is the heart of both cases: one call fills the same number
of columns for every file, whatever the remainders modulo `SizeT`. In the case
`Covered` a single call fills each chunk, so nothing is left for `NextFileSet`;
that the reader stays open until the last chunk needs the chunks to be cut
before the end (`CutBefore`). `SetEnds` and `FileInSet` tie the sets to the files
of the command line: no file holds a scan after the last set's end.

`BaselinePoolProofs` first proves `ProductsArePlaced`, about `InputMapping`: for
any number of antennas and shape of the filter banks (`MappingAssumption`) and
any tile table in which every antenna has two inputs (`Typed`, `Wired`), the
product of two inputs ends up in the buffer of their antennas and polarizations,
in their order, or conjugated where the buffer is marked. The table of the
filter banks is a permutation (it transposes matrices, `PFBInjective`), and the
loops over the inputs of `initMapping` reach every buffer (`SourceOf`).

Then it proves, for any antennas, threads, chunks and observations:

* `TypeCorrect`: `[]TypeOK`
* `OneThreadPerBaseline`: `[]BaselineExclusive`
* `ResultIsSequential`: `[]AsBySingleThread`
* `CorrectedExactlyOnce`: `[]ProcessedOnce`
* `StatisticsCounted`: `[]StatisticsExact`, from `StatisticsNotRefused`
* `BadSamplesAreFlagged`: `[](KeptAreUnflagged => BadSamplesFlagged)`
* `StatisticsAsAsked`: `[]StatisticsExact`, and `BadSamplesFlaggedAsAsked`:
  `[]BadSamplesFlagged`, from what the command lines say
* `ProductsArePlacedAndCorrected`: `[]ProductsInPlace`, from `SameConnections`

Assumptions: `PoolAssumption` and `MappingAssumption`. `StatisticsNotRefused`:
no observation asks for statistics and refuses them too. `KeptAreUnflagged`: with
flag files no flagged antenna is kept. `SameConnections`: the file of `-i` connects
the inputs as the metafits file does. The last two are the limits of the run; section 6 says
what happens beyond them.
`StatisticsAsAsked` supposes of the arguments themselves that no `-nostats` comes
after a `-saveqs`, and `BadSamplesFlaggedAsAsked` that `-flagfiles` does not come with
`-noantennapruning` or a flag file as output; nothing else on the command line, and
no other order, matters. Such hypotheses are needed: `-saveqs x -nostats` collects and saves
nothing, and flag files leave a flagged antenna that is kept unflagged. They are
sufficient, not the weakest: a second `-saveqs` after the `-nostats` would mend it.

Argument. `BaselineExclusive` is not inductive: two threads exclude each other only
because a baseline is in the queue once. `QueuedOnce` says so (the baselines before
the one the loops are at have been queued, none twice, none that a thread has), and
`Discipline` where the mutex and the loops are. A baseline is `Pending`
until a thread has corrected it (flagged it, stored its flags); `ImagesAre`
and `FlagsAre` say that its image set and flags are as read as long as it is pending, and what a
single thread makes of them afterwards. `StatisticsAre` counts each baseline of
the chunks processed in exactly one place: the shared statistics or the
statistics of one thread that has not merged them yet. `Configured` carries the
tile table to the corrections, and `ProductsArePlaced` gives the inputs.
The options of `CommandLine` are a fold over the arguments: `OptionsAreTaken` turns it into
one step for each argument, `EffectIs` bounds what a step does, and
`OptionsAreJustified` traces what the options say back to the arguments.

`FlagFilesProofs` proves, for any numbers of scans, baselines, gpuboxes, coarse
channels and starts:

* `MissingBoxIsFlagged`: `[]MissingBoxFlagsItsSubband`
* `FlagsComeBack`: `[](Alignable => FlagsReadBack)`: in every row that a flag
  file holds, but its first one. It does not speak of the scans before a file's offset
  (section 6) and of the first row (finding 5)

Assumption: `FlagFilesAssumption`. `Alignable`: the files are aligned, or (`-noalign`) there is one
band and the files start together, which is when the zeros handed to the
writer fit.
The order of the subbands is its own inverse (`OrderInvolution`), so no two
subbands share a file; the bands follow each other and cover the subbands
(`BandsAre`, `BandsDisjoint`); offsets are not negative (`OffsetIs`). `IInv` then
says, for each band and subband, how many rows its file holds and which flags are
in them (`FilesAre`), and which flags have been read back (`ReadIs`).

The library's induction theorems have an operator as a parameter, which the
provers cannot instantiate. Where a proof needs induction over numbers, it takes
the least counterexample (`Bounded` and `CountsUp`) or cites `Inductive`, which does
so once and is about a set: one that has 0 and with m also m + 1 is `Nat`.

With TLC only:

* Everything under fairness: that calls return, that the programs end, and the
  fair part of `ImplementsCallSink`.
* The runs that find a property violated: they are counterexamples.

## 6. Not modelled, and limits

* Values: sums, weights, gains, statistics, RFI strategies, geometry.
* The arithmetic of solutions and reading their file; table and keyword output,
  UVW and dates; the text configuration files of `-a` and `-h`. Start times are
  absolute times, which no module has (cotter.cpp:396).
* What the code does wrong beyond the limits of a run (hazards with a note in
  PROJECT.json):
  - The flags of the first scans of a gpubox file that starts earlier than others,
    as many as its offset. `Read` winds the file forward (gpufilereader.cpp:158),
    so these scans have data in the output, and RFI detection flags them;
    `writeRow` drops the flags (flagwriter.cpp:144), `FlagReader::Read` leaves the
    scans out (flagreader.h:84), and their cells keep what was in the mask when
    it was made without an initial value (cotter.cpp:473). `-flagfiles` does not
    skip RFI detection there (main.cpp:103), it loses it, unless `-initflag` covers these
    scans. The model has all of it (`Writable`, `ReadRow`, `MakeFlagMask`);
    `FlagsReadBack` and `FlagsComeBack` do not speak of these scans.
  - With `-i` and a wiring that differs from the metafits file's (main.cpp:71): the maps from
    antennas to inputs are made before (mwaconfig.cpp:92), so corrections and
    flags are those of other inputs than the data's. The modules have both; the
    run and `ProductsArePlacedAndCorrected` suppose `SameConnections`.
  - With flag files, the mask of a flagged antenna that is kept is the flag
    file's alone (cotter.cpp:937), without missing scans, edges and `-endflag`:
    `KeptAreUnflagged`.
  - The scans to flag at the end are those missing plus those of `-endflag`
    (cotter.cpp:435), which may be more than the chunk has; the loop then starts
    before the mask (cotter.cpp:1322): `EndFits`.
* `swap`, `resize`, `size`, `empty` and the statistics of a lane, which Cotter
  does not use.
* In `InputMapping`, which of two stations a product conjugates is taken from
  the comments at gpufilereader.cpp:264 and 347: the files' format is external.
  The auto-correlation between an antenna's two polarizations is left out of
  `ProductsInPlace`: when the two inputs are in different stations of the file
  one of its two places is never filled.
* A constructor or allocation that throws, and errors of cfitsio and casacore.
* Memory: an access is a step on whole values; the data shared without a mutex
  (`_flagBuffers`, image sets, the writer's buffer) are checked for
  overlapping owners instead (`BaselineExclusive`, `OwnedOnce`,
  `ParentCallsExclusive`).

## 7. Plan

Done: `ThreadedWriter` and its proofs first, because every row passes through it
twice; then the stack above it, the lane and the shuffle threads that use it,
the placing of the scans, the pool, the flag files. Then what the rows hold
(`RowContents`): frequencies, averaging in frequency, solutions, both formats,
stacks without averaging; the text file of `-i` and the gains in `BaselinePool`;
the proofs about `ShuffleRead` and `Lane`, then about `BaselinePool`,
`InputMapping`, `WriterStack`, `FlagFiles` and `ScanPlacement`, and last about
`RowContents`. Each safety property that a passing run checks is a theorem, some with
hypotheses that section 5 explains.

Left, extending the model:

1. `WriterStack`: the race on `IsTimeAligned` when (0,0) is the only output
   baseline; uvfits files with channels left over.
2. `FlagFiles`: `-noalign` with several bands; both runs with `BaselinePool`'s
   decisions.
3. `ScanPlacement`: several bands, `_missingEndScans` that counts scans twice, a
   file wound forward past its end.
4. `InputMapping`: `-i` with another wiring, `ReadHeader`.
5. `ShuffleRead` composed with `Lane` itself instead of with the queue it
   implements.

Left, proving: what those extensions add; liveness is out of the provers' reach.
