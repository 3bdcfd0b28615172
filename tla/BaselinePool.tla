---------------------------- MODULE BaselinePool ----------------------------
(***************************************************************************)
(* The threads that process the baselines of a chunk (cotter.cpp:           *)
(* processOneContiguousBand from the reading of a chunk to its writing,      *)
(* baselineProcessThreadFunc, processBaseline).                             *)
(* The image sets are corrected in place, so a baseline must be processed   *)
(* exactly once; the threads' statistics end up in _statistics.             *)
(*                                                                         *)
(* A flag mask is the set of the reasons for which it has samples flagged:  *)
(*   "all" everything (_fullysetMask), "bad" flagBadCorrelatorSamples,      *)
(*   "file" a flag file, "rfi" the strategy.                                *)
(* What the image set of a baseline holds for two polarizations is the      *)
(* product ("of", see InputMapping), the pairs of inputs whose cable delays  *)
(* it has been corrected for and, for each subband of the band, the pairs    *)
(* of digital gains.                                                        *)
(***************************************************************************)
EXTENDS CommandLine, InputMapping

CONSTANTS ThreadCount, NChunks,
          Observations   \* considered: the table of tiles, the command line,
                         \* the lines of -i's file, whether the header has
                         \* gains for all inputs, the subbands of the band

ASSUME PoolAssumption ==
  /\ ThreadCount \in Nat \ {0} /\ NChunks \in Nat \ {0}
  /\ \A o \in Observations :
       /\ o.rows \in Seq(TileRow) /\ o.args \in Seq(Argument) /\ o.lines \in Seq(ConfigLine)
       /\ o.hasGlobalSubbandGains \in BOOLEAN
       /\ o.sbStart \in Nat /\ o.sbEnd \in Nat /\ o.sbStart < o.sbEnd

Threads == 1..ThreadCount
Baselines == {b \in Antennae \X Antennae : b[1] <= b[2]}
Products == Pols \X Pols

(* The loops over antenna1 and antenna2 = antenna1, ..., antennaCount-1.      *)
LoopEnd == <<NAntennae, NAntennae>>
NextInLoop(b) == IF b[2] + 1 < NAntennae THEN <<b[1], b[2] + 1>> ELSE <<b[1] + 1, b[1] + 1>>

Placeholder == {"placeholder"}
NoMask == {"none"}    \* not in _flagBuffers
Masks == SUBSET {"all", "bad", "file", "rfi", "placeholder", "none"}
Free == 0

(* Statistics: how often a baseline of a chunk was counted. *)
Counts == [1..NChunks -> [Baselines -> Nat]]
NoCounts == [c \in 1..NChunks |-> [b \in Baselines |-> 0]]
Plus(s, u) == [c \in 1..NChunks |-> [b \in Baselines |-> s[c][b] + u[c][b]]]
Counted(s, c, b) == [s EXCEPT ![c][b] = @ + 1]

VARIABLES
  opt,         \* the options: constant
  inputs,      \* MWAConfig::_inputs: constant
  antennaInputs,  \* _antennaXInputs and _antennaYInputs: constant
  pfbGains,    \* those of the inputs, per subband: constant
  band,        \* the subbands from _curSbStart to _curSbEnd: constant
  flagged,     \* _isAntennaFlaggedMap: constant
  pc,          \* Cotter's thread: "read", "queue", "join", "write", "done", "terminated"
  chunk,       \* from 1
  loop,        \* antenna1 and antenna2
  queue,       \* _baselinesToProcess
  images,      \* _imageSetBuffers
  isConjugated,  \* GPUFileReader::_isConjugated, the outputs for which it is set
  flagBuffers, \* _flagBuffers
  mutex,       \* owner of _mutex
  at,          \* program counter of the threads
  baseline,    \* the baseline of a thread: 0 or 1 elements
  mask,        \* its flag mask
  counts,      \* threadStatistics
  sawNone,     \* the thread found _statistics empty
  statistics   \* _statistics: 0 or 1 elements

settings == <<opt, inputs, antennaInputs, pfbGains, band, flagged>>
imageVars == <<images, isConjugated>>
threadVars == <<at, baseline, mask, counts, sawNone>>
vars == <<settings, pc, chunk, loop, queue, imageVars, flagBuffers, mutex, threadVars, statistics>>

(* A gain is known by what it is of: of a subband and of an input, of a       *)
(* subband for all inputs, or of nothing.                                    *)
SubbandGain(o, i, sb) ==
  IF ~Options(o.args).subbandGains THEN <<>>
  ELSE IF o.hasGlobalSubbandGains THEN <<sb>> ELSE <<sb, i>>

(* Cotter::Run up to the first band: the files are read and checked, the map  *)
(* from antennas to inputs is the metafits file's.                           *)
SetUpIs(o) ==
  LET tiles == ReadTiles(o.rows)
      overrides == Options(o.args).instrConfig
      valid == CheckSetup(tiles) /\ (overrides => Fits(o.lines))
  IN  /\ opt = Options(o.args)
      /\ inputs = IF overrides /\ Fits(o.lines) THEN ReadInputConfig(o.lines) ELSE tiles
      /\ antennaInputs = IF valid THEN AntennaInputs(tiles) ELSE <<>>
      /\ pfbGains = [i \in Outputs |-> [sb \in 0..(o.sbEnd - 1) |-> SubbandGain(o, i, sb)]]
      /\ band = [start |-> o.sbStart, end |-> o.sbEnd]
      /\ flagged = {a \in Antennae :
                     valid /\ IsAntennaFlagged(inputs, antennaInputs, opt.userFlagged, a)}
      /\ pc = IF valid /\ ~Refused(opt) THEN "read" ELSE "terminated"

Init ==
  /\ \E o \in Observations : SetUpIs(o)
  /\ chunk = 1 /\ loop = LoopEnd /\ queue = <<>>
  /\ images = [b \in Baselines |-> <<>>] /\ isConjugated = {}
  /\ flagBuffers = [b \in Baselines |-> NoMask]
  /\ mutex = Free
  /\ at = [t \in Threads |-> "returned"] /\ baseline = [t \in Threads |-> <<>>]
  /\ mask = [t \in Threads |-> {}] /\ counts = [t \in Threads |-> NoCounts]
  /\ sawNone = [t \in Threads |-> FALSE] /\ statistics = <<>>

-----------------------------------------------------------------------------
(* Cotter's thread. *)

Outs(b, p) == <<b[1] * 2 + p[1], b[2] * 2 + p[2]>>

(* The data of the chunk are in the image sets. *)
Read ==
  /\ pc = "read"
  /\ isConjugated' = {d \in {Outs(b, p) : b \in Baselines, p \in Products} :
                        IsConjugated(inputs, d)}
  /\ images' = [b \in Baselines |-> [p \in Products |->
                  [of |-> Shuffled(inputs, Outs(b, p)), delays |-> <<>>, gains |-> <<>>]]]
  /\ loop' = <<0, 0>>
  /\ pc' = "queue"
  /\ UNCHANGED <<settings, chunk, queue, flagBuffers, mutex, threadVars, statistics>>

(* The body of the loops: push the baseline, and emplace a placeholder.       *)
QueueBaseline ==
  /\ pc = "queue" /\ loop # LoopEnd
  /\ queue' = Append(queue, loop)
  /\ flagBuffers' = [flagBuffers EXCEPT ![loop] = IF @ = NoMask THEN Placeholder ELSE @]
  /\ loop' = NextInLoop(loop)
  /\ UNCHANGED <<settings, pc, chunk, imageVars, mutex, threadVars, statistics>>

(* The flags of the flag files, if there are, replace the placeholders; then  *)
(* the threads are started.                                                  *)
StartThreads ==
  /\ pc = "queue" /\ loop = LoopEnd
  /\ flagBuffers' = IF opt.flagFiles THEN [b \in Baselines |-> {"file"}] ELSE flagBuffers
  /\ at' = [t \in Threads |-> "start"]
  /\ pc' = "join"
  /\ UNCHANGED <<settings, chunk, loop, queue, imageVars, mutex, baseline, mask, counts, sawNone,
                 statistics>>

(* (Slip: only the first thread is waited for.)                              *)
JoinFirst ==
  /\ pc = "join" /\ at[1] = "returned"
  /\ pc' = "write"
  /\ UNCHANGED <<settings, chunk, loop, queue, imageVars, flagBuffers, mutex, threadVars, statistics>>

Join ==
  /\ pc = "join" /\ \A t \in Threads : at[t] = "returned"
  /\ pc' = "write"
  /\ UNCHANGED <<settings, chunk, loop, queue, imageVars, flagBuffers, mutex, threadVars, statistics>>

(* The chunk has been written; its flag masks are dropped. *)
Write ==
  /\ pc = "write"
  /\ flagBuffers' = [b \in Baselines |-> NoMask]
  /\ chunk' = chunk + 1
  /\ pc' = IF chunk < NChunks THEN "read" ELSE "done"
  /\ UNCHANGED <<settings, loop, queue, imageVars, mutex, threadVars, statistics>>

-----------------------------------------------------------------------------
(* A processing thread. *)
At(t, where) == at[t] = where /\ pc # "terminated"
Goto(t, where) == at' = [at EXCEPT ![t] = where]
Held(t) == baseline[t][1]

Start(t) ==
  /\ At(t, "start")
  /\ counts' = [counts EXCEPT ![t] = NoCounts]
  /\ Goto(t, "lock")
  /\ UNCHANGED <<settings, pc, chunk, loop, queue, imageVars, flagBuffers, mutex, baseline, mask,
                 sawNone, statistics>>

(* (Slip: the mutex is not waited for.) *)
LockNoWait(t) ==
  /\ At(t, "lock")
  /\ mutex' = t
  /\ Goto(t, IF queue # <<>> THEN "front" ELSE "merge")
  /\ UNCHANGED <<settings, pc, chunk, loop, queue, imageVars, flagBuffers, baseline, mask, counts,
                 sawNone, statistics>>

Lock(t) ==
  /\ At(t, "lock") /\ mutex = Free
  /\ mutex' = t
  /\ Goto(t, IF queue # <<>> THEN "front" ELSE "merge")
  /\ UNCHANGED <<settings, pc, chunk, loop, queue, imageVars, flagBuffers, baseline, mask, counts,
                 sawNone, statistics>>

TakeFront(t) ==
  /\ At(t, "front") /\ queue # <<>>
  /\ baseline' = [baseline EXCEPT ![t] = <<Head(queue)>>]
  /\ Goto(t, "pop")
  /\ UNCHANGED <<settings, pc, chunk, loop, queue, imageVars, flagBuffers, mutex, mask, counts, sawNone,
                 statistics>>

(* pop() and unlock(). *)
Pop(t) ==
  /\ At(t, "pop") /\ queue # <<>>
  /\ queue' = Tail(queue) /\ mutex' = Free
  /\ Goto(t, "correct")
  /\ UNCHANGED <<settings, pc, chunk, loop, imageVars, flagBuffers, baseline, mask, counts, sawNone,
                 statistics>>

(* Conjugation, cable delays, passband and gains, in the image set. *)
InputsOfProduct(b, p) ==
  <<antennaInputs[p[1]][b[1]], antennaInputs[p[2]][b[2]]>>

correctConjugated(image) ==
  [image EXCEPT !.of = Reverse(@),
                !.delays = [i \in DOMAIN image.delays |-> Reverse(image.delays[i])]]

correctCableLength(image, pair) == [image EXCEPT !.delays = Append(@, pair)]

(* Subband sb of the image set is sb + _curSbStart of the observation.        *)
GainsOf(pair) ==
  [sb \in 0..(band.end - band.start - 1) |->
     <<pfbGains[pair[1]][sb + band.start], pfbGains[pair[2]][sb + band.start]>>]

CorrectGains(image, pair) == [image EXCEPT !.gains = Append(@, GainsOf(pair))]

Corrected(image, b, p) ==
  LET ordered == IF Outs(b, p) \in isConjugated THEN correctConjugated(image) ELSE image
      delayed == IF opt.cableLength
                 THEN correctCableLength(ordered, InputsOfProduct(b, p)) ELSE ordered
  IN  CorrectGains(delayed, InputsOfProduct(b, p))

Correct(t) ==
  /\ At(t, "correct")
  /\ images' = [images EXCEPT ![Held(t)] =
                  [p \in Products |-> Corrected(images[Held(t)][p], Held(t), p)]]
  /\ Goto(t, "flag")
  /\ UNCHANGED <<settings, pc, chunk, loop, queue, isConjugated, flagBuffers, mutex, baseline, mask, counts,
                 sawNone, statistics>>

IsAuto(b) == b[1] = b[2]
SkipFlagging(b) ==
  \/ \E k \in {1, 2}, p \in Pols : inputs[antennaInputs[p][b[k]]].isFlagged
  \/ b[1] \in flagged \/ b[2] \in flagged

(* The flag mask before it is stored.  With flag files what they have is     *)
(* moved out of the map.                                                     *)
(* (Slip: the bad samples are added for cross-correlations only.)            *)
FlagMaskCrossOnly(b, stored) ==
  CASE SkipFlagging(b) -> IF opt.flagFiles THEN stored ELSE {"all"}
    [] opt.flagFiles /\ ~SkipFlagging(b) -> IF IsAuto(b) THEN {} ELSE stored \union {"bad"}
    [] OTHER -> IF IsAuto(b) THEN {} ELSE {"bad"} \union (IF opt.rfiDetection THEN {"rfi"} ELSE {})

FlagMask(b, stored) ==
  IF SkipFlagging(b)
  THEN IF opt.flagFiles THEN stored ELSE {"all"}
  ELSE {"bad"} \union (IF IsAuto(b) THEN {}
                       ELSE IF opt.flagFiles THEN stored
                       ELSE IF opt.rfiDetection THEN {"rfi"} ELSE {})

Flag(t) ==
  /\ At(t, "flag")
  /\ mask' = [mask EXCEPT ![t] = FlagMask(Held(t), flagBuffers[Held(t)])]
  /\ counts' = IF opt.collectStatistics
               THEN [counts EXCEPT ![t] = Counted(@, chunk, Held(t))] ELSE counts
  /\ Goto(t, "store")
  /\ UNCHANGED <<settings, pc, chunk, loop, queue, imageVars, flagBuffers, mutex, baseline, sawNone,
                 statistics>>

(* Auto-correlations are flagged only now, after their statistics. *)
Store(t) ==
  /\ At(t, "store")
  /\ flagBuffers' = [flagBuffers EXCEPT ![Held(t)] =
                       IF IsAuto(Held(t)) /\ opt.flagAutos THEN {"all"} ELSE mask[t]]
  /\ Goto(t, "lock")
  /\ UNCHANGED <<settings, pc, chunk, loop, queue, imageVars, mutex, baseline, mask, counts, sawNone,
                 statistics>>

(* The queue is empty and the mutex still locked: add the statistics to      *)
(* those of the threads before, or be the first.                             *)
FindStatistics(t) ==
  /\ At(t, "merge")
  /\ sawNone' = [sawNone EXCEPT ![t] = (statistics = <<>>)]
  /\ Goto(t, "add")
  /\ UNCHANGED <<settings, pc, chunk, loop, queue, imageVars, flagBuffers, mutex, baseline, mask, counts,
                 statistics>>

(* (Slips: the statistics replace the earlier ones; the mutex stays locked.) *)
AddStatisticsAnew(t) ==
  /\ At(t, "add")
  /\ statistics' = <<counts[t]>>
  /\ mutex' = Free /\ Goto(t, "returned")
  /\ UNCHANGED <<settings, pc, chunk, loop, queue, imageVars, flagBuffers, baseline, mask, counts, sawNone>>

AddStatisticsLocked(t) ==
  /\ At(t, "add")
  /\ statistics' = IF sawNone[t] THEN <<counts[t]>> ELSE <<Plus(statistics[1], counts[t])>>
  /\ Goto(t, "returned")
  /\ UNCHANGED <<settings, pc, chunk, loop, queue, imageVars, flagBuffers, mutex, baseline, mask, counts,
                 sawNone>>

AddStatistics(t) ==
  /\ At(t, "add")
  /\ statistics' = IF sawNone[t] THEN <<counts[t]>> ELSE <<Plus(statistics[1], counts[t])>>
  /\ mutex' = Free /\ Goto(t, "returned")
  /\ UNCHANGED <<settings, pc, chunk, loop, queue, imageVars, flagBuffers, baseline, mask, counts, sawNone>>

(* An exception while a baseline is processed terminates the program. *)
Throw(t) ==
  /\ at[t] \in {"start", "correct", "flag"} /\ pc = "join"
  /\ pc' = "terminated"
  /\ UNCHANGED <<settings, chunk, loop, queue, imageVars, flagBuffers, mutex, threadVars, statistics>>

-----------------------------------------------------------------------------
CotterStep == Read \/ QueueBaseline \/ StartThreads \/ Join \/ Write
Thread(t) == Start(t) \/ Lock(t) \/ TakeFront(t) \/ Pop(t) \/ Correct(t) \/ Flag(t) \/ Store(t)
             \/ FindStatistics(t) \/ AddStatistics(t)

Stopped == pc \in {"done", "terminated"} /\ UNCHANGED vars

Next == CotterStep \/ (\E t \in Threads : Thread(t) \/ Throw(t)) \/ Stopped

(* A thread that wants the mutex gets it at some time: it is released for     *)
(* good when the queue is empty, at the latest.                              *)
Spec == Init /\ [][Next]_vars
        /\ WF_vars(CotterStep) /\ \A t \in Threads : WF_vars(Thread(t))

-----------------------------------------------------------------------------
(* The types of the state; the mutex is owned by the thread that is between   *)
(* its lock and unlock, and by no other.                                     *)
StateOK ==
  /\ pc \in {"read", "queue", "join", "write", "done", "terminated"}
  /\ chunk \in 1..(NChunks + 1) /\ loop \in Baselines \union {LoopEnd}
  /\ queue \in Seq(Baselines) /\ flagBuffers \in [Baselines -> Masks]
  /\ mutex \in Threads \union {Free}
  /\ at \in [Threads -> {"start", "lock", "front", "pop", "correct", "flag", "store", "merge",
                        "add", "returned"}]
  /\ \A t \in Threads : at[t] \in {"front", "pop", "merge", "add"} <=> mutex = t
  /\ baseline \in [Threads -> Seq(Baselines)] /\ \A t \in Threads : Len(baseline[t]) <= 1
  /\ mask \in [Threads -> Masks] /\ counts \in [Threads -> Counts]
  /\ sawNone \in [Threads -> BOOLEAN]
  /\ statistics \in Seq(Counts) /\ Len(statistics) <= 1

(* An image set holds products of inputs of the observation, or nothing.     *)
ImagesOK ==
  pc \in {"join", "write"} =>
    \A b \in Baselines, p \in Products :
      images[b][p].of \in (Outputs \X Outputs) \union {NoProduct}

TypeOK == StateOK /\ ImagesOK

(* When the chunk is written every baseline has been corrected exactly once  *)
(* and no placeholder is left in its place in the map of flags.              *)
ProcessedOnce ==
  pc = "write" =>
    \A b \in Baselines : /\ \A p \in Products : Len(images[b][p].gains) = 1
                         /\ flagBuffers[b] # Placeholder

(* The digital gain of input i in subband sb, as metafits and -nosbgains     *)
(* would have it.                                                            *)
GainIsOf(gain, i, sb) ==
  IF opt.subbandGains THEN gain \in {<<sb>>, <<sb, i>>} ELSE gain = <<>>

(* What is written for a baseline and two polarizations is the product of    *)
(* the inputs that the metafits file or -i gives for them, the antenna with   *)
(* the lower number first, and was corrected for the cables and, in every    *)
(* subband, the gains of these inputs in this order.  An auto-correlation of  *)
(* the two polarizations is left out: the file holds it once only unless     *)
(* they share a station.                                                     *)
InputIs(i, a, p) == inputs[i].antenna = a /\ inputs[i].polarization = p

ProductsInPlace ==
  pc = "write" =>
    \A b \in Baselines, p \in Products :
      LET image == images[b][p] IN
      \E i, j \in Outputs :
        /\ InputIs(i, b[1], p[1]) /\ InputIs(j, b[2], p[2])
        /\ b[1] # b[2] \/ p[1] = p[2] => image.of = <<i, j>>
        /\ image.delays = IF opt.cableLength THEN << <<i, j>> >> ELSE <<>>
        /\ Len(image.gains) = 1
        /\ \A sb \in DOMAIN image.gains[1] :
             /\ GainIsOf(image.gains[1][sb][1], i, band.start + sb)
             /\ GainIsOf(image.gains[1][sb][2], j, band.start + sb)

(* No two threads work on a baseline, whose image set and place in the map    *)
(* they change without the mutex.                                            *)
Working(t) == at[t] \in {"correct", "flag", "store"}
BaselineExclusive ==
  \A t, u \in Threads :
    Working(t) /\ Working(u) /\ baseline[t] = baseline[u] => t = u

OutputBaseline(b) ==
  /\ opt.removeFlagged => b[1] \notin flagged /\ b[2] \notin flagged
  /\ opt.removeAutos => ~IsAuto(b)

(* The samples flagBadCorrelatorSamples knows to be bad (edge channels,       *)
(* missing gpuboxes, -initflag and -endflag, missing scans) are flagged in   *)
(* every baseline that is written.                                           *)
BadSamplesFlagged ==
  pc = "write" => \A b \in Baselines :
                     OutputBaseline(b) => flagBuffers[b] \intersect {"all", "bad"} # {}

(* The statistics that are written at the end, because -saveqs asked for     *)
(* them before or after the output file or by default, count every baseline  *)
(* of every chunk once.                                                      *)
StatisticsExact ==
  pc = "done" /\ (opt.collectStatistics \/ opt.saveStatistics) =>
    /\ statistics # <<>>
    /\ \A c \in 1..NChunks, b \in Baselines : statistics[1][c][b] = 1

(* -nostats after -saveqs, which contradict each other, is left out.         *)
StatisticsNotRefused ==
  \A o \in Observations : Options(o.args).saveStatistics => Options(o.args).collectStatistics

(* -i names the antennas and polarizations that the metafits file has for the *)
(* inputs: the map from antennas to inputs, made before -i is read, is then   *)
(* still right.                                                              *)
SameConnections ==
  \A o \in Observations :
    Options(o.args).instrConfig /\ Fits(o.lines) =>
      \A i \in Outputs :
        /\ ReadInputConfig(o.lines)[i].antenna = ReadTiles(o.rows)[i].antenna
        /\ ReadInputConfig(o.lines)[i].polarization = ReadTiles(o.rows)[i].polarization

(* Left out: flag files together with flagged antennas that are kept, whose   *)
(* baselines get the masks of the flag files and nothing else.               *)
KeptAreUnflagged == opt.flagFiles /\ ~opt.removeFlagged => flagged = {}

(* Every chunk gets written, unless an exception terminates the program. *)
Finishes == <>(pc \in {"done", "terminated"})
=============================================================================
