---------------------------- MODULE ScanPlacement ----------------------------
(***************************************************************************)
(* Where the scans of the gpubox files end up: the chunk loop of           *)
(* Cotter::processOneContiguousBand, with GPUFileReader::Read as it is      *)
(* called for one file set after the other (cotter.cpp, gpufilereader.cpp). *)
(*                                                                         *)
(* The data of a scan are the time at which it was taken, counted in scans  *)
(* since some epoch.  The file sets are those of module FileSets; a gpubox   *)
(* without a file in a set (an empty filename) is not in its "present".      *)
(* There is one contiguous band, so gpubox f has subband f.  How the threads *)
(* shuffle what Read reads is the subject of module ShuffleRead.            *)
(***************************************************************************)
EXTENDS FileSets

CONSTANTS Observations,  \* the observations considered: see ObservationType
          NoScan,        \* a cell of the buffers that holds no data
          ChPerSb,       \* channels per subband
          SizeT          \* 2^w: what a size_t wraps at

Files == Boxes           \* of a set, one per gpubox

ObservationType == [nScans : Nat \ {0},       \* of the header
                    maxScans : Nat \ {0},     \* maxScansPerPart
                    quackInit : Nat,          \* _quackInitSampleCount
                    quackEnd : Nat,           \* _quackEndSampleCount
                    edge : Nat,               \* _subbandEdgeFlagCount
                    flagSubbands : SUBSET Files,
                    flagDC : BOOLEAN, flagMissing : BOOLEAN, allowMissing : BOOLEAN,
                    doAlign : BOOLEAN,
                    firstHDU : {1, 2},        \* 1: offline format
                    sbStart : Nat \ {0},
                    files : Seq(FileType)]

ASSUME PlacementAssumption ==
  /\ SubbandCount \in Nat \ {0} /\ NoScan \notin Int
  /\ SizeT \in Nat \ {0} /\ ChPerSb \in Nat \ {0}
  /\ \A o \in Observations :
       o \in ObservationType /\ 2 * o.edge <= ChPerSb

VARIABLES
  obs,        \* the observation: constant
  fileSets,   \* _fileSets: constant once made
  pc,         \* "start", "chunk", "read", "more", "flag", "process", "done",
              \* "crashed", "refused"
  chunk,      \* chunkIndex
  buffer,     \* the image set buffers: per gpubox, per column of the chunk
  bufferPos,  \* columns filled
  set,        \* currentFileSetPtr
  reader,     \* the GPUFileReader of that set (at the end: of the last one)
  moreAvailable,  \* what Read returned
  firstScan,  \* dateFirstScanMJD: the time given to scan 0 in the output
  missing     \* _missingEndScans

given == <<obs, fileSets>>
vars == <<given, pc, chunk, buffer, bufferPos, set, reader, moreAvailable, firstScan, missing>>

PartCount == 1 + (obs.nScans \div obs.maxScans)
ChunkStart == (obs.nScans * chunk) \div PartCount
ChunkEnd == (obs.nScans * (chunk + 1)) \div PartCount
ScanCount == ChunkEnd - ChunkStart

NewReader == [isOpen |-> FALSE, opened |-> FALSE, currentHDU |-> 0, stopHDU |-> 0,
              offsets |-> [f \in Files |-> 0], startTime |-> NoScan]

Cleared == [f \in Files |-> [p \in 0..(ScanCount - 1) |-> NoScan]]

(* The file set the reader was made for.  The reader of the last set stays  *)
(* when there is no next one.                                               *)
CurrentSet == fileSets[IF set > Len(fileSets) THEN Len(fileSets) ELSE set]

(* createReader takes a file name for every subband; past the end of a set   *)
(* this is undefined: an empty name, or the end.                             *)
AfterCreateReader(fileSet, where) ==
  IF SetLength(fileSet) < SubbandCount THEN {where, "crashed"} ELSE {where}

Init ==
  /\ obs \in Observations /\ fileSets = <<>>
  /\ pc = "start" /\ chunk = 0
  /\ buffer = [f \in Files |-> <<>>] /\ bufferPos = 0
  /\ set = 1 /\ reader = NewReader /\ moreAvailable = FALSE
  /\ firstScan = NoScan /\ missing = 0

(* main groups the files, Cotter makes a reader for the first set. *)
Start ==
  /\ pc = "start" /\ Accepted(obs.files, obs.sbStart, obs.allowMissing)
  /\ fileSets' = GroupFiles(obs.files, obs.sbStart)
  /\ pc' \in AfterCreateReader(fileSets'[1], "chunk")
  /\ UNCHANGED <<obs, chunk, buffer, bufferPos, set, reader, moreAvailable, firstScan, missing>>

Refuse ==
  /\ pc = "start" /\ ~Accepted(obs.files, obs.sbStart, obs.allowMissing)
  /\ pc' = "refused"
  /\ UNCHANGED <<given, chunk, buffer, bufferPos, set, reader, moreAvailable, firstScan, missing>>

(* The chunk's buffers are emptied. *)
BeginChunk ==
  /\ pc = "chunk" /\ chunk < PartCount
  /\ buffer' = Cleared /\ bufferPos' = 0
  /\ pc' = "read"
  /\ UNCHANGED <<given, chunk, set, reader, moreAvailable, firstScan, missing>>

-----------------------------------------------------------------------------
(* GPUFileReader::Read *)

(* openFiles and findStopHDU: the latest start is the reader's start time,   *)
(* the offset of a file is how much earlier it starts.  A set without files   *)
(* (-allowmissing) has no start time, and nothing is left of it after a call. *)
LatestStart(s) == Max({s.start[f] : f \in s.present})
LeastHDUs(s) == Min({s.hdus[f] : f \in s.present})

Opened ==
  LET s == CurrentSet
      hasStartTime == s.present # {}
  IN  [isOpen |-> TRUE, opened |-> hasStartTime,
       currentHDU |-> obs.firstHDU,
       stopHDU |-> IF hasStartTime THEN LeastHDUs(s) ELSE 0,
       offsets |-> [f \in Files |-> IF f \in s.present THEN LatestStart(s) - s.start[f] ELSE 0],
       startTime |-> IF hasStartTime THEN LatestStart(s) ELSE NoScan]

(* The reader as the loop over the files sees it. *)
Ready == IF reader.isOpen THEN reader ELSE Opened

(* The column and the HDU at which Read starts with file f. *)
FileBufferPos(f) ==
  IF obs.doAlign /\ Ready.offsets[f] <= bufferPos
  THEN bufferPos - Ready.offsets[f]
  ELSE bufferPos

(* (Slip: a file that starts earlier is not wound forward.) *)
FileHDUUnaligned(f) == Ready.currentHDU

FileHDU(f) ==
  IF obs.doAlign /\ Ready.offsets[f] > bufferPos
  THEN Ready.currentHDU + Ready.offsets[f] - bufferPos
  ELSE Ready.currentHDU

(* HDUs of f placed by this call: up to the end of the file or the chunk. *)
Placed(f) ==
  LET left == CurrentSet.hdus[f] - FileHDU(f) + 1
      room == ScanCount - FileBufferPos(f)
  IN  IF left <= 0 THEN 0 ELSE Min({left, room})

(* The columns for which every file has data, as computed in size_t. *)
HDUsAvailable(f) == (CurrentSet.hdus[f] - FileHDU(f) + 1) % SizeT

(* (Slip: the end of the buffers is forgotten.) *)
EndingBufferPosOfFiles ==
  Min({(bufferPos + HDUsAvailable(f)) % SizeT : f \in CurrentSet.present})

EndingBufferPos ==
  Min({ScanCount} \union {(bufferPos + HDUsAvailable(f)) % SizeT : f \in CurrentSet.present})

ScanOf(f, hdu) == CurrentSet.start[f] + hdu - obs.firstHDU

PlacedIn(f) ==
  [p \in 0..(ScanCount - 1) |->
     IF f \in CurrentSet.present
        /\ p \in FileBufferPos(f)..(FileBufferPos(f) + Placed(f) - 1)
     THEN ScanOf(f, FileHDU(f) + p - FileBufferPos(f))
     ELSE buffer[f][p]]

(* Past the end of the files already. *)
ReadNothing ==
  /\ pc = "read" /\ reader.currentHDU > reader.stopHDU
  /\ moreAvailable' = FALSE
  /\ firstScan' = IF bufferPos = 0 /\ chunk = 0 /\ reader.opened
                  THEN reader.startTime ELSE firstScan
  /\ pc' = "more"
  /\ UNCHANGED <<given, chunk, buffer, bufferPos, set, reader, missing>>

(* closeFiles leaves _fitsHDUCounts as it is, so a reader that is opened     *)
(* again has the count of every file twice, and findStopHDU reads past the   *)
(* end of _filenames: it may crash; the minimum itself is the same whichever *)
(* of the repeated counts it takes into account.                             *)
Read ==
  /\ pc = "read" /\ reader.currentHDU <= reader.stopHDU
  /\ pc' \in IF reader.opened /\ ~reader.isOpen THEN {"more", "crashed"} ELSE {"more"}
  /\ LET more == \E f \in CurrentSet.present :
                    FileHDU(f) + Placed(f) <= CurrentSet.hdus[f]
     IN  /\ moreAvailable' = more
         /\ reader' = [Ready EXCEPT !.currentHDU = (@ + EndingBufferPos - bufferPos) % SizeT,
                                    !.isOpen = more]
  /\ buffer' = [f \in Files |-> PlacedIn(f)]
  /\ bufferPos' = EndingBufferPos
  /\ firstScan' = IF bufferPos = 0 /\ chunk = 0 /\ Ready.opened
                  THEN Ready.startTime ELSE firstScan
  /\ UNCHANGED <<given, chunk, set, missing>>

-----------------------------------------------------------------------------
(* The rest of the chunk loop. *)

(* Room left and the files of this set exhausted: go on with the next set.   *)
(* (Slip: at the last set the loop is not left.)                             *)
NextFileSetForever ==
  /\ pc = "more" /\ ~moreAvailable /\ bufferPos < ScanCount
  /\ set' = IF set <= Len(fileSets) THEN set + 1 ELSE set
  /\ pc' = IF set < Len(fileSets) \/ set > Len(fileSets) THEN "read" ELSE "flag"
  /\ reader' = IF set < Len(fileSets) THEN NewReader ELSE reader
  /\ UNCHANGED <<given, chunk, buffer, bufferPos, moreAvailable, firstScan, missing>>

(* (Slip: the last set is never reached.) *)
NextFileSetButLast ==
  /\ pc = "more" /\ ~moreAvailable /\ bufferPos < ScanCount
  /\ set' = IF set < Len(fileSets) THEN set + 1 ELSE set
  /\ pc' = IF set + 1 < Len(fileSets) THEN "read" ELSE "flag"
  /\ reader' = IF set + 1 < Len(fileSets) THEN NewReader ELSE reader
  /\ UNCHANGED <<given, chunk, buffer, bufferPos, moreAvailable, firstScan, missing>>

NextFileSet ==
  /\ pc = "more" /\ ~moreAvailable /\ bufferPos < ScanCount
  /\ set' = IF set <= Len(fileSets) THEN set + 1 ELSE set
  /\ pc' \in IF set < Len(fileSets) THEN AfterCreateReader(fileSets[set + 1], "read") ELSE {"flag"}
  /\ reader' = IF set < Len(fileSets) THEN NewReader ELSE reader
  /\ UNCHANGED <<given, chunk, buffer, bufferPos, moreAvailable, firstScan, missing>>

(* More in these files, or the chunk is full: stay with them. *)
KeepFileSet ==
  /\ pc = "more" /\ (moreAvailable \/ bufferPos >= ScanCount)
  /\ pc' = "flag"
  /\ UNCHANGED <<given, chunk, buffer, bufferPos, set, reader, moreAvailable, firstScan, missing>>

(* Columns without data, and those of the last scans of the observation that *)
(* -endflag asks for, are flagged at the end of the chunk.                   *)
(* (Slip: the first scan after the chunk is taken for its last one.)         *)
FlagMissingOneMore ==
  /\ pc = "flag"
  /\ missing' = (ScanCount - bufferPos)
                + (IF ChunkEnd + 1 + obs.quackEnd > obs.nScans
                   THEN ChunkEnd + 1 + obs.quackEnd - obs.nScans ELSE 0)
  /\ pc' = "process"
  /\ UNCHANGED <<given, chunk, buffer, bufferPos, set, reader, moreAvailable, firstScan>>

FlagMissing ==
  /\ pc = "flag"
  /\ missing' = (ScanCount - bufferPos)
                + (IF ChunkEnd + obs.quackEnd > obs.nScans
                   THEN ChunkEnd + obs.quackEnd - obs.nScans ELSE 0)
  /\ pc' = "process"
  /\ UNCHANGED <<given, chunk, buffer, bufferPos, set, reader, moreAvailable, firstScan>>

(* initializeSbOrder adds the subbands of missing gpuboxes to those of        *)
(* -flagsubband.                                                             *)
FlaggedSubbands ==
  obs.flagSubbands
  \union {f \in Files : obs.flagMissing /\ IsGPUBoxMissing(fileSets, f)}

Samples == Files \X (0..(ChPerSb - 1)) \X (0..(ScanCount - 1))

(* flagBadCorrelatorSamples: the samples that are flagged in every baseline.  *)
(* The last loop is counted in size_t, but starts where its pointer does: if  *)
(* that is before the row it flags the whole row, and what lies before it.   *)
BadSamples ==
  {s \in Samples :
     \/ s[2] < obs.edge \/ s[2] >= ChPerSb - obs.edge
     \/ obs.flagDC /\ s[2] = ChPerSb \div 2
     \/ s[1] \in FlaggedSubbands
     \/ obs.quackInit >= ChunkStart /\ s[3] < obs.quackInit - ChunkStart
     \/ s[3] >= ScanCount - missing}

(* The chunk is processed and written. *)
EndChunk ==
  /\ pc = "process"
  /\ chunk' = chunk + 1
  /\ pc' = IF chunk + 1 = PartCount THEN "done" ELSE "chunk"
  /\ UNCHANGED <<given, buffer, bufferPos, set, reader, moreAvailable, firstScan, missing>>

Stopped == pc \in {"done", "crashed", "refused"} /\ UNCHANGED vars

Next == \/ Start \/ Refuse \/ BeginChunk \/ ReadNothing \/ Read \/ NextFileSet \/ KeepFileSet
        \/ FlagMissing \/ EndChunk \/ Stopped

Spec == Init /\ [][Next]_vars /\ WF_vars(Next)

-----------------------------------------------------------------------------
(* The types of the state, and the columns filled stay within the chunk.     *)
TypeOK ==
  /\ pc \in {"start", "chunk", "read", "more", "flag", "process", "done", "crashed", "refused"}
  /\ chunk \in 0..PartCount /\ set \in 1..(Len(fileSets) + 1)
  /\ moreAvailable \in BOOLEAN /\ missing \in Nat
  /\ reader.currentHDU \in Nat /\ reader.stopHDU \in Nat
  /\ pc \in {"read", "more", "flag", "process"} => bufferPos \in 0..ScanCount

(* What is not flagged is what the output says it is: every gpubox's data    *)
(* in column p were taken at the time written for it.  This is what the      *)
(* alignment in Read (gpufilereader.cpp:152-161), the hand-over from one     *)
(* file set to the next and flagBadCorrelatorSamples must achieve together.  *)
PlacedByTime ==
  pc = "process" =>
    \A s \in Samples \ BadSamples : buffer[s[1]][s[3]] = firstScan + ChunkStart + s[3]

(* The files of a gpubox that is complete hold the scan of time t.           *)
HasScan(f, t) ==
  \E i \in DOMAIN obs.files :
    LET file == obs.files[i] IN
    BoxOf(file, obs.sbStart) = f /\ t \in file.start..(file.start + file.hdus - obs.firstHDU)

Complete == {f \in Files : ~IsGPUBoxMissing(fileSets, f)}

(* A scan that the files of all gpuboxes hold is flagged only if the options  *)
(* ask for it (-initflag, -endflag, -flagsubband and the channels at the     *)
(* edges and the centre): no chunk gives up before the last file set that    *)
(* has data for it, and the first and last scans are those of the            *)
(* observation.                                                              *)
AllDataUsed ==
  pc = "process" =>
    \A s \in BadSamples :
      LET scan == ChunkStart + s[3]
          held == \A f \in Complete : HasScan(f, firstScan + scan)
          asked == \/ scan < obs.quackInit \/ scan + obs.quackEnd >= obs.nScans
                   \/ s[2] < obs.edge \/ s[2] >= ChPerSb - obs.edge
                   \/ obs.flagDC /\ s[2] = ChPerSb \div 2
      IN  held /\ s[1] \in Complete \ obs.flagSubbands => asked

(* "Do not abort when not all GPU box files are available" (main.cpp:88): no  *)
(* gpubox that is missing stops the run.                                     *)
MissingTolerated == obs.allowMissing => pc # "crashed"

(* "If we are already past the end of the files, stop immediately"           *)
(* (gpufilereader.cpp:112): a reader that has closed its files because none   *)
(* has more data does not read them again in a later chunk.                   *)
ExhaustedReaderStops ==
  pc = "read" /\ reader.opened /\ ~reader.isOpen => reader.currentHDU > reader.stopHDU

(* flagBadCorrelatorSamples starts at column ScanCount - missing, which must *)
(* not be before the first one.                                              *)
MissingFits == pc = "process" => missing <= ScanCount

(* Whatever the file sets and the header say, the loops end and the          *)
(* observation is processed to its last chunk, unless it is refused.         *)
Finishes == <>(pc = "refused" \/ (pc = "done" /\ chunk = PartCount))
=============================================================================
