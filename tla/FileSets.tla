------------------------------ MODULE FileSets ------------------------------
(***************************************************************************)
(* The gpubox files of the command line, "..._nn_mm.fits" with the number   *)
(* nn of the gpubox and the number mm of the time step, and how main.cpp    *)
(* groups them in sets: one per time step, in a set one place per gpubox.   *)
(* A file holds its HDUs, the first of them taken at "start".               *)
(***************************************************************************)
EXTENDS Integers, Sequences, FiniteSets, FiniteSetsExt

CONSTANT SubbandCount   \* -sbcount

Boxes == 1..SubbandCount

FileType == [number : Nat \ {0}, time : Nat, start : Nat, hdus : Nat]

(* The place of a file, counted from the gpubox of -sbstart. *)
BoxOf(file, sbStart) == file.number - sbStart + 1

LastTime(files) == Max({files[i].time : i \in DOMAIN files})

At(files, sbStart, t, b) ==
  {i \in DOMAIN files : files[i].time = t /\ BoxOf(files[i], sbStart) = b}

Missing(files, sbStart) ==
  \E t \in 0..LastTime(files), b \in Boxes : At(files, sbStart, t, b) = {}

(* The conditions under which Cotter starts at all. *)
Accepted(files, sbStart, allowMissing) ==
  /\ files # <<>>
  /\ \A i \in DOMAIN files : BoxOf(files[i], sbStart) \in Boxes
  /\ \A i, j \in DOMAIN files :
       /\ files[i].time = files[j].time
       /\ BoxOf(files[i], sbStart) = BoxOf(files[j], sbStart)
       => i = j
  /\ Missing(files, sbStart) => allowMissing

FileSet(files, sbStart, t) ==
  LET Here(b) == At(files, sbStart, t, b)
      present == {b \in Boxes : Here(b) # {}}
      file == [b \in present |-> files[Max(Here(b))]]
  IN  [present |-> present,
       start |-> [b \in Boxes |-> IF b \in present THEN file[b].start ELSE 0],
       hdus |-> [b \in Boxes |-> IF b \in present THEN file[b].hdus ELSE 0]]

(* The vector of sets; that of a set is as long as its highest gpubox.       *)
GroupFiles(files, sbStart) ==
  [t \in 1..(LastTime(files) + 1) |-> FileSet(files, sbStart, t - 1)]

SetLength(set) == IF set.present = {} THEN 0 ELSE Max(set.present)

(* Cotter::isGPUBoxMissing. *)
IsGPUBoxMissing(sets, b) == \E i \in DOMAIN sets : b \notin sets[i].present
=============================================================================
