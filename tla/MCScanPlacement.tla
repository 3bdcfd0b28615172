--------------------------- MODULE MCScanPlacement ---------------------------
(* Observations of two gpuboxes for ScanPlacement. *)
EXTENDS ScanPlacement, SequencesExt

(* The files of time step t of the gpuboxes in "present".                    *)
FilesOf(t, present, start, hdus, sbStart) ==
  [i \in 1..Len(present) |->
     [number |-> present[i] + sbStart - 1, time |-> t,
      start |-> start[present[i]], hdus |-> hdus[present[i]]]]

(* File sets of n[1], n[2], ... scans taken without a break from time 1 on;  *)
(* "present" also gives the order of the files on the command line.          *)
Contiguous(n, firstHDU, present, sbStart) ==
  FlattenSeq([i \in DOMAIN n |->
    FilesOf(i - 1, present,
            [f \in Files |-> 1 + FoldLeft(+, 0, SubSeq(n, 1, i - 1))],
            [f \in Files |-> n[i] + firstHDU - 1], sbStart)])

(* One set whose files start "early[f]" scans before time 3 and hold         *)
(* n[f] scans from time 3 on.                                                *)
OffsetSet(early, n, firstHDU) ==
  FilesOf(0, <<1, 2>>, [f \in Files |-> 3 - early[f]],
          [f \in Files |-> early[f] + n[f] + firstHDU - 1], 1)

Observation(n, m, firstHDU, files) ==
  [nScans |-> n, maxScans |-> m, firstHDU |-> firstHDU, files |-> files,
   quackInit |-> 0, quackEnd |-> 0, edge |-> 1, flagSubbands |-> {},
   flagDC |-> FALSE, flagMissing |-> TRUE, allowMissing |-> FALSE,
   doAlign |-> TRUE, sbStart |-> 1]

Splits == {<<1>>, <<3>>, <<1, 2>>, <<2, 1>>, <<2, 2>>, <<1, 1, 2>>, <<2, 3, 1>>}

(* Gpuboxes that start together: all chunkings, data shorter and longer than *)
(* the header says, the first gpubox missing.                                *)
Together ==
  {[Observation(n, m, h, Contiguous(s, h, p, 1)) EXCEPT
      !.doAlign = a, !.allowMissing = TRUE] :
     n \in 1..6, m \in 1..4, a \in BOOLEAN, h \in {1, 2}, s \in Splits,
     p \in {<<2>>, <<1, 2>>}}

(* A last set in which one gpubox lost its last scans. *)
Unequal ==
  {Observation(n, m, 1,
     FilesOf(0, <<1, 2>>, <<1, 1>>, <<2, 2>>, 1) \o FilesOf(1, <<1, 2>>, <<3, 3>>, <<k, 2>>, 1)) :
     n \in 3..6, m \in 2..4, k \in 1..3}

(* Gpuboxes that start at different times, in one set that covers the header.*)
Apart ==
  {Observation(n, m, h, OffsetSet(<<i, j>>, <<n, n>>, h)) :
     n \in 2..4, m \in 1..3, h \in {1, 2}, i \in 0..2, j \in 0..2}

(* Flagged scans at the start, in whichever chunk, and at the end, no more   *)
(* than the last chunk has.                                                  *)
EndsFlagged ==
  {[Observation(n, m, 1, Contiguous(<<3, n - 3>>, 1, <<2, 1>>, 1)) EXCEPT
      !.quackInit = i, !.quackEnd = q] :
     n \in 4..6, m \in 3..5, i \in 0..4, q \in 0..2}

(* Other gpuboxes than the first ones, a subband and the centre flagged. *)
Numbered ==
  {[Observation(n, 2, 1, Contiguous(s, 1, p, b)) EXCEPT
      !.sbStart = b, !.flagSubbands = g, !.flagDC = d, !.edge = e,
      !.allowMissing = TRUE, !.flagMissing = p = <<2>>] :
     n \in {3, 4}, s \in {<<1, 2>>, <<2, 2>>}, b \in {1, 3}, g \in SUBSET Files,
     d \in BOOLEAN, e \in 0..2, p \in {<<2>>, <<2, 1>>}}

(* Refused: a file given twice, one of no or of an unknown gpubox, one       *)
(* missing.                                                                  *)
RefusedFiles ==
  {[Observation(2, 2, 1, FilesOf(0, p, [f \in 1..3 |-> 1], [f \in 1..3 |-> 2], 1)) EXCEPT
      !.sbStart = b] :
     p \in {<<>>, <<1>>, <<2>>, <<1, 2>>, <<2, 1, 2>>, <<1, 2, 3>>}, b \in {1, 2}}

PassObservations ==
  Together \union Unequal \union Apart \union EndsFlagged \union Numbered \union RefusedFiles

(* One set with an offset and fewer scans than the header says. *)
ShortObservations ==
  {Observation(6, m, 2, OffsetSet(<<0, 1>>, <<4, 3>>, 2)) : m \in {2, 3}}

(* Two sets; in both, gpubox 2 starts one scan before gpubox 1. *)
ShiftedObservations ==
  {Observation(6, m, 2,
     FilesOf(0, <<1, 2>>, <<1, 0>>, <<4, 4>>, 1) \o FilesOf(1, <<1, 2>>, <<4, 3>>, <<5, 5>>, 1)) :
     m \in {4, 7}}

(* The last gpubox is missing. *)
MissingObservations ==
  {[Observation(n, m, 2, Contiguous(s, 2, <<1>>, 1)) EXCEPT !.allowMissing = TRUE] :
     n \in {3, 4}, m \in {2, 5}, s \in {<<3>>, <<2, 2>>}}
=============================================================================
