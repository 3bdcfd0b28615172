--------------------------- MODULE MCWriterStack ---------------------------
(* Runs of Cotter for TLC, with three antennas.                             *)
EXTENDS WriterStack

FirstIsOutput(r) == ~r.removeAutos /\ (r.removeFlagged => 0 \notin r.flagged)

(* One subband of one channel, nothing flagged in it, no solutions. *)
Plain == [skipWriting |-> FALSE, output |-> "ms", freqAvg |-> 1, numbers |-> <<100>>, chPerSb |-> 1,
          sbStart |-> 0, sbEnd |-> 1, bad |-> {}, solutions |-> "none", nSolutionChannels |-> 1]

Control(flagged, removeFlagged, removeAutos, nScans, timeAvg) ==
  {[flagged |-> f, removeFlagged |-> rf, removeAutos |-> ra, nScans |-> n, timeAvg |-> t] @@ Plain :
     f \in flagged, rf \in removeFlagged, ra \in removeAutos, n \in nScans, t \in timeAvg}

(* Every observation length against every averaging factor, with and        *)
(* without pruning of flagged antennas and of auto-correlations, where the  *)
(* length is a multiple of the factor or baseline (0,0) is in the output,   *)
(* though not alone: what else the code needs is the subject of PrunedRuns. *)
AlignedRuns ==
  {r \in Control(SUBSET (0..2) \ {{0, 1, 2}}, BOOLEAN, BOOLEAN, 1..4, 1..3) :
     /\ r.nScans % r.timeAvg = 0 \/ FirstIsOutput(r)
     /\ ~(FirstIsOutput(r) /\ r.removeFlagged /\ r.flagged = {1, 2})}

(* Antennas 0 and 1; two subbands of two channels, in one band or in two     *)
(* with a gap; a sample, a channel or a scan is flagged in a row.            *)
Bands == {[numbers |-> <<100, 101>>, sbStart |-> 0, sbEnd |-> 2],
          [numbers |-> <<100, 105>>, sbStart |-> 0, sbEnd |-> 1],
          [numbers |-> <<100, 105>>, sbStart |-> 1, sbEnd |-> 2]}
BadSamples == {{}, {<<0, 1>>, <<1, 0>>}, {<<0, 0>>, <<1, 0>>}, {<<0, 0>>, <<0, 1>>, <<0, 2>>, <<0, 3>>}}

Content(bands, outputs, freqAvg, timeAvg, nScans, bad, solutions, nSol) ==
  {b @@ [output |-> o, freqAvg |-> f, timeAvg |-> t, nScans |-> n, bad |-> x,
         solutions |-> s, nSolutionChannels |-> k,
         chPerSb |-> 2, flagged |-> {2}, removeFlagged |-> TRUE, removeAutos |-> FALSE] @@ Plain :
     b \in bands, o \in outputs, f \in freqAvg, t \in timeAvg, n \in nScans, x \in bad,
     s \in solutions, k \in nSol}

(* Without solutions, every output; with solutions before or after the       *)
(* averaging, fewer, as many and more of them than channels, and numbers     *)
(* that do not fit; channels left over by the averaging; nothing written.    *)
ContentRuns ==
  Content(Bands, {"ms", "fits"}, {1, 2}, {1, 2}, {3}, BadSamples, {"none"}, {1})
  \union Content(Bands, {"ms"}, {1, 2}, {1, 2}, {2}, {{<<0, 1>>}}, {"before", "after"}, {1, 2, 3, 4, 8})
  \union Content({b \in Bands : b.sbEnd - b.sbStart = 2}, {"ms"}, {3}, {2}, {2}, {{<<0, 0>>}},
                {"none", "before"}, {4})
  \union {[r EXCEPT !.skipWriting = TRUE] : r \in Content(Bands, {"ms"}, {1}, {1, 2}, {2}, {{}}, {"none"}, {1})}

PassRuns == AlignedRuns \union ContentRuns

(* Lengths that are not a multiple, with antenna 0 flagged, which by        *)
(* default prunes its baselines, or with -noautos.                          *)
PrunedRuns ==
  Control({{0}}, {TRUE}, {FALSE}, {3}, {2}) \union Control({{}}, {TRUE}, {TRUE}, {3}, {2})
============================================================================
