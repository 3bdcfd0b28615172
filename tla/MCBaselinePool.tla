--------------------------- MODULE MCBaselinePool ---------------------------
(* BaselinePool for TLC: two antennas (three baselines), two threads, two     *)
(* chunks, tables of tiles and command lines.  None has -nostats after        *)
(* -saveqs, which contradict each other.                                     *)
EXTENDS BaselinePool

Arg(p) == [param |-> p, format |-> "ms", antennae |-> {}]
Output(f) == [param |-> "o", format |-> f, antennae |-> {}]
FlagAntenna(a) == [param |-> "flagantenna", format |-> "ms", antennae |-> a]

(* Every way to connect four inputs to two antennas of two polarizations.    *)
Connections ==
  {c \in [Outputs -> Antennae \X {"X", "Y"}] : \A i, j \in Outputs : c[i] = c[j] => i = j}

Rows(c, flaggedInputs) ==
  [k \in 1..(2 * NAntennae) |->
     [input |-> k - 1, antenna |-> c[k - 1][1], pol |-> c[k - 1][2],
      flag |-> (k - 1) \in flaggedInputs]]

Pairwise == [i \in Outputs |-> <<i \div 2, IF i % 2 = 0 THEN "X" ELSE "Y">>]
Mixed == [i \in Outputs |-> <<(i + 1) % 2, IF i < 2 THEN "Y" ELSE "X">>]

Lines(c, flaggedInputs) ==
  [k \in 1..(2 * NAntennae) |->
     [antenna |-> c[k - 1][1], pol |-> c[k - 1][2], flag |-> (k - 1) \in flaggedInputs]]

(* An observation of one band with the inputs' own gains.                    *)
Observation(rows, args) ==
  [rows |-> rows, args |-> args, lines |-> <<>>, hasGlobalSubbandGains |-> FALSE,
   sbStart |-> 0, sbEnd |-> 1]

(* All connections with the default options; flagged antennas that are kept, *)
(* or flag files, but not both (the mask of such an antenna's baseline is    *)
(* then the flag file's alone, without the bad samples); the other formats;  *)
(* a command line that is refused and a table of tiles that is; a second     *)
(* band; -i with the connections of the metafits file and other flags (with  *)
(* other connections the corrections are those of the wrong inputs), and     *)
(* with a line too few.                                                      *)
PassObservations ==
  {Observation(Rows(c, {}), <<>>) : c \in Connections}
  \union
  {Observation(Rows(Pairwise, {1}),
               <<Arg("noantennapruning"), Arg("noflagautos"), Arg("nocablelength")>>),
   Observation(Rows(Mixed, {}),
               <<FlagAntenna({0}), Arg("norfi"), Arg("nostats"), Arg("noautos")>>),
   Observation(Rows(Mixed, {}),
               <<Arg("flagfiles"), Arg("nostats"), Arg("saveqs"), Output("mwaf")>>),
   Observation(Rows(Pairwise, {2}), <<Output("uvfits"), Arg("flagfiles"), Arg("saveqs")>>),
   Observation(Rows(Pairwise, {}), <<Output("mwaf"), Arg("noautos")>>),
   Observation(<<>>, <<>>),
   [Observation(Rows(Mixed, {}), <<Arg("i")>>)
      EXCEPT !.lines = Lines(Mixed, {3}), !.sbStart = 1, !.sbEnd = 3],
   [Observation(Rows(Mixed, {0}), <<Arg("i"), Arg("nosbgains")>>)
      EXCEPT !.lines = Lines(Mixed, {}), !.hasGlobalSubbandGains = TRUE],
   [Observation(Rows(Pairwise, {}), <<>>)
      EXCEPT !.hasGlobalSubbandGains = TRUE, !.sbStart = 1, !.sbEnd = 2],
   [Observation(Rows(Pairwise, {}), <<Arg("i")>>)
      EXCEPT !.lines = SubSeq(Lines(Pairwise, {}), 1, 3)]}

ASSUME PassAssumption == StatisticsNotRefused /\ SameConnections
=============================================================================
