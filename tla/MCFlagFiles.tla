----------------------------- MODULE MCFlagFiles -----------------------------
(* FlagFiles for TLC: three gpuboxes, with coarse channels below, across and  *)
(* above channel 128, in one band and in two, and files that start up to two *)
(* scans apart.                                                              *)
EXTENDS FlagFiles

Numbers == {<<100, 101, 102>>, <<127, 128, 129>>, <<128, 129, 130>>, <<130, 131, 132>>,
            <<100, 102, 103>>, <<127, 130, 131>>, <<131, 132, 140>>}

PassObservations ==
  [numbers : Numbers, start : [1..3 -> {5, 6}] \union {<<5, 7, 6>>}, doAlign : {TRUE}]
  \union [numbers : {<<127, 128, 129>>, <<131, 132, 133>>}, start : {<<5, 5, 5>>}, doAlign : {FALSE}]
=============================================================================
