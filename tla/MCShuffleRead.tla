---------------------------- MODULE MCShuffleRead ----------------------------
(* ShuffleRead for TLC: three calls of Read, one of which reads more HDUs     *)
(* than there are buffers and one of which reads none.                       *)
EXTENDS ShuffleRead
MCHDUsPerCall == <<6, 0, 2>>
=============================================================================
