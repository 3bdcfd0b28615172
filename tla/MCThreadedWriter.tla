-------------------------- MODULE MCThreadedWriter --------------------------
(* ThreadedWriter for TLC: two different rows are enough to see a row lost,  *)
(* repeated, overwritten or out of order, and four calls fill and drain the  *)
(* buffer of one place several times before and after an AddRows.            *)
EXTENDS ThreadedWriter
=============================================================================
