------------------------------- MODULE MCLane -------------------------------
(* Lane for TLC: two writers and two readers, calls of one to three        *)
(* elements, a lane of two cells, so that the positions wrap, calls are      *)
(* split up, and both sides find the lane full and empty.                    *)
EXTENDS Lane
=============================================================================
