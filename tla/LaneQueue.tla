----------------------------- MODULE LaneQueue -----------------------------
(***************************************************************************)
(* What a lane promises to its producers and consumers: a bounded FIFO     *)
(* queue with an end.  Elements come out in the order in which they went   *)
(* in, each one once; after the end nothing goes in.                       *)
(***************************************************************************)
EXTENDS Naturals, Sequences

CONSTANTS Element, Capacity

VARIABLES stored, \* every element that went in, in order
          taken,  \* every element that came out, in order
          ended   \* has the end been announced?

vars == <<stored, taken, ended>>

Init == stored = <<>> /\ taken = <<>> /\ ended = FALSE

(* Some elements go in, at once and next to each other. *)
Put ==
  /\ ~ended
  /\ \E k \in 1..(Capacity - (Len(stored) - Len(taken))) :
       \E batch \in [1..k -> Element] : stored' = stored \o batch
  /\ UNCHANGED <<taken, ended>>

Take ==
  /\ \E k \in 1..(Len(stored) - Len(taken)) :
       taken' = SubSeq(stored, 1, Len(taken) + k)
  /\ UNCHANGED <<stored, ended>>

End ==
  /\ ended' = TRUE
  /\ UNCHANGED <<stored, taken>>

Next == Put \/ Take \/ End

Spec == Init /\ [][Next]_vars
=============================================================================
