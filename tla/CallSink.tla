------------------------------ MODULE CallSink ------------------------------
(***************************************************************************)
(* What a Writer that hides another Writer behind a thread promises to its *)
(* client: the calls that it accepts (WriteRow of a row, AddRows) reach    *)
(* the wrapped writer one at a time, in the order in which the client made *)
(* them, none lost and none repeated, and its destruction ends only when   *)
(* all of them have been performed.  At most one accepted call is          *)
(* outstanding.  ThreadedWriter is shown to implement this module.         *)
(***************************************************************************)
EXTENDS Sequences

CONSTANT Call      \* the calls a client can make

VARIABLES issued,    \* the calls accepted so far, in order
          performed, \* the calls the wrapped writer has performed, in order
          closed     \* has the writer been destroyed?

vars == <<issued, performed, closed>>

Init == issued = <<>> /\ performed = <<>> /\ closed = FALSE

Issue(c) ==
  /\ ~closed
  /\ performed = issued
  /\ issued' = Append(issued, c)
  /\ UNCHANGED <<performed, closed>>

Perform ==
  /\ performed # issued
  /\ performed' = issued
  /\ UNCHANGED <<issued, closed>>

Close ==
  /\ ~closed
  /\ performed = issued
  /\ closed' = TRUE
  /\ UNCHANGED <<issued, performed>>

Next == Perform \/ Close \/ \E c \in Call : Issue(c)

Safety == Init /\ [][Next]_vars

Spec == Safety /\ WF_vars(Perform)
=============================================================================
