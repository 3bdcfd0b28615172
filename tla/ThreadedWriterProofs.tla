------------------------ MODULE ThreadedWriterProofs ------------------------
(***************************************************************************)
(* ThreadedWriter proved for any rows and any number of calls: its state   *)
(* is inductively consistent (IndInv), hence the calls reach the parent in *)
(* order, never two at a time, no wakeup is lost, destruction drains the   *)
(* buffer, and the whole implements the safety part of CallSink.           *)
(***************************************************************************)
EXTENDS ThreadedWriter, SequenceTheorems, TLAPS

(* CallsInOrder without concatenation: the provers handle Append directly. *)
InOrder ==
  \/ /\ clientPc = "inAddRows"
     /\ issued = Append(performed, AddRowsCall)
  \/ /\ clientPc # "inAddRows" /\ isBufferReady /\ writerPc # "wrote"
     /\ issued = Append(performed, buffered)
  \/ /\ clientPc # "inAddRows" /\ ~(isBufferReady /\ writerPc # "wrote")
     /\ issued = performed

(* The two flags follow the place of the writer thread in its loop: this is *)
(* what makes the test of the client exclude the parent's WriteRow.         *)
FlagsFollowWriter ==
  /\ isWriterReady <=> writerPc = "waiting"
  /\ writerPc \in {"writing", "wrote"} => isBufferReady
  /\ writerPc \in {"start", "exited"} => ~isBufferReady
  /\ clientPc = "inAddRows" => writerPc = "waiting" /\ ~isBufferReady

FinishingFollowsClient ==
  /\ isFinishing <=> clientPc \in {"notifying", "joining", "destroyed"}
  /\ writerPc = "exited" => isFinishing
  /\ clientPc = "destroyed" => writerPc = "exited"

(* A thread sleeps only while the condition it waits for is false. *)
SleepIsJustified ==
  /\ "writer" \in asleep => writerPc = "waiting" /\ ~isBufferReady
  /\ "client" \in asleep => clientPc \in {"writeRow", "addRows"} /\ ~Accepting

CallsBounded == clientPc \in {"writeRow", "addRows"} => Len(issued) < MaxCalls

IndInv ==
  /\ TypeOK
  /\ InOrder
  /\ FlagsFollowWriter
  /\ FinishingFollowsClient
  /\ SleepIsJustified
  /\ CallsBounded

-----------------------------------------------------------------------------
(* What Append does to the type and the length of a log. *)
LEMMA LogGrows ==
  ASSUME NEW S, NEW log \in Seq(S), NEW c \in S
  PROVE  /\ Append(log, c) \in Seq(S)
         /\ Len(Append(log, c)) = Len(log) + 1
         /\ Len(log) \in Nat
  BY AppendProperties, LenProperties

(* InOrder is CallsInOrder. *)
LEMMA InOrderIsCallsInOrder == TypeOK /\ InOrder => CallsInOrder
<1> SUFFICES ASSUME TypeOK, InOrder PROVE issued = performed \o Outstanding
  BY DEF CallsInOrder
<1> DEFINE C == Rows \union {AddRowsCall}
<1>1. performed \in Seq(C) /\ AddRowsCall \in C /\ buffered \in C
  BY DEF TypeOK
<1>2. performed \o <<>> = performed
  BY <1>1, ConcatEmptySeq
<1>3. \A c \in C : performed \o <<c>> = Append(performed, c)
  BY <1>1, AppendIsConcat
<1>4. CASE clientPc = "inAddRows"
  BY <1>1, <1>3, <1>4 DEF InOrder, Outstanding
<1>5. CASE clientPc # "inAddRows" /\ isBufferReady /\ writerPc # "wrote"
  BY <1>1, <1>3, <1>5 DEF InOrder, Outstanding
<1>6. CASE clientPc # "inAddRows" /\ ~(isBufferReady /\ writerPc # "wrote")
  BY <1>2, <1>6 DEF InOrder, Outstanding
<1> QED
  BY <1>4, <1>5, <1>6

LEMMA IndInvInit == Init => IndInv
<1> SUFFICES ASSUME Init PROVE IndInv
  OBVIOUS
<1>1. issued = <<>> /\ performed = <<>>
  BY DEF Init
<1>2. <<>> \in Seq(Rows \union {AddRowsCall}) /\ Len(<<>>) = 0
  BY EmptySeq
<1>3. /\ issued \in Seq(Rows \union {AddRowsCall})
      /\ performed \in Seq(Rows \union {AddRowsCall})
      /\ Len(performed) <= Len(issued) /\ Len(issued) <= MaxCalls
  BY <1>1, <1>2, MaxCallsAssumption
<1>4. TypeOK
  BY <1>3 DEF Init, TypeOK, ClientPc, WriterPc, Threads
<1> QED
  BY <1>1, <1>4 DEF IndInv, Init, InOrder, FlagsFollowWriter, FinishingFollowsClient,
              SleepIsJustified, CallsBounded

(* Every step keeps the inductive invariant. *)
LEMMA IndInvNext == IndInv /\ [Next]_vars => IndInv'
<1> SUFFICES ASSUME IndInv, [Next]_vars PROVE IndInv'
  OBVIOUS
<1> DEFINE C == Rows \union {AddRowsCall}
<1> USE DEF IndInv, TypeOK, InOrder, FlagsFollowWriter, FinishingFollowsClient,
            SleepIsJustified, CallsBounded, Accepting, MutexFree, ClientPc,
            WriterPc, Threads, clientVars, flagVars
<1>0. /\ \A c \in C : Append(issued, c) \in Seq(C) /\ Len(Append(issued, c)) = Len(issued) + 1
      /\ \A c \in C : Append(performed, c) \in Seq(C) /\ Len(Append(performed, c)) = Len(performed) + 1
      /\ Len(issued) \in Nat /\ Len(performed) \in Nat
      /\ AddRowsCall \in C /\ row \in C /\ buffered \in C
  BY LogGrows
<1>1. ASSUME NEW r \in Rows, CallWriteRow(r) PROVE IndInv'
  BY <1>1, <1>0 DEF CallWriteRow
<1>2. CASE CallAddRows
  BY <1>2, <1>0 DEF CallAddRows
<1>3. CASE ClientWaits
  BY <1>3, <1>0 DEF ClientWaits
<1>4. CASE WriteRow
  BY <1>4, <1>0, MaxCallsAssumption DEF WriteRow
<1>5. CASE AddRowsBegin
  BY <1>5, <1>0, MaxCallsAssumption DEF AddRowsBegin
<1>6. CASE AddRowsEnd
  BY <1>6, <1>0 DEF AddRowsEnd
<1>7. CASE ForwardBegin
  BY <1>7, <1>0 DEF ForwardBegin
<1>8. CASE ForwardEnd
  BY <1>8, <1>0 DEF ForwardEnd
<1>9. CASE Finish
  BY <1>9, <1>0 DEF Finish
<1>10. CASE NotifyFinish
  BY <1>10, <1>0 DEF NotifyFinish
<1>11. CASE Join
  BY <1>11, <1>0 DEF Join
<1>12. CASE WriterReady
  BY <1>12, <1>0 DEF WriterReady
<1>13. CASE WriterStops
  BY <1>13, <1>0 DEF WriterStops
<1>14. CASE WriterWaits
  BY <1>14, <1>0 DEF WriterWaits, WriterAwake
<1>15. CASE WriterTakes
  BY <1>15, <1>0 DEF WriterTakes, WriterAwake
<1>16. CASE WriterLeaves
  BY <1>16, <1>0 DEF WriterLeaves, WriterAwake
<1>17. CASE ParentWriteRow
  BY <1>17, <1>0 DEF ParentWriteRow
<1>18. ASSUME NEW t \in Threads, SpuriousWakeup(t) PROVE IndInv'
  BY <1>18, <1>0 DEF SpuriousWakeup
<1>19. CASE Terminated
  BY <1>19, <1>0 DEF Terminated, vars
<1>20. CASE UNCHANGED vars
  BY <1>20, <1>0 DEF vars
<1> QED
  BY <1>1, <1>2, <1>3, <1>4, <1>5, <1>6, <1>7, <1>8, <1>9, <1>10, <1>11, <1>12, <1>13, <1>14, <1>15, <1>16, <1>17, <1>18, <1>19, <1>20
     DEF Next, ClientSteps, WriterSteps, NewCall

LEMMA IndInvHolds == Safety => []IndInv
<1>1. Init => IndInv
  BY IndInvInit
<1>2. IndInv /\ [Next]_vars => IndInv'
  BY IndInvNext
<1> QED
  BY <1>1, <1>2, PTL DEF Safety

-----------------------------------------------------------------------------
(* Type correctness, for any rows and any number of calls. *)
THEOREM TypeCorrect == Safety => []TypeOK
<1>1. IndInv => TypeOK
  BY DEF IndInv
<1> QED
  BY <1>1, IndInvHolds, PTL

(* The parent sees the calls of the client in order, none lost or repeated: *)
(* what it has performed and the call in the buffer are what was issued.    *)
THEOREM CallsStayInOrder == Safety => []CallsInOrder
<1>1. IndInv => CallsInOrder
  BY InOrderIsCallsInOrder DEF IndInv
<1> QED
  BY <1>1, IndInvHolds, PTL

(* AddRows of the parent never overlaps WriteRow of the parent. *)
THEOREM ParentCallsNeverOverlap == Safety => []ParentCallsExclusive
<1>1. IndInv => ParentCallsExclusive
  BY DEF IndInv, FlagsFollowWriter, ParentCallsExclusive
<1> QED
  BY <1>1, IndInvHolds, PTL

(* The two threads never sleep at the same time on the condition variable. *)
THEOREM NoLostWakeup == Safety => []NoMutualSleep
<1>1. IndInv => NoMutualSleep
  BY DEF IndInv, TypeOK, FlagsFollowWriter, SleepIsJustified, NoMutualSleep, Accepting, Threads
<1> QED
  BY <1>1, IndInvHolds, PTL

(* When the destructor has returned, every accepted row has been written. *)
THEOREM DestructorDrains == Safety => []DrainedWhenDestroyed
<1>1. IndInv => DrainedWhenDestroyed
  BY DEF IndInv, InOrder, FlagsFollowWriter, FinishingFollowsClient, DrainedWhenDestroyed
<1> QED
  BY <1>1, IndInvHolds, PTL

-----------------------------------------------------------------------------
(* A log never equals itself with one more call. *)
LEMMA AppendDiffers ==
  ASSUME NEW S, NEW log \in Seq(S), NEW c \in S
  PROVE  Append(log, c) # log
  BY LogGrows

(* Every step of ThreadedWriter is a step of CallSink or leaves it alone. *)
LEMMA StepRefines == IndInv /\ IndInv' /\ [Next]_vars => [Sink!Next]_(Sink!vars)
<1> SUFFICES ASSUME IndInv, IndInv', [Next]_vars PROVE [Sink!Next]_(Sink!vars)
  OBVIOUS
<1> DEFINE C == Rows \union {AddRowsCall}
<1>0. /\ issued \in Seq(C) /\ performed \in Seq(C)
      /\ AddRowsCall \in C /\ row \in C /\ buffered \in C
  BY DEF IndInv, TypeOK
<1>1. CASE WriteRow
  <2>1. performed = issued /\ clientPc # "destroyed"
    BY <1>1 DEF WriteRow, Accepting, IndInv, InOrder
  <2>2. Sink!Issue(row)
    BY <1>1, <2>1 DEF WriteRow, Sink!Issue
  <2> QED
    BY <2>2, <1>0 DEF Sink!Next
<1>2. CASE AddRowsBegin
  <2>1. performed = issued /\ clientPc # "destroyed"
    BY <1>2 DEF AddRowsBegin, Accepting, IndInv, InOrder
  <2>2. Sink!Issue(AddRowsCall)
    BY <1>2, <2>1 DEF AddRowsBegin, Sink!Issue
  <2> QED
    BY <2>2, <1>0 DEF Sink!Next
<1>3. CASE AddRowsEnd
  <2>1. issued = Append(performed, AddRowsCall)
    BY <1>3 DEF AddRowsEnd, IndInv, InOrder
  <2>2. performed # issued
    BY <2>1, <1>0, AppendDiffers
  <2>3. Sink!Perform
    BY <1>3, <2>1, <2>2 DEF AddRowsEnd, Sink!Perform
  <2> QED
    BY <2>3 DEF Sink!Next
<1>4. CASE ParentWriteRow
  <2>1. issued = Append(performed, buffered)
    BY <1>4 DEF ParentWriteRow, IndInv, InOrder, FlagsFollowWriter
  <2>2. performed # issued
    BY <2>1, <1>0, AppendDiffers
  <2>3. Sink!Perform
    BY <1>4, <2>1, <2>2 DEF ParentWriteRow, clientVars, Sink!Perform
  <2> QED
    BY <2>3 DEF Sink!Next
<1>5. CASE Join
  <2>1. performed = issued
    BY <1>5 DEF Join, IndInv, InOrder, FlagsFollowWriter
  <2>2. Sink!Close
    BY <1>5, <2>1 DEF Join, Sink!Close
  <2> QED
    BY <2>2 DEF Sink!Next
<1>6. CASE UNCHANGED <<clientPc, issued, performed>>
  BY <1>6 DEF Sink!vars
<1>7. ASSUME clientPc # "destroyed", clientPc' # "destroyed", UNCHANGED <<issued, performed>>
      PROVE  [Sink!Next]_(Sink!vars)
  BY <1>7 DEF Sink!vars
<1>8. CASE NewCall \/ ForwardEnd \/ NotifyFinish
  BY <1>7, <1>8 DEF NewCall, CallAddRows, CallWriteRow, ForwardBegin, Finish, ForwardEnd, NotifyFinish
<1>9. CASE ClientWaits \/ WriterReady \/ WriterStops \/ WriterWaits \/ WriterTakes \/ WriterLeaves
  BY <1>6, <1>9 DEF ClientWaits, WriterReady, WriterStops, WriterWaits, WriterTakes,
       WriterLeaves, clientVars
<1>10. CASE (\E t \in Threads : SpuriousWakeup(t)) \/ Terminated \/ UNCHANGED vars
  BY <1>6, <1>10 DEF SpuriousWakeup, Terminated, vars, clientVars
<1> QED
  BY <1>1, <1>2, <1>3, <1>4, <1>5, <1>8, <1>9, <1>10 DEF Next, ClientSteps, WriterSteps

(* A ThreadedWriter implements the safety part of CallSink, whatever the    *)
(* rows and however many calls: the calls are performed one by one in the   *)
(* order in which they were accepted, and destruction waits for all.        *)
THEOREM ThreadedWriterRefinesSink == Safety => Sink!Safety
<1>1. Init => Sink!Init
  BY DEF Init, Sink!Init
<1>2. IndInv /\ IndInv' /\ [Next]_vars => [Sink!Next]_(Sink!vars)
  BY StepRefines
<1> QED
  BY <1>1, <1>2, IndInvHolds, PTL DEF Safety, Sink!Safety
=============================================================================
