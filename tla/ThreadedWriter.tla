--------------------------- MODULE ThreadedWriter ---------------------------
(***************************************************************************)
(* ThreadedWriter (threadedwriter.cpp, threadedwriter.h): a Writer that    *)
(* runs WriteRow of its parent writer on a thread of its own.  The client  *)
(* leaves a row in a buffer of one place; the writer thread takes it to    *)
(* the parent outside the mutex.  AddRows runs the parent's AddRows on the *)
(* client's thread with the mutex held; the other calls are forwarded with *)
(* no lock at all (ForwardingWriter).  The destructor stops the thread and *)
(* joins it.                                                               *)
(*                                                                         *)
(* A critical section is one step, from the acquisition of _mutex to its   *)
(* release or to the next wait().  Only AddRows holds the mutex over       *)
(* several steps.  _bufferChangeCondition is the set of threads asleep in  *)
(* wait(): notify_all empties it, and a thread may also wake spuriously.   *)
(***************************************************************************)
EXTENDS Naturals, Sequences

CONSTANTS Rows,        \* the rows a client may write
          AddRowsCall, \* stands for a call of AddRows in the logs below
          MaxCalls     \* bound: calls of WriteRow and AddRows made by the client

ASSUME CallAssumption == AddRowsCall \notin Rows
ASSUME MaxCallsAssumption == MaxCalls \in Nat

VARIABLES
  clientPc,      \* where the client's thread is
  row,           \* the argument of the WriteRow the client is in
  writerPc,      \* where writerThreadFunc is
  isWriterReady, isBufferReady, isFinishing,  \* _isWriterReady, ...
  buffered,      \* the row in _bufferedTime, _bufferedData, ...
  asleep,        \* the threads asleep in _bufferChangeCondition.wait
  issued,        \* history: calls accepted from the client, in order
  performed      \* history: calls the parent has performed, in order

clientVars == <<clientPc, row>>
flagVars == <<isWriterReady, isBufferReady, isFinishing>>
vars == <<clientPc, row, writerPc, isWriterReady, isBufferReady, isFinishing,
          buffered, asleep, issued, performed>>

Threads == {"client", "writer"}
ClientPc == {"idle", "forwarding", "writeRow", "addRows", "inAddRows",
             "notifying", "joining", "destroyed"}
WriterPc == {"start", "waiting", "writing", "wrote", "exited"}

(* _mutex is held between steps only while AddRows runs the parent's AddRows. *)
MutexFree == clientPc # "inAddRows"

(* The condition that WriteRow and AddRows wait for.  (Slip: the buffer is   *)
(* not looked at.)                                                          *)
AcceptingReadyOnly == isWriterReady
Accepting == isWriterReady /\ ~isBufferReady

Init ==
  /\ clientPc = "idle" /\ row \in Rows
  /\ writerPc = "start"
  /\ isWriterReady = FALSE /\ isBufferReady = FALSE /\ isFinishing = FALSE
  /\ buffered \in Rows
  /\ asleep = {}
  /\ issued = <<>> /\ performed = <<>>

-----------------------------------------------------------------------------
(* The client: one thread, one call at a time. *)

(* WriteRow and AddRows are called. *)
CallWriteRow(r) ==
  /\ clientPc = "idle" /\ Len(issued) < MaxCalls
  /\ clientPc' = "writeRow" /\ row' = r
  /\ UNCHANGED <<writerPc, flagVars, buffered, asleep, issued, performed>>

CallAddRows ==
  /\ clientPc = "idle" /\ Len(issued) < MaxCalls
  /\ clientPc' = "addRows"
  /\ UNCHANGED <<row, writerPc, flagVars, buffered, asleep, issued, performed>>

(* The loop around wait() in WriteRow and AddRows. *)
ClientWaits ==
  /\ clientPc \in {"writeRow", "addRows"} /\ "client" \notin asleep
  /\ MutexFree /\ ~Accepting
  /\ asleep' = asleep \union {"client"}
  /\ UNCHANGED <<clientVars, writerPc, flagVars, buffered, issued, performed>>

WriteRow ==
  /\ clientPc = "writeRow" /\ "client" \notin asleep
  /\ MutexFree /\ Accepting
  /\ buffered' = row
  /\ isBufferReady' = TRUE
  /\ asleep' = {}
  /\ issued' = Append(issued, row)
  /\ clientPc' = "idle"
  /\ UNCHANGED <<row, writerPc, isWriterReady, isFinishing, performed>>

(* AddRows enters the parent's AddRows with the mutex held, and returns.     *)
(* (Slip: it does not wait for the writer thread.)                           *)
AddRowsBeginNoWait ==
  /\ clientPc = "addRows"
  /\ MutexFree
  /\ issued' = Append(issued, AddRowsCall)
  /\ clientPc' = "inAddRows"
  /\ UNCHANGED <<row, writerPc, flagVars, buffered, asleep, performed>>

AddRowsBegin ==
  /\ clientPc = "addRows" /\ "client" \notin asleep
  /\ MutexFree /\ Accepting
  /\ issued' = Append(issued, AddRowsCall)
  /\ clientPc' = "inAddRows"
  /\ UNCHANGED <<row, writerPc, flagVars, buffered, asleep, performed>>

AddRowsEnd ==
  /\ clientPc = "inAddRows"
  /\ performed' = Append(performed, AddRowsCall)
  /\ clientPc' = "idle"
  /\ UNCHANGED <<row, writerPc, flagVars, buffered, asleep, issued>>

(* Every other call goes straight to the parent, without the mutex.  So does *)
(* WriteBandInfo after it has allocated the arrays of the buffer: Cotter     *)
(* makes that call before any row, and the buffer here always has its arrays.*)
ForwardBegin ==
  /\ clientPc = "idle"
  /\ clientPc' = "forwarding"
  /\ UNCHANGED <<row, writerPc, flagVars, buffered, asleep, issued, performed>>

ForwardEnd ==
  /\ clientPc = "forwarding"
  /\ clientPc' = "idle"
  /\ UNCHANGED <<row, writerPc, flagVars, buffered, asleep, issued, performed>>

(* ~ThreadedWriter: the mutex is released before notify_all, then join. *)
Finish ==
  /\ clientPc = "idle" /\ MutexFree
  /\ isFinishing' = TRUE
  /\ clientPc' = "notifying"
  /\ UNCHANGED <<row, writerPc, isWriterReady, isBufferReady, buffered, asleep,
                 issued, performed>>

(* (Slip: no notify_all.) *)
FinishSilently ==
  /\ clientPc = "notifying"
  /\ clientPc' = "joining"
  /\ UNCHANGED <<row, writerPc, flagVars, buffered, asleep, issued, performed>>

NotifyFinish ==
  /\ clientPc = "notifying"
  /\ asleep' = {}
  /\ clientPc' = "joining"
  /\ UNCHANGED <<row, writerPc, flagVars, buffered, issued, performed>>

Join ==
  /\ clientPc = "joining" /\ writerPc = "exited"
  /\ clientPc' = "destroyed"
  /\ UNCHANGED <<row, writerPc, flagVars, buffered, asleep, issued, performed>>

-----------------------------------------------------------------------------
(* The writer thread, writerThreadFunc. *)

(* It gets the mutex, at its start or after a row, releases the buffer of   *)
(* that row and tests the condition of the outer loop.                      *)
(* (Slips: the buffer is not released; the client is not notified.)         *)
WriterReadyKeepsBuffer ==
  /\ writerPc \in {"start", "wrote"} /\ MutexFree /\ ~isFinishing
  /\ isWriterReady' = TRUE
  /\ asleep' = IF isBufferReady THEN {} ELSE {"writer"}
  /\ writerPc' = "waiting"
  /\ UNCHANGED <<clientVars, isBufferReady, isFinishing, buffered, issued, performed>>

WriterReadySilently ==
  /\ writerPc \in {"start", "wrote"} /\ MutexFree /\ ~isFinishing
  /\ isBufferReady' = (isBufferReady /\ writerPc = "start")
  /\ isWriterReady' = TRUE
  /\ asleep' = asleep \union {"writer"}
  /\ writerPc' = "waiting"
  /\ UNCHANGED <<clientVars, isFinishing, buffered, issued, performed>>

WriterReady ==
  /\ writerPc \in {"start", "wrote"} /\ MutexFree /\ ~isFinishing
  /\ isBufferReady' = (isBufferReady /\ writerPc = "start")
  /\ isWriterReady' = TRUE
  /\ asleep' = {"writer"}      \* notify_all, then wait()
  /\ writerPc' = "waiting"
  /\ UNCHANGED <<clientVars, isFinishing, buffered, issued, performed>>

WriterStops ==
  /\ writerPc \in {"start", "wrote"} /\ MutexFree /\ isFinishing
  /\ isBufferReady' = (isBufferReady /\ writerPc = "start")
  /\ writerPc' = "exited"
  /\ UNCHANGED <<clientVars, isWriterReady, isFinishing, buffered, asleep,
                 issued, performed>>

(* Awake in the inner loop: back to sleep, on to the row, or out. *)
WriterAwake == writerPc = "waiting" /\ "writer" \notin asleep /\ MutexFree

WriterWaits ==
  /\ WriterAwake /\ ~isBufferReady /\ ~isFinishing
  /\ asleep' = asleep \union {"writer"}
  /\ UNCHANGED <<clientVars, writerPc, flagVars, buffered, issued, performed>>

WriterTakes ==
  /\ WriterAwake /\ isBufferReady
  /\ isWriterReady' = FALSE
  /\ writerPc' = "writing"
  /\ UNCHANGED <<clientVars, isBufferReady, isFinishing, buffered, asleep,
                 issued, performed>>

WriterLeaves ==
  /\ WriterAwake /\ ~isBufferReady /\ isFinishing
  /\ isWriterReady' = FALSE
  /\ writerPc' = "exited"
  /\ UNCHANGED <<clientVars, isBufferReady, isFinishing, buffered, asleep,
                 issued, performed>>

(* The parent's WriteRow, outside the mutex, has read the buffer: returns. *)
ParentWriteRow ==
  /\ writerPc = "writing"
  /\ performed' = Append(performed, buffered)
  /\ writerPc' = "wrote"
  /\ UNCHANGED <<clientVars, flagVars, buffered, asleep, issued>>

SpuriousWakeup(t) ==
  /\ t \in asleep
  /\ asleep' = asleep \ {t}
  /\ UNCHANGED <<clientVars, writerPc, flagVars, buffered, issued, performed>>

Terminated == clientPc = "destroyed" /\ UNCHANGED vars

-----------------------------------------------------------------------------
ClientSteps == ClientWaits \/ WriteRow \/ AddRowsBegin \/ AddRowsEnd
               \/ ForwardEnd \/ NotifyFinish \/ Join
WriterSteps == WriterReady \/ WriterStops \/ WriterWaits \/ WriterTakes
               \/ WriterLeaves \/ ParentWriteRow
NewCall == CallAddRows \/ ForwardBegin \/ Finish
           \/ \E r \in Rows : CallWriteRow(r)

Next == ClientSteps \/ WriterSteps \/ NewCall \/ Terminated
        \/ \E t \in Threads : SpuriousWakeup(t)

Safety == Init /\ [][Next]_vars

(* Both threads are scheduled; no new call is owed, nor a spurious wakeup. *)
Spec == Safety /\ WF_vars(ClientSteps) /\ WF_vars(WriterSteps)

-----------------------------------------------------------------------------
(* The types of the state; no call is performed that was not accepted. *)
TypeOK ==
  /\ clientPc \in ClientPc /\ row \in Rows /\ writerPc \in WriterPc
  /\ isWriterReady \in BOOLEAN /\ isBufferReady \in BOOLEAN /\ isFinishing \in BOOLEAN
  /\ buffered \in Rows /\ asleep \in SUBSET Threads
  /\ issued \in Seq(Rows \union {AddRowsCall})
  /\ performed \in Seq(Rows \union {AddRowsCall})
  /\ Len(performed) <= Len(issued) /\ Len(issued) <= MaxCalls

(* The call accepted from the client that the parent has not finished. *)
Outstanding ==
  IF clientPc = "inAddRows" THEN <<AddRowsCall>>
  ELSE IF isBufferReady /\ writerPc # "wrote" THEN <<buffered>>
  ELSE <<>>

(* The parent sees the client's calls in order, none lost, repeated or      *)
(* altered: what it has performed followed by the call in the buffer (or by *)
(* the AddRows under way) is what the client issued.  A buffer overwritten  *)
(* while the parent reads it, or a row dropped at shutdown, would break it. *)
CallsInOrder == issued = performed \o Outstanding

(* The parent's AddRows never runs while the parent's WriteRow does: the    *)
(* parents (MSWriter, AveragingWriter) have no lock of their own.           *)
ParentCallsExclusive == ~(clientPc = "inAddRows" /\ writerPc \in {"writing", "wrote"})

(* The client and the writer thread never both sleep on the one condition   *)
(* variable: no wakeup is lost.                                             *)
NoMutualSleep == asleep # Threads

(* When the destructor returns the thread is gone and every accepted call   *)
(* has been performed, the last row included.                               *)
DrainedWhenDestroyed == clientPc = "destroyed" => writerPc = "exited" /\ performed = issued

(* A WriteRow or AddRows that was called returns, however slow the parent. *)
CallsReturn == clientPc \in {"writeRow", "addRows"} ~> clientPc = "idle"

(* A destructor that was entered ends: the thread sees _isFinishing though  *)
(* it is notified outside the mutex.                                        *)
DestructionEnds == isFinishing ~> clientPc = "destroyed"

(* The abstract specification, seen through the logs. *)
Sink == INSTANCE CallSink WITH Call <- Rows \union {AddRowsCall},
                               closed <- (clientPc = "destroyed")

(* A ThreadedWriter is a CallSink: every step is one of its steps or hidden,  *)
(* and an accepted call is eventually performed.                            *)
ImplementsCallSink == Sink!Spec
=============================================================================
