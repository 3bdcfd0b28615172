----------------------------- MODULE ShuffleRead -----------------------------
(***************************************************************************)
(* The threads of GPUFileReader::Read (gpufilereader.cpp): Cotter's thread  *)
(* reads HDU after HDU into matrix buffers, _threadCount shuffle threads    *)
(* copy them to the baseline buffers.  Two lanes connect them: tasks on     *)
(* their way to the shuffle threads, and buffers that are free again.       *)
(*                                                                         *)
(* A lane is a bounded queue: what module Lane implements.  The HDUs of a   *)
(* call are numbered, and each has cells of its own in the baseline buffers *)
(* (its gpubox and its column: module ScanPlacement); a shuffle thread      *)
(* writes them one after the other.                                        *)
(***************************************************************************)
EXTENDS Naturals, Sequences, FiniteSets

CONSTANTS ThreadCount,  \* _threadCount: shuffle threads, buffers, lane capacity
          HDUsPerCall,  \* per call of Read, the number of HDUs it reads
          NCells        \* cells an HDU is copied to

ASSUME ShuffleAssumption ==
  /\ ThreadCount \in Nat \ {0} /\ NCells \in Nat \ {0}
  /\ HDUsPerCall \in Seq(Nat) \ {<<>>}

Threads == 1..ThreadCount     \* thread i and buffer i are made together
Buffers == 1..ThreadCount
NCalls == Len(HDUsPerCall)

NoMatrix == <<0, 0>>    \* not (or not wholly) filled, or no longer allocated

VARIABLES
  pc,         \* Cotter's thread: "start", "spawn", "take", "fill", "join",
              \* "done", "terminated"
  call,       \* the call of Read, from 1
  hdu,        \* the HDU to be read next
  held,       \* the buffer Cotter's thread holds: 0 or 1 elements
  available,  \* lane _availableGPUMatrixBuffers
  tasks,      \* lane _shuffleTasks: [hdu, buffer]
  tasksEnd,   \* write_end called
  matrix,     \* contents of the buffers
  running,    \* shuffle threads started and not returned
  task,       \* the task of a shuffle thread: 0 or 1 elements
  copied,     \* cells of its task a shuffle thread has written
  out         \* the baseline buffers: what the cells of an HDU hold

workerVars == <<running, task, copied, out>>
vars == <<pc, call, hdu, held, available, tasks, tasksEnd, matrix, running, task, copied, out>>

NHDUs == HDUsPerCall[call]

Init ==
  /\ pc = "start" /\ call = 1 /\ hdu = 1 /\ held = <<>>
  /\ available = <<>> /\ tasks = <<>> /\ tasksEnd = FALSE
  /\ matrix = [b \in Buffers |-> NoMatrix]
  /\ running = {} /\ task = [t \in Threads |-> <<>>] /\ copied = [t \in Threads |-> 0]
  /\ out = [c \in 1..NCalls |-> [i \in 1..HDUsPerCall[c] |-> [k \in 1..NCells |-> NoMatrix]]]

-----------------------------------------------------------------------------
(* Cotter's thread. *)

(* Both lanes are emptied and reopened, the buffers are new.                 *)
(* (Slip: the lane of the buffers keeps those of the previous call.)         *)
StartUncleared ==
  /\ pc = "start"
  /\ tasks' = <<>> /\ tasksEnd' = FALSE
  /\ matrix' = [b \in Buffers |-> NoMatrix]
  /\ hdu' = 1 /\ pc' = "spawn"
  /\ UNCHANGED <<call, held, available, running, task, copied, out>>

Start ==
  /\ pc = "start"
  /\ available' = <<>> /\ tasks' = <<>> /\ tasksEnd' = FALSE
  /\ matrix' = [b \in Buffers |-> NoMatrix]
  /\ hdu' = 1 /\ pc' = "spawn"
  /\ UNCHANGED <<call, held, running, task, copied, out>>

(* The next buffer is made available and its thread started. *)
Spawn(t) ==
  /\ pc = "spawn" /\ t \notin running /\ 1..(t - 1) \subseteq running
  /\ Len(available) < ThreadCount
  /\ available' = Append(available, t)
  /\ running' = running \union {t}
  /\ pc' = IF t < ThreadCount THEN "spawn" ELSE "take"
  /\ UNCHANGED <<call, hdu, held, tasks, tasksEnd, matrix, task, copied, out>>

(* fits_read_img starts to overwrite the buffer taken.                       *)
(* (Slip: one HDU more is read than there is.)                               *)
TakeBufferOneMore ==
  /\ pc = "take" /\ hdu <= NHDUs + 1 /\ available # <<>>
  /\ held' = <<Head(available)>> /\ available' = Tail(available)
  /\ matrix' = [matrix EXCEPT ![Head(available)] = NoMatrix]
  /\ pc' = "fill"
  /\ UNCHANGED <<call, hdu, tasks, tasksEnd, workerVars>>

TakeBuffer ==
  /\ pc = "take" /\ hdu <= NHDUs /\ available # <<>>
  /\ held' = <<Head(available)>> /\ available' = Tail(available)
  /\ matrix' = [matrix EXCEPT ![Head(available)] = NoMatrix]
  /\ pc' = "fill"
  /\ UNCHANGED <<call, hdu, tasks, tasksEnd, workerVars>>

(* ... has filled it, and it is handed to the shuffle threads.               *)
PostTask ==
  /\ pc = "fill" /\ Len(tasks) < ThreadCount
  /\ matrix' = [matrix EXCEPT ![held[1]] = <<call, hdu>>]
  /\ tasks' = Append(tasks, [hdu |-> hdu, buffer |-> held[1]])
  /\ held' = <<>> /\ hdu' = hdu + 1 /\ pc' = "take"
  /\ UNCHANGED <<call, available, tasksEnd, workerVars>>

(* An HDU is not of the expected form, or cannot be read: the exception      *)
(* leaves Read while its threads are joinable, and the program terminates.   *)
Throw ==
  /\ pc \in {"take", "fill"} /\ hdu <= NHDUs
  /\ pc' = "terminated"
  /\ UNCHANGED <<call, hdu, held, available, tasks, tasksEnd, matrix, workerVars>>

WriteEnd ==
  /\ pc = "take" /\ hdu > NHDUs
  /\ tasksEnd' = TRUE /\ pc' = "join"
  /\ UNCHANGED <<call, hdu, held, available, tasks, matrix, workerVars>>

(* All threads joined: Read returns and its buffers are freed.               *)
(* (Slip: the threads are not waited for.)                                   *)
ReturnUnjoined ==
  /\ pc = "join"
  /\ matrix' = [b \in Buffers |-> NoMatrix]
  /\ call' = call + 1
  /\ pc' = IF call < NCalls THEN "start" ELSE "done"
  /\ UNCHANGED <<hdu, held, available, tasks, tasksEnd, workerVars>>

Return ==
  /\ pc = "join" /\ running = {}
  /\ matrix' = [b \in Buffers |-> NoMatrix]
  /\ call' = call + 1
  /\ pc' = IF call < NCalls THEN "start" ELSE "done"
  /\ UNCHANGED <<hdu, held, available, tasks, tasksEnd, workerVars>>

-----------------------------------------------------------------------------
(* A shuffle thread. *)
Alive(t) == t \in running /\ pc # "terminated"

(* (Slip: the buffer is given back before it is copied.)                     *)
GetTaskReturnBuffer(t) ==
  /\ Alive(t) /\ task[t] = <<>> /\ tasks # <<>>
  /\ task' = [task EXCEPT ![t] = <<Head(tasks)>>] /\ tasks' = Tail(tasks)
  /\ copied' = [copied EXCEPT ![t] = 0]
  /\ available' = Append(available, Head(tasks).buffer)
  /\ UNCHANGED <<pc, call, hdu, held, tasksEnd, matrix, running, out>>

GetTask(t) ==
  /\ Alive(t) /\ task[t] = <<>> /\ tasks # <<>>
  /\ task' = [task EXCEPT ![t] = <<Head(tasks)>>] /\ tasks' = Tail(tasks)
  /\ copied' = [copied EXCEPT ![t] = 0]
  /\ UNCHANGED <<pc, call, hdu, held, available, tasksEnd, matrix, running, out>>

(* shuffleBuffer: the next cell. *)
Shuffle(t) ==
  /\ Alive(t) /\ task[t] # <<>> /\ copied[t] < NCells
  /\ copied' = [copied EXCEPT ![t] = @ + 1]
  /\ out' = [out EXCEPT ![call][task[t][1].hdu][copied[t] + 1] = matrix[task[t][1].buffer]]
  /\ UNCHANGED <<pc, call, hdu, held, available, tasks, tasksEnd, matrix, running, task>>

ReturnBuffer(t) ==
  /\ Alive(t) /\ task[t] # <<>> /\ copied[t] = NCells
  /\ Len(available) < ThreadCount
  /\ available' = Append(available, task[t][1].buffer)
  /\ task' = [task EXCEPT ![t] = <<>>]
  /\ UNCHANGED <<pc, call, hdu, held, tasks, tasksEnd, matrix, running, copied, out>>

Exit(t) ==
  /\ Alive(t) /\ task[t] = <<>> /\ tasks = <<>> /\ tasksEnd
  /\ running' = running \ {t}
  /\ UNCHANGED <<pc, call, hdu, held, available, tasks, tasksEnd, matrix, task, copied, out>>

-----------------------------------------------------------------------------
CotterStep == Start \/ (\E t \in Threads : Spawn(t)) \/ TakeBuffer \/ PostTask
              \/ WriteEnd \/ Return
Worker(t) == GetTask(t) \/ Shuffle(t) \/ ReturnBuffer(t) \/ Exit(t)

Stopped == pc \in {"done", "terminated"} /\ UNCHANGED vars

Next == CotterStep \/ Throw \/ (\E t \in Threads : Worker(t)) \/ Stopped

Spec == Init /\ [][Next]_vars
        /\ WF_vars(CotterStep) /\ \A t \in Threads : WF_vars(Worker(t))

-----------------------------------------------------------------------------
Task == [hdu : Nat, buffer : Buffers]

(* The types of the state, and the numbers of calls and HDUs stay in range.  *)
TypeOK ==
  /\ pc \in {"start", "spawn", "take", "fill", "join", "done", "terminated"}
  /\ call \in 1..(NCalls + 1) /\ tasksEnd \in BOOLEAN
  /\ pc \notin {"start", "done"} => hdu \in 1..(NHDUs + 1)
  /\ Len(held) <= 1 /\ held \in Seq(Buffers)
  /\ available \in Seq(Buffers) /\ Len(available) <= ThreadCount
  /\ tasks \in Seq(Task) /\ Len(tasks) <= ThreadCount
  /\ running \subseteq Threads
  /\ \A t \in Threads : task[t] \in Seq(Task) /\ Len(task[t]) <= 1

(* Where a buffer can be. *)
InAvailable(b) == \E i \in DOMAIN available : available[i] = b
InTasks(b) == \E i \in DOMAIN tasks : tasks[i].buffer = b
HeldByCotter(b) == held = <<b>>
HeldBy(b, t) == task[t] # <<>> /\ task[t][1].buffer = b

(* A buffer is in one place at a time: either free, or being filled, or      *)
(* waiting, or with one shuffle thread.  So no thread reads a buffer that     *)
(* Cotter's thread fills, and neither lane is ever written to when full.     *)
OwnedOnce ==
  /\ \A i, j \in DOMAIN available : available[i] = available[j] => i = j
  /\ \A i, j \in DOMAIN tasks : tasks[i].buffer = tasks[j].buffer => i = j
  /\ \A t, u \in Threads : task[t] # <<>> /\ task[u] # <<>>
                           /\ task[t][1].buffer = task[u][1].buffer => t = u
  /\ \A b \in Buffers :
       /\ InAvailable(b) => ~InTasks(b) /\ ~HeldByCotter(b) /\ \A t \in Threads : ~HeldBy(b, t)
       /\ InTasks(b) => ~HeldByCotter(b) /\ \A t \in Threads : ~HeldBy(b, t)
       /\ HeldByCotter(b) => \A t \in Threads : ~HeldBy(b, t)

(* Neither lane is ever written to when it is full, so that neither Cotter's *)
(* thread, which holds a buffer, blocks in posting it nor a shuffle thread in *)
(* giving one back: each lane has room for all buffers.                      *)
LanesHaveRoom ==
  /\ pc = "fill" => Len(tasks) < ThreadCount
  /\ \A t \in Threads : task[t] # <<>> => Len(available) < ThreadCount

(* When Read has returned, every HDU it read has been copied whole, from a   *)
(* buffer that held that HDU at the time.                                    *)
AllShuffled ==
  \A c \in 1..NCalls :
    c < call => \A i \in 1..HDUsPerCall[c], k \in 1..NCells : out[c][i][k] = <<c, i>>

(* Every call returns, unless an exception terminates the program. *)
Returns == <>(pc \in {"done", "terminated"})
=============================================================================
