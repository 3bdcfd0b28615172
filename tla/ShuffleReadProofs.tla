-------------------------- MODULE ShuffleReadProofs --------------------------
(***************************************************************************)
(* ShuffleRead proved for any number of shuffle threads, calls, HDUs and    *)
(* cells: a buffer has one owner, no lane is ever full when it is written   *)
(* to, and when Read returns every HDU has been copied whole.               *)
(***************************************************************************)
EXTENDS ShuffleRead, SequenceTheorems, FiniteSetTheorems, TLAPS

(* The types of TypeOK, as the steps need them. *)
CotterTypes ==
  /\ pc \in {"start", "spawn", "take", "fill", "join", "done", "terminated"}
  /\ call \in Nat \ {0} /\ call <= NCalls + 1 /\ (pc # "done" => call <= NCalls)
  /\ tasksEnd \in BOOLEAN
  /\ hdu \in Nat \ {0}
  /\ running \subseteq Threads
LaneTypes ==
  /\ held \in Seq(Buffers) /\ Len(held) <= 1
  /\ available \in Seq(Buffers) /\ Len(available) <= ThreadCount
  /\ tasks \in Seq(Task) /\ Len(tasks) <= ThreadCount
ThreadTypes ==
  /\ task \in [Threads -> Seq(Task)] /\ \A t \in Threads : Len(task[t]) <= 1
  /\ copied \in [Threads -> Nat]
  /\ matrix \in [Buffers -> Nat \X Nat]
Types == CotterTypes /\ LaneTypes /\ ThreadTypes

(* Where Cotter's thread is in Read tells how far the HDUs have come, which   *)
(* threads run and where buffers may be.  Nothing moves any more once an     *)
(* exception has terminated the program.                                     *)
Phases ==
  /\ pc \notin {"start", "done"} => hdu <= NHDUs + 1
  /\ pc = "fill" => hdu <= NHDUs /\ Len(held) = 1
  /\ pc = "join" => hdu > NHDUs
  /\ pc \notin {"fill", "terminated"} => held = <<>>
  /\ pc \in {"spawn", "take", "fill"} => ~tasksEnd
  /\ pc \in {"take", "fill"} => running = Threads
  /\ pc \in {"start", "done"} => running = {}
  /\ pc \in {"start", "spawn", "done"} => tasks = <<>>
  /\ pc = "spawn" => \A i \in DOMAIN available : available[i] \in running
  /\ \A t \in Threads : t \notin running => task[t] = <<>>
  /\ pc = "spawn" => \A t \in Threads : task[t] = <<>>
  /\ \A t \in Threads : pc = "join" /\ t \notin running => tasks = <<>>

(* The baseline buffers are arrays of fixed sizes. *)
Arrays ==
  /\ out = [c \in 1..NCalls |-> out[c]]
  /\ \A c \in 1..NCalls : out[c] = [i \in 1..HDUsPerCall[c] |-> out[c][i]]
  /\ \A c \in 1..NCalls : \A i \in 1..HDUsPerCall[c] :
       out[c][i] = [k \in 1..NCells |-> out[c][i][k]]

(* A buffer that waits or is being copied holds the HDU its task says, and   *)
(* what has been copied of it is right.                                      *)
Filled ==
  /\ \A i \in DOMAIN tasks :
       tasks[i].hdu \in 1..(hdu - 1) /\ matrix[tasks[i].buffer] = <<call, tasks[i].hdu>>
  /\ \A t \in Threads : task[t] # <<>> =>
       /\ task[t][1].hdu \in 1..(hdu - 1)
       /\ matrix[task[t][1].buffer] = <<call, task[t][1].hdu>>
       /\ \A k \in 1..NCells : k <= copied[t] =>
            out[call][task[t][1].hdu][k] = <<call, task[t][1].hdu>>

(* No HDU gets lost: it waits, is with a thread or has been copied. *)
HasTask(t, i) == task[t] # <<>> /\ task[t][1].hdu = i
Copied(c, i) == \A k \in 1..NCells : out[c][i][k] = <<c, i>>
Accounted ==
  pc \in {"spawn", "take", "fill", "join"} =>
    \A i \in 1..(hdu - 1) :
      \/ \E j \in DOMAIN tasks : tasks[j].hdu = i
      \/ \E t \in Threads : HasTask(t, i)
      \/ Copied(call, i)

Inv ==
  /\ Types
  /\ Phases
  /\ OwnedOnce
  /\ Arrays
  /\ Filled
  /\ Accounted
  /\ AllShuffled

-----------------------------------------------------------------------------
(* Append and Tail, element by element. *)
LEMMA Appended ==
  ASSUME NEW S, NEW s \in Seq(S), NEW e \in S
  PROVE  /\ Append(s, e) \in Seq(S) /\ Append(s, e) # <<>>
         /\ Len(s) \in Nat /\ DOMAIN s = 1..Len(s)
         /\ Len(Append(s, e)) = Len(s) + 1
         /\ DOMAIN Append(s, e) = 1..(Len(s) + 1)
         /\ \A i \in 1..Len(s) : Append(s, e)[i] = s[i]
         /\ Append(s, e)[Len(s) + 1] = e
  BY AppendProperties, LenProperties

LEMMA Tailed ==
  ASSUME NEW S, NEW s \in Seq(S), s # <<>>
  PROVE  /\ Tail(s) \in Seq(S) /\ Head(s) \in S /\ Head(s) = s[1]
         /\ Len(s) \in Nat \ {0} /\ DOMAIN s = 1..Len(s)
         /\ Len(Tail(s)) = Len(s) - 1
         /\ DOMAIN Tail(s) = 1..(Len(s) - 1)
         /\ \A i \in 1..(Len(s) - 1) : Tail(s)[i] = s[i + 1]
  BY HeadTailProperties, LenProperties, EmptySeq

LEMMA Single ==
  ASSUME NEW S, NEW e \in S
  PROVE  <<e>> \in Seq(S) /\ Len(<<e>>) = 1 /\ <<e>> # <<>> /\ <<e>>[1] = e
  OBVIOUS

LEMMA InvInit == Init => Inv
<1> SUFFICES ASSUME Init PROVE Inv
  OBVIOUS
<1> USE DEF Buffers, Threads, NCalls
<1>0. /\ pc = "start" /\ call = 1 /\ hdu = 1 /\ held = <<>>
      /\ available = <<>> /\ tasks = <<>> /\ tasksEnd = FALSE
      /\ matrix = [b \in Buffers |-> NoMatrix]
      /\ running = {} /\ task = [t \in Threads |-> <<>>] /\ copied = [t \in Threads |-> 0]
  BY DEF Init
<1>1. /\ HDUsPerCall \in Seq(Nat) /\ HDUsPerCall # <<>>
      /\ Len(HDUsPerCall) \in Nat \ {0}
      /\ \A c \in 1..NCalls : HDUsPerCall[c] \in Nat
  BY ShuffleAssumption, EmptySeq, ElementOfSeq
<1>2. /\ <<>> \in Seq(Buffers) /\ <<>> \in Seq(Task) /\ Len(<<>>) = 0 /\ DOMAIN <<>> = {}
  BY EmptySeq, LenProperties
<1>3. matrix \in [Buffers -> Nat \X Nat]
  BY <1>0 DEF NoMatrix
<1>4. /\ task \in [Threads -> Seq(Task)] /\ \A t \in Threads : Len(task[t]) <= 1
      /\ copied \in [Threads -> Nat]
  BY <1>0, <1>2
<1>5. Types
<2>1. pc \in {"start", "spawn", "take", "fill", "join", "done", "terminated"} /\ tasksEnd \in BOOLEAN
  BY <1>0
<2>2. call \in Nat \ {0} /\ call <= NCalls + 1 /\ (pc # "done" => call <= NCalls) /\ hdu \in Nat \ {0}
  BY <1>0, <1>1
<2>3. held \in Seq(Buffers) /\ Len(held) <= 1
  BY <1>0, <1>2
<2>4. /\ available \in Seq(Buffers) /\ Len(available) <= ThreadCount
      /\ tasks \in Seq(Task) /\ Len(tasks) <= ThreadCount
  BY <1>0, <1>2, ShuffleAssumption
<2>5. running \subseteq Threads
  BY <1>0
<2> QED
  BY <1>3, <1>4, <2>1, <2>2, <2>3, <2>4, <2>5 DEF Types, CotterTypes, LaneTypes, ThreadTypes
<1>6. Phases
  BY <1>0, <1>1, <1>2 DEF Phases
<1>7. OwnedOnce
  BY <1>0, <1>2 DEF OwnedOnce, InAvailable, InTasks, HeldByCotter, HeldBy
<1>8. Arrays /\ Filled
<2>1. out = [c \in 1..NCalls |-> [i \in 1..HDUsPerCall[c] |-> [k \in 1..NCells |-> NoMatrix]]]
  BY DEF Init
<2>2. \A c \in 1..NCalls : out[c] = [i \in 1..HDUsPerCall[c] |-> [k \in 1..NCells |-> NoMatrix]]
  BY <2>1
<2>3. \A c \in 1..NCalls : \A i \in 1..HDUsPerCall[c] : out[c][i] = [k \in 1..NCells |-> NoMatrix]
  BY <2>2
<2>4. out = [c \in 1..NCalls |-> out[c]]
  BY <2>1
<2>5. \A c \in 1..NCalls : out[c] = [i \in 1..HDUsPerCall[c] |-> out[c][i]]
  BY <2>2
<2>6. \A c \in 1..NCalls : \A i \in 1..HDUsPerCall[c] : out[c][i] = [k \in 1..NCells |-> out[c][i][k]]
  BY <2>3
<2>7. Filled
  BY <1>0, <1>2 DEF Filled
<2> QED
  BY <2>4, <2>5, <2>6, <2>7 DEF Arrays
<1>9. Accounted /\ AllShuffled
  BY <1>0, <1>1 DEF Accounted, AllShuffled
<1> QED
  BY <1>5, <1>6, <1>7, <1>8, <1>9 DEF Inv

-----------------------------------------------------------------------------
LEMMA Sizes ==
  ASSUME Types
  PROVE  /\ NCalls \in Nat \ {0}
         /\ \A c \in 1..NCalls : HDUsPerCall[c] \in Nat
         /\ pc # "done" => call \in 1..NCalls /\ NHDUs \in Nat
         /\ \A b \in Buffers : b \in Nat /\ 1 <= b /\ b <= ThreadCount
         /\ ThreadCount \in Nat \ {0} /\ NCells \in Nat \ {0}
<1>1. HDUsPerCall \in Seq(Nat) /\ HDUsPerCall # <<>> /\ ThreadCount \in Nat \ {0} /\ NCells \in Nat \ {0}
  BY ShuffleAssumption
<1>2. NCalls \in Nat \ {0}
  BY <1>1, EmptySeq DEF NCalls
<1>3. \A c \in 1..NCalls : HDUsPerCall[c] \in Nat
  BY <1>1, ElementOfSeq DEF NCalls
<1>4. call \in Nat \ {0} /\ (pc # "done" => call <= NCalls)
  BY DEF Types, CotterTypes
<1> QED
  BY <1>1, <1>2, <1>3, <1>4 DEF NHDUs, Buffers

(* Where a task is, its buffer is. *)
LEMMA TaskBuffers ==
  ASSUME Types
  PROVE  /\ \A i \in DOMAIN tasks : tasks[i] \in Task /\ tasks[i].buffer \in Buffers
                                   /\ InTasks(tasks[i].buffer)
         /\ \A t \in Threads : task[t] # <<>> => task[t][1] \in Task /\ task[t][1].buffer \in Buffers
                                               /\ HeldBy(task[t][1].buffer, t)
<1>1. \A t \in Threads : task[t] # <<>> => task[t][1] \in Task
  BY EmptySeq, ElementOfSeq DEF Types, ThreadTypes
<1>2. \A i \in DOMAIN tasks : tasks[i] \in Task
  BY LenProperties, ElementOfSeq DEF Types, LaneTypes
<1> QED
  BY <1>1, <1>2 DEF Task, InTasks, HeldBy

(* Start: the lanes are emptied, so that no buffer of the last call is left.  *)
LEMMA StartKeepsInv == ASSUME Inv, Start PROVE Inv'
<1>0. /\ pc = "start" /\ pc' = "spawn" /\ hdu' = 1 /\ available' = <<>> /\ tasks' = <<>>
      /\ tasksEnd' = FALSE
      /\ call' = call /\ held' = held /\ running' = running /\ task' = task
      /\ copied' = copied /\ out' = out
  BY DEF Start
<1>1. /\ <<>> \in Seq(Buffers) /\ <<>> \in Seq(Task) /\ Len(<<>>) = 0 /\ DOMAIN <<>> = {}
  BY EmptySeq, LenProperties
<1>2. Types /\ Phases /\ OwnedOnce /\ Arrays /\ Filled /\ Accounted /\ AllShuffled
  BY DEF Inv
<1>3. running = {} /\ held = <<>> /\ \A t \in Threads : task[t] = <<>>
  BY <1>0, <1>2 DEF Phases
<1>4. Types'
  <2>1. matrix' \in [Buffers -> Nat \X Nat]
    BY DEF Start, NoMatrix
  <2>2. ThreadTypes'
    BY <1>0, <1>2, <2>1 DEF Types, ThreadTypes
  <2>3. LaneTypes'
    <3>1. Len(<<>>) <= ThreadCount
      BY <1>1, <1>2, Sizes
    <3> QED
      BY <1>0, <1>1, <1>2, <3>1 DEF Types, LaneTypes
  <2>4. CotterTypes'
    <3>1. tasksEnd' \in BOOLEAN
      BY Zenon DEF Start
    <3> QED
      BY <1>0, <1>2, <3>1 DEF Types, CotterTypes
  <2> QED
    BY <2>2, <2>3, <2>4 DEF Types
<1>5. Phases'
  BY <1>0, <1>1, <1>2, <1>3, Sizes DEF Phases, NHDUs
<1>6. OwnedOnce'
  BY <1>0, <1>1, <1>3 DEF OwnedOnce, InAvailable, InTasks, HeldByCotter, HeldBy
<1>7. Arrays' /\ AllShuffled'
  BY <1>0, <1>2 DEF Arrays, AllShuffled
<1>8. Filled'
  BY <1>0, <1>1, <1>3 DEF Filled
<1>9. Accounted'
  BY <1>0 DEF Accounted
<1> QED
  BY <1>4, <1>5, <1>6, <1>7, <1>8, <1>9 DEF Inv

(* Spawn: the buffer made available is that of the thread started. *)
LEMMA SpawnKeepsInv == ASSUME Inv, NEW n \in Threads, Spawn(n) PROVE Inv'
<1>0. /\ pc = "spawn" /\ n \notin running /\ 1..(n - 1) \subseteq running
      /\ Len(available) < ThreadCount
      /\ available' = Append(available, n) /\ running' = running \union {n}
      /\ pc' = IF n < ThreadCount THEN "spawn" ELSE "take"
      /\ call' = call /\ hdu' = hdu /\ held' = held /\ tasks' = tasks /\ tasksEnd' = tasksEnd
      /\ matrix' = matrix /\ task' = task /\ copied' = copied /\ out' = out
  BY DEF Spawn
<1>1. Types /\ Phases /\ OwnedOnce /\ Arrays /\ Filled /\ Accounted /\ AllShuffled
  BY DEF Inv
<1>2. /\ tasks = <<>> /\ held = <<>> /\ ~tasksEnd
      /\ \A t \in Threads : task[t] = <<>>
      /\ \A i \in DOMAIN available : available[i] \in running
  BY <1>0, <1>1 DEF Phases
<1>3. n \in Buffers /\ n \in Nat /\ 1 <= n /\ n <= ThreadCount /\ ThreadCount \in Nat
  BY <1>1, Sizes DEF Threads, Buffers
<1>4. /\ available' \in Seq(Buffers) /\ Len(available) \in Nat
      /\ DOMAIN available = 1..Len(available) /\ DOMAIN available' = 1..(Len(available) + 1)
      /\ Len(available') = Len(available) + 1
      /\ \A i \in 1..Len(available) : available'[i] = available[i]
      /\ available'[Len(available) + 1] = n
  BY <1>0, <1>1, <1>3, Appended DEF Types, LaneTypes
<1>5. pc' = "take" => running' = Threads
  <2> SUFFICES ASSUME pc' = "take" PROVE running' = Threads
    OBVIOUS
  <2>1. n = ThreadCount
    BY <1>0, <1>3
  <2>2. \A t \in Threads : t \in 1..(n - 1) \/ t = n
    BY <1>3, <2>1 DEF Threads
  <2>3. running' \subseteq Threads
    BY <1>0, <1>1 DEF Types, CotterTypes
  <2> QED
    BY <1>0, <2>2, <2>3
<1>6. Types'
  <2>1. CotterTypes'
    BY <1>0, <1>1 DEF Types, CotterTypes
  <2>2. LaneTypes'
    BY <1>0, <1>1, <1>3, <1>4 DEF Types, LaneTypes
  <2>3. ThreadTypes'
    BY <1>0, <1>1 DEF Types, ThreadTypes
  <2> QED
    BY <2>1, <2>2, <2>3 DEF Types
<1>7. Phases'
  <2>1. \A i \in DOMAIN available' : available'[i] \in running'
    BY <1>0, <1>2, <1>4
  <2> QED
    BY <1>0, <1>1, <1>2, <1>5, <2>1 DEF Phases, NHDUs
<1>8. OwnedOnce'
  <2>1. \A i, j \in DOMAIN available' : available'[i] = available'[j] => i = j
    BY <1>0, <1>1, <1>2, <1>4 DEF OwnedOnce
  <2>2. DOMAIN tasks' = {}
    BY <1>0, <1>2, EmptySeq, LenProperties
  <2>3. held' = <<>> /\ \A t \in Threads : task'[t] = <<>>
    BY <1>0, <1>2
  <2> QED
    BY <2>1, <2>2, <2>3 DEF OwnedOnce, InAvailable, InTasks, HeldByCotter, HeldBy
<1>9. Arrays' /\ AllShuffled'
  BY <1>0, <1>1 DEF Arrays, AllShuffled
<1>10. Filled'
  BY <1>0, <1>1 DEF Filled
<1>11. Accounted'
  BY <1>0, <1>1 DEF Accounted, HasTask, Copied
<1> QED
  BY <1>6, <1>7, <1>8, <1>9, <1>10, <1>11 DEF Inv

(* TakeBuffer: the first free buffer goes from the lane to Cotter's thread.   *)
LEMMA TakeBufferKeepsInv == ASSUME Inv, TakeBuffer PROVE Inv'
<1> DEFINE b0 == Head(available)
<1>0. /\ pc = "take" /\ hdu <= NHDUs /\ available # <<>> /\ held' = <<b0>>
      /\ available' = Tail(available) /\ pc' = "fill"
      /\ call' = call /\ hdu' = hdu /\ tasks' = tasks /\ tasksEnd' = tasksEnd
      /\ running' = running /\ task' = task /\ copied' = copied /\ out' = out
  BY DEF TakeBuffer, workerVars
<1>1. Types /\ Phases /\ OwnedOnce /\ Arrays /\ Filled /\ Accounted /\ AllShuffled
  BY DEF Inv
<1>2. /\ available' \in Seq(Buffers) /\ b0 \in Buffers /\ b0 = available[1]
      /\ Len(available) \in Nat \ {0} /\ DOMAIN available = 1..Len(available)
      /\ Len(available') = Len(available) - 1 /\ DOMAIN available' = 1..(Len(available) - 1)
      /\ \A i \in 1..(Len(available) - 1) : available'[i] = available[i + 1]
  BY <1>0, <1>1, Tailed DEF Types, LaneTypes
<1>3. held' \in Seq(Buffers) /\ Len(held') = 1 /\ held' # <<>> /\ held'[1] = b0
  BY <1>0, <1>2, Single
<1>4. matrix' = [matrix EXCEPT ![b0] = NoMatrix]
  BY DEF TakeBuffer
<1>5. Types'
  <2>1. CotterTypes'
    BY <1>0, <1>1 DEF Types, CotterTypes
  <2>2. ThreadCount \in Nat
    BY <1>1, Sizes
  <2>3. LaneTypes'
    BY <1>0, <1>1, <1>2, <1>3, <2>2 DEF Types, LaneTypes
  <2>4. matrix' \in [Buffers -> Nat \X Nat]
    BY <1>1, <1>2, <1>4 DEF Types, ThreadTypes, NoMatrix
  <2>5. ThreadTypes'
    BY <1>0, <1>1, <2>4 DEF Types, ThreadTypes
  <2> QED
    BY <2>1, <2>3, <2>5 DEF Types
<1>6. Phases'
  BY <1>0, <1>1, <1>3, Sizes DEF Phases, NHDUs, Types, CotterTypes
<1>7. InAvailable(b0)
  BY <1>2 DEF InAvailable
<1>8. OwnedOnce'
  <2>1. \A i, j \in DOMAIN available' : available'[i] = available'[j] => i = j
    BY <1>1, <1>2 DEF OwnedOnce
  <2>2. \A b \in Buffers : InAvailable(b)' => InAvailable(b) /\ b # b0
    <3> SUFFICES ASSUME NEW b \in Buffers, NEW i \in DOMAIN available', available'[i] = b
                 PROVE  InAvailable(b) /\ b # b0
      BY DEF InAvailable
    <3>1. /\ i \in 1..(Len(available) - 1) /\ b = available[i + 1]
          /\ i + 1 \in DOMAIN available /\ 1 \in DOMAIN available /\ i + 1 # 1
      BY <1>2
    <3>2. b # available[1]
      BY <1>1, <3>1 DEF OwnedOnce
    <3> QED
      BY <1>2, <3>1, <3>2 DEF InAvailable
  <2>3. \A b \in Buffers : HeldByCotter(b)' => b = b0
    BY <1>0, <1>3 DEF HeldByCotter
  <2>4. \A b \in Buffers : InTasks(b)' <=> InTasks(b)
    BY <1>0 DEF InTasks
  <2>5. \A b \in Buffers, t \in Threads : HeldBy(b, t)' <=> HeldBy(b, t)
    BY <1>0 DEF HeldBy
  <2>6. /\ \A i, j \in DOMAIN tasks' : tasks'[i].buffer = tasks'[j].buffer => i = j
        /\ \A t, u \in Threads : task'[t] # <<>> /\ task'[u] # <<>>
                                 /\ task'[t][1].buffer = task'[u][1].buffer => t = u
    BY <1>0, <1>1 DEF OwnedOnce
  <2>7. /\ \A b \in Buffers : InAvailable(b) => ~InTasks(b) /\ \A t \in Threads : ~HeldBy(b, t)
        /\ \A b \in Buffers : InTasks(b) => \A t \in Threads : ~HeldBy(b, t)
    BY <1>1 DEF OwnedOnce
  <2>8. ~InTasks(b0) /\ \A t \in Threads : ~HeldBy(b0, t)
    BY <1>2, <1>7, <2>7
  <2>9. \A b \in Buffers :
          /\ InAvailable(b)' => ~InTasks(b)' /\ ~HeldByCotter(b)' /\ \A t \in Threads : ~HeldBy(b, t)'
          /\ InTasks(b)' => ~HeldByCotter(b)' /\ \A t \in Threads : ~HeldBy(b, t)'
          /\ HeldByCotter(b)' => \A t \in Threads : ~HeldBy(b, t)'
    BY <2>2, <2>3, <2>4, <2>5, <2>7, <2>8, Zenon
  <2> QED
    BY <2>1, <2>6, <2>9 DEF OwnedOnce
<1>9. Filled'
  <2>1. /\ \A i \in DOMAIN tasks : tasks[i].buffer \in Buffers /\ InTasks(tasks[i].buffer)
        /\ \A t \in Threads : task[t] # <<>> =>
             task[t][1].buffer \in Buffers /\ HeldBy(task[t][1].buffer, t)
    BY <1>1, TaskBuffers
  <2>2. /\ \A i \in DOMAIN tasks : tasks[i].buffer # b0
        /\ \A t \in Threads : task[t] # <<>> => task[t][1].buffer # b0
    BY <1>1, <1>2, <1>7, <2>1 DEF OwnedOnce
  <2>3. \A b \in Buffers : b # b0 => matrix'[b] = matrix[b]
    BY <1>1, <1>4 DEF Types, ThreadTypes
  <2>4. \A i \in DOMAIN tasks : matrix'[tasks[i].buffer] = matrix[tasks[i].buffer]
    BY <2>1, <2>2, <2>3
  <2>5. \A t \in Threads : task[t] # <<>> => matrix'[task[t][1].buffer] = matrix[task[t][1].buffer]
    BY <2>1, <2>2, <2>3
  <2> QED
    BY <1>0, <1>1, <2>4, <2>5 DEF Filled
<1>10. Arrays' /\ AllShuffled'
  BY <1>0, <1>1 DEF Arrays, AllShuffled
<1>11. Accounted'
  BY <1>0, <1>1 DEF Accounted, HasTask, Copied
<1> QED
  BY <1>5, <1>6, <1>8, <1>9, <1>10, <1>11 DEF Inv

(* PostTask: the buffer held is full and goes to the lane of tasks. *)
LEMMA PostTaskKeepsInv == ASSUME Inv, PostTask PROVE Inv'
<1> DEFINE b0 == held[1]
           x == [hdu |-> hdu, buffer |-> b0]
<1>0. /\ pc = "fill" /\ Len(tasks) < ThreadCount /\ tasks' = Append(tasks, x)
      /\ held' = <<>> /\ hdu' = hdu + 1 /\ pc' = "take"
      /\ call' = call /\ available' = available /\ tasksEnd' = tasksEnd
      /\ running' = running /\ task' = task /\ copied' = copied /\ out' = out
  BY DEF PostTask, workerVars
<1>1. Types /\ Phases /\ OwnedOnce /\ Arrays /\ Filled /\ Accounted /\ AllShuffled
  BY DEF Inv
<1>2. hdu \in Nat \ {0} /\ hdu <= NHDUs /\ NHDUs \in Nat /\ call \in 1..NCalls
  BY <1>0, <1>1, Sizes DEF Phases, Types, CotterTypes
<1>3. b0 \in Buffers /\ held = <<b0>>
  <2>1. held \in Seq(Buffers) /\ Len(held) = 1
    BY <1>0, <1>1 DEF Phases, Types, LaneTypes
  <2> QED
    BY <2>1, ElementOfSeq
<1>4. /\ x \in Task /\ tasks' \in Seq(Task) /\ Len(tasks) \in Nat
      /\ DOMAIN tasks = 1..Len(tasks) /\ DOMAIN tasks' = 1..(Len(tasks) + 1)
      /\ Len(tasks') = Len(tasks) + 1
      /\ \A i \in 1..Len(tasks) : tasks'[i] = tasks[i]
      /\ tasks'[Len(tasks) + 1] = x
  <2>1. x \in Task
    BY <1>2, <1>3 DEF Task
  <2> HIDE DEF x
  <2> QED
    BY <1>0, <1>1, <2>1, Appended DEF Types, LaneTypes
<1>5. x.hdu = hdu /\ x.buffer = b0
  OBVIOUS
<1> HIDE DEF x
<1>6. matrix' = [matrix EXCEPT ![b0] = <<call, hdu>>]
  BY DEF PostTask
<1>7. Types'
  <2>1. CotterTypes'
    BY <1>0, <1>1, <1>2 DEF Types, CotterTypes
  <2>2. ThreadCount \in Nat /\ <<>> \in Seq(Buffers) /\ Len(<<>>) = 0
    BY <1>1, Sizes, EmptySeq
  <2>3. LaneTypes'
    BY <1>0, <1>1, <1>4, <2>2 DEF Types, LaneTypes
  <2>4. <<call, hdu>> \in Nat \X Nat
    BY <1>2
  <2>5. matrix' \in [Buffers -> Nat \X Nat]
    BY <1>1, <1>3, <1>6, <2>4 DEF Types, ThreadTypes
  <2>6. ThreadTypes'
    BY <1>0, <1>1, <2>5 DEF Types, ThreadTypes
  <2> QED
    BY <2>1, <2>3, <2>6 DEF Types
<1>8. Phases'
  BY <1>0, <1>1, <1>2 DEF Phases, NHDUs
<1>9. HeldByCotter(b0)
  BY <1>3 DEF HeldByCotter
<1>10. OwnedOnce'
  <2>1. \A b \in Buffers : InTasks(b)' <=> InTasks(b) \/ b = b0
    BY <1>4, <1>5 DEF InTasks
  <2>2. \A b \in Buffers : ~HeldByCotter(b)'
    BY <1>0 DEF HeldByCotter
  <2>3. \A b \in Buffers : InAvailable(b)' <=> InAvailable(b)
    BY <1>0 DEF InAvailable
  <2>4. \A b \in Buffers, t \in Threads : HeldBy(b, t)' <=> HeldBy(b, t)
    BY <1>0 DEF HeldBy
  <2>5. ~InTasks(b0) /\ ~InAvailable(b0) /\ \A t \in Threads : ~HeldBy(b0, t)
    BY <1>1, <1>3, <1>9 DEF OwnedOnce
  <2>6. \A i \in 1..Len(tasks) : tasks[i].buffer # b0
    BY <1>4, <2>5 DEF InTasks
  <2>7. \A i, j \in DOMAIN tasks' : tasks'[i].buffer = tasks'[j].buffer => i = j
    BY <1>1, <1>4, <1>5, <2>6 DEF OwnedOnce
  <2>8. /\ \A i, j \in DOMAIN available' : available'[i] = available'[j] => i = j
        /\ \A t, u \in Threads : task'[t] # <<>> /\ task'[u] # <<>>
                                 /\ task'[t][1].buffer = task'[u][1].buffer => t = u
    BY <1>0, <1>1 DEF OwnedOnce
  <2>9. /\ \A b \in Buffers : InAvailable(b) => ~InTasks(b) /\ \A t \in Threads : ~HeldBy(b, t)
        /\ \A b \in Buffers : InTasks(b) => \A t \in Threads : ~HeldBy(b, t)
    BY <1>1 DEF OwnedOnce
  <2> QED
    BY <2>1, <2>2, <2>3, <2>4, <2>5, <2>7, <2>8, <2>9 DEF OwnedOnce
<1>11. Filled'
  <2>1. /\ \A i \in DOMAIN tasks : tasks[i].buffer \in Buffers /\ InTasks(tasks[i].buffer)
        /\ \A t \in Threads : task[t] # <<>> =>
             task[t][1].buffer \in Buffers /\ HeldBy(task[t][1].buffer, t)
    BY <1>1, TaskBuffers
  <2>2. /\ \A i \in DOMAIN tasks : tasks[i].buffer # b0
        /\ \A t \in Threads : task[t] # <<>> => task[t][1].buffer # b0
    BY <1>1, <1>3, <1>9, <2>1 DEF OwnedOnce
  <2>3. (\A b \in Buffers : b # b0 => matrix'[b] = matrix[b]) /\ matrix'[b0] = <<call, hdu>>
    BY <1>1, <1>3, <1>6 DEF Types, ThreadTypes
  <2>4. \A i \in DOMAIN tasks : /\ tasks[i].hdu \in 1..(hdu - 1)
                                /\ matrix'[tasks[i].buffer] = <<call, tasks[i].hdu>>
    BY <1>1, <2>1, <2>2, <2>3 DEF Filled
  <2>5. \A t \in Threads : task[t] # <<>> => matrix'[task[t][1].buffer] = matrix[task[t][1].buffer]
    BY <2>1, <2>2, <2>3
  <2>6. \A i \in 1..(hdu - 1) : i \in 1..(hdu' - 1)
    BY <1>0, <1>2
  <2>7. \A i \in DOMAIN tasks' : /\ tasks'[i].hdu \in 1..(hdu' - 1)
                                 /\ matrix'[tasks'[i].buffer] = <<call', tasks'[i].hdu>>
    <3> SUFFICES ASSUME NEW i \in DOMAIN tasks'
                 PROVE  /\ tasks'[i].hdu \in 1..(hdu' - 1)
                        /\ matrix'[tasks'[i].buffer] = <<call', tasks'[i].hdu>>
      OBVIOUS
    <3>1. CASE i = Len(tasks) + 1
      BY <3>1, <1>0, <1>2, <1>4, <1>5, <2>3
    <3>2. CASE i \in 1..Len(tasks)
      BY <3>2, <1>0, <1>4, <2>4, <2>6
    <3> QED
      BY <3>1, <3>2, <1>4
  <2> QED
    BY <1>0, <1>1, <2>5, <2>6, <2>7 DEF Filled
<1>12. Arrays' /\ AllShuffled'
  BY <1>0, <1>1 DEF Arrays, AllShuffled
<1>13. Accounted'
  <2> SUFFICES ASSUME NEW i \in 1..(hdu' - 1)
               PROVE  \/ \E j \in DOMAIN tasks' : tasks'[j].hdu = i
                      \/ \E t \in Threads : HasTask(t, i)'
                      \/ Copied(call, i)'
    BY <1>0 DEF Accounted
  <2>1. CASE i = hdu
    BY <2>1, <1>4, <1>5
  <2>2. CASE i \in 1..(hdu - 1)
    <3>1. \/ \E j \in DOMAIN tasks : tasks[j].hdu = i
          \/ \E t \in Threads : HasTask(t, i)
          \/ Copied(call, i)
      BY <2>2, <1>0, <1>1 DEF Accounted
    <3>2. (\E j \in DOMAIN tasks : tasks[j].hdu = i) => \E j \in DOMAIN tasks' : tasks'[j].hdu = i
      BY <1>4
    <3> QED
      BY <3>1, <3>2, <1>0 DEF HasTask, Copied
  <2> QED
    BY <2>1, <2>2, <1>0, <1>2
<1> QED
  BY <1>7, <1>8, <1>10, <1>11, <1>12, <1>13 DEF Inv

(* Throw and WriteEnd change no buffer and no task. *)
LEMMA ThrowKeepsInv == ASSUME Inv, Throw PROVE Inv'
<1>0. /\ pc' = "terminated" /\ UNCHANGED <<call, hdu, held, available, tasks, tasksEnd, matrix, running, task,
                                           copied, out>>
      /\ pc \in {"take", "fill"}
  BY DEF Throw, workerVars
<1>1. Types /\ Phases /\ OwnedOnce /\ Arrays /\ Filled /\ Accounted /\ AllShuffled
  BY DEF Inv
<1>2. CotterTypes'
  BY <1>0, <1>1 DEF Types, CotterTypes
<1>3. LaneTypes' /\ ThreadTypes'
  BY <1>0, <1>1 DEF Types, LaneTypes, ThreadTypes
<1>4. Phases'
  BY <1>0, <1>1 DEF Phases, NHDUs
<1>5. OwnedOnce'
  BY <1>0, <1>1 DEF OwnedOnce, InAvailable, InTasks, HeldByCotter, HeldBy
<1>6. Arrays' /\ AllShuffled'
  BY <1>0, <1>1 DEF Arrays, AllShuffled
<1>7. Filled' /\ Accounted'
  BY <1>0, <1>1 DEF Filled, Accounted
<1> QED
  BY <1>2, <1>3, <1>4, <1>5, <1>6, <1>7 DEF Inv, Types

LEMMA WriteEndKeepsInv == ASSUME Inv, WriteEnd PROVE Inv'
<1>0. /\ pc = "take" /\ hdu > NHDUs /\ pc' = "join"
      /\ UNCHANGED <<call, hdu, held, available, tasks, matrix, running, task, copied, out>>
  BY DEF WriteEnd, workerVars
<1>1. Types /\ Phases /\ OwnedOnce /\ Arrays /\ Filled /\ Accounted /\ AllShuffled
  BY DEF Inv
<1>2. CotterTypes'
  <2>1. tasksEnd' \in BOOLEAN
    BY Zenon DEF WriteEnd
  <2> QED
    BY <1>0, <1>1, <2>1 DEF Types, CotterTypes
<1>3. LaneTypes' /\ ThreadTypes'
  BY <1>0, <1>1 DEF Types, LaneTypes, ThreadTypes
<1>4. Phases'
  BY <1>0, <1>1 DEF Phases, NHDUs
<1>5. OwnedOnce'
  BY <1>0, <1>1 DEF OwnedOnce, InAvailable, InTasks, HeldByCotter, HeldBy
<1>6. Arrays' /\ AllShuffled'
  BY <1>0, <1>1 DEF Arrays, AllShuffled
<1>7. Filled'
  BY <1>0, <1>1 DEF Filled
<1>8. Accounted'
  BY <1>0, <1>1 DEF Accounted, HasTask, Copied
<1> QED
  BY <1>2, <1>3, <1>4, <1>5, <1>6, <1>7, <1>8 DEF Inv, Types

(* Return: no thread is left, so that no task is, and every HDU is copied. *)
LEMMA ReturnKeepsInv == ASSUME Inv, Return PROVE Inv'
<1>0. /\ pc = "join" /\ running = {} /\ call' = call + 1
      /\ pc' = IF call < NCalls THEN "start" ELSE "done"
      /\ UNCHANGED <<hdu, held, available, tasks, tasksEnd, running, task, copied, out>>
  BY DEF Return, workerVars
<1>1. Types /\ Phases /\ OwnedOnce /\ Arrays /\ Filled /\ Accounted /\ AllShuffled
  BY DEF Inv
<1>2. /\ NCalls \in Nat \ {0} /\ call \in 1..NCalls /\ NHDUs \in Nat /\ 1 \in Threads
  BY <1>0, <1>1, Sizes DEF Threads
<1>3. tasks = <<>> /\ (\A t \in Threads : task[t] = <<>>) /\ held = <<>> /\ hdu = NHDUs + 1
  BY <1>0, <1>1, <1>2 DEF Phases, Types, CotterTypes
<1>4. DOMAIN <<>> = {}
  BY EmptySeq, LenProperties
<1>5. Types'
  <2>1. CotterTypes'
    BY <1>0, <1>1, <1>2 DEF Types, CotterTypes
  <2>2. LaneTypes'
    BY <1>0, <1>1 DEF Types, LaneTypes
  <2>3. matrix' \in [Buffers -> Nat \X Nat]
    BY DEF Return, NoMatrix
  <2>4. ThreadTypes'
    BY <1>0, <1>1, <2>3 DEF Types, ThreadTypes
  <2> QED
    BY <2>1, <2>2, <2>4 DEF Types
<1>6. Phases'
  BY <1>0, <1>1, <1>3 DEF Phases
<1>7. OwnedOnce'
  BY <1>0, <1>1 DEF OwnedOnce, InAvailable, InTasks, HeldByCotter, HeldBy
<1>8. Arrays' /\ Accounted'
  BY <1>0, <1>1 DEF Arrays, Accounted
<1>9. Filled'
  BY <1>0, <1>3, <1>4 DEF Filled
<1>10. AllShuffled'
  <2>1. \A i \in 1..NHDUs : Copied(call, i)
    BY <1>0, <1>1, <1>2, <1>3, <1>4 DEF Accounted, HasTask
  <2>2. \A c \in 1..NCalls : c < call' => c < call \/ c = call
    BY <1>0, <1>2
  <2> SUFFICES ASSUME NEW c \in 1..NCalls, c < call',
                      NEW i \in 1..HDUsPerCall[c], NEW k \in 1..NCells
               PROVE  out[c][i][k] = <<c, i>>
    BY <1>0 DEF AllShuffled
  <2>3. CASE c < call
    BY <1>1, <2>3 DEF AllShuffled
  <2>4. CASE c = call
    BY <2>1, <2>4 DEF Copied, NHDUs
  <2> QED
    BY <2>2, <2>3, <2>4
<1> QED
  BY <1>5, <1>6, <1>7, <1>8, <1>9, <1>10 DEF Inv

-----------------------------------------------------------------------------
(* GetTask: a waiting buffer goes to a shuffle thread. *)
LEMMA GetTaskKeepsInv == ASSUME Inv, NEW n \in Threads, GetTask(n) PROVE Inv'
<1> DEFINE x == Head(tasks)
<1>0. /\ n \in running /\ pc # "terminated" /\ task[n] = <<>> /\ tasks # <<>>
      /\ task' = [task EXCEPT ![n] = <<x>>] /\ tasks' = Tail(tasks)
      /\ copied' = [copied EXCEPT ![n] = 0]
      /\ UNCHANGED <<pc, call, hdu, held, available, tasksEnd, matrix, running, out>>
  BY DEF GetTask, Alive
<1>1. Types /\ Phases /\ OwnedOnce /\ Arrays /\ Filled /\ Accounted /\ AllShuffled
  BY DEF Inv
<1>2. /\ tasks' \in Seq(Task) /\ x \in Task /\ x = tasks[1]
      /\ Len(tasks) \in Nat \ {0} /\ DOMAIN tasks = 1..Len(tasks)
      /\ Len(tasks') = Len(tasks) - 1 /\ DOMAIN tasks' = 1..(Len(tasks) - 1)
      /\ \A i \in 1..(Len(tasks) - 1) : tasks'[i] = tasks[i + 1]
  BY <1>0, <1>1, Tailed DEF Types, LaneTypes
<1> HIDE DEF x
<1>3. <<x>> \in Seq(Task) /\ Len(<<x>>) = 1 /\ <<x>> # <<>> /\ <<x>>[1] = x
  BY <1>2, Single
<1>4. /\ task' \in [Threads -> Seq(Task)] /\ copied' \in [Threads -> Nat]
      /\ task'[n] = <<x>> /\ copied'[n] = 0
      /\ \A t \in Threads : t # n => task'[t] = task[t] /\ copied'[t] = copied[t]
  BY <1>0, <1>1, <1>3 DEF Types, ThreadTypes
<1>5. Types'
  <2>1. CotterTypes'
    BY <1>0, <1>1 DEF Types, CotterTypes
  <2>2. ThreadCount \in Nat
    BY <1>1, Sizes
  <2>3. LaneTypes'
    BY <1>0, <1>1, <1>2, <2>2 DEF Types, LaneTypes
  <2>4. \A t \in Threads : Len(task'[t]) <= 1
    <3>1. Len(task'[n]) <= 1
      BY <1>3, <1>4
    <3>2. \A t \in Threads : t # n => Len(task'[t]) <= 1
      BY <1>1, <1>4 DEF Types, ThreadTypes
    <3> QED
      BY <3>1, <3>2
  <2>5. ThreadTypes'
    BY <1>0, <1>1, <1>4, <2>4 DEF Types, ThreadTypes
  <2> QED
    BY <2>1, <2>3, <2>5 DEF Types
<1>6. Phases'
  BY <1>0, <1>1, <1>4 DEF Phases, NHDUs
<1>7. x.buffer \in Buffers /\ InTasks(x.buffer)
  BY <1>2 DEF Task, InTasks
<1>8. OwnedOnce'
  <2>1. \A i, j \in DOMAIN tasks' : tasks'[i].buffer = tasks'[j].buffer => i = j
    <3> SUFFICES ASSUME NEW i \in DOMAIN tasks', NEW j \in DOMAIN tasks',
                        tasks'[i].buffer = tasks'[j].buffer
                 PROVE  i = j
      OBVIOUS
    <3>1. /\ i \in 1..(Len(tasks) - 1) /\ j \in 1..(Len(tasks) - 1)
          /\ i + 1 \in DOMAIN tasks /\ j + 1 \in DOMAIN tasks
          /\ tasks[i + 1].buffer = tasks[j + 1].buffer
      BY <1>2
    <3>2. i + 1 = j + 1
      BY <1>1, <3>1 DEF OwnedOnce
    <3> QED
      BY <3>1, <3>2
  <2>2. \A b \in Buffers : InTasks(b)' => InTasks(b) /\ b # x.buffer
    <3> SUFFICES ASSUME NEW b \in Buffers, NEW i \in DOMAIN tasks', tasks'[i].buffer = b
                 PROVE  InTasks(b) /\ b # x.buffer
      BY DEF InTasks
    <3>1. /\ i \in 1..(Len(tasks) - 1) /\ b = tasks[i + 1].buffer
          /\ i + 1 \in DOMAIN tasks /\ 1 \in DOMAIN tasks /\ i + 1 # 1
      BY <1>2
    <3>2. b # tasks[1].buffer
      BY <1>1, <3>1 DEF OwnedOnce
    <3> QED
      BY <1>2, <3>1, <3>2 DEF InTasks
  <2>3. \A b \in Buffers : InAvailable(b)' => InAvailable(b)
    BY <1>0 DEF InAvailable
  <2>4. \A b \in Buffers : HeldByCotter(b)' => HeldByCotter(b)
    BY <1>0 DEF HeldByCotter
  <2>5. \A b \in Buffers, t \in Threads : HeldBy(b, t)' => HeldBy(b, t) \/ b = x.buffer
    BY <1>3, <1>4 DEF HeldBy
  <2>6. \A t \in Threads : ~HeldBy(x.buffer, t)
    BY <1>1, <1>7 DEF OwnedOnce
  <2>7. \A t, u \in Threads : task'[t] # <<>> /\ task'[u] # <<>>
                              /\ task'[t][1].buffer = task'[u][1].buffer => t = u
    <3>1. \A t \in Threads : task[t] # <<>> => task[t][1].buffer # x.buffer
      BY <2>6 DEF HeldBy
    <3>2. \A t, u \in Threads : task[t] # <<>> /\ task[u] # <<>>
                                /\ task[t][1].buffer = task[u][1].buffer => t = u
      BY <1>1 DEF OwnedOnce
    <3> SUFFICES ASSUME NEW t \in Threads, NEW u \in Threads, task'[t] # <<>>, task'[u] # <<>>,
                        task'[t][1].buffer = task'[u][1].buffer
                 PROVE  t = u
      OBVIOUS
    <3>3. CASE t # n /\ u # n
      BY <1>4, <3>2, <3>3
    <3>4. CASE t = n /\ u # n
      <4>1. task'[t][1].buffer = x.buffer
        BY <1>3, <1>4, <3>4
      <4>2. task[u] # <<>> /\ task[u][1].buffer = x.buffer
        BY <1>4, <3>4, <4>1
      <4> QED
        BY <3>1, <4>2
    <3>5. CASE t # n /\ u = n
      <4>1. task'[u][1].buffer = x.buffer
        BY <1>3, <1>4, <3>5
      <4>2. task[t] # <<>> /\ task[t][1].buffer = x.buffer
        BY <1>4, <3>5, <4>1
      <4> QED
        BY <3>1, <4>2
    <3> QED
      BY <3>3, <3>4, <3>5
  <2>8. /\ \A b \in Buffers : InAvailable(b) => ~InTasks(b) /\ ~HeldByCotter(b) /\ \A t \in Threads : ~HeldBy(b, t)
        /\ \A b \in Buffers : InTasks(b) => ~HeldByCotter(b) /\ \A t \in Threads : ~HeldBy(b, t)
        /\ \A b \in Buffers : HeldByCotter(b) => \A t \in Threads : ~HeldBy(b, t)
    BY <1>1 DEF OwnedOnce
  <2>9. \A b \in Buffers :
          /\ InAvailable(b)' => ~InTasks(b)' /\ ~HeldByCotter(b)' /\ \A t \in Threads : ~HeldBy(b, t)'
          /\ InTasks(b)' => ~HeldByCotter(b)' /\ \A t \in Threads : ~HeldBy(b, t)'
          /\ HeldByCotter(b)' => \A t \in Threads : ~HeldBy(b, t)'
    BY <1>7, <2>2, <2>3, <2>4, <2>5, <2>8, Zenon
  <2>10. \A i, j \in DOMAIN available' : available'[i] = available'[j] => i = j
    BY <1>0, <1>1 DEF OwnedOnce
  <2> QED
    BY <2>1, <2>7, <2>9, <2>10 DEF OwnedOnce
<1>9. Filled'
  <2>1. \A i \in DOMAIN tasks' : /\ tasks'[i].hdu \in 1..(hdu - 1)
                                 /\ matrix[tasks'[i].buffer] = <<call, tasks'[i].hdu>>
    <3>1. \A i \in DOMAIN tasks' : i + 1 \in DOMAIN tasks /\ tasks'[i] = tasks[i + 1]
      BY <1>2
    <3> QED
      BY <1>1, <3>1 DEF Filled
  <2>2. x.hdu \in 1..(hdu - 1) /\ matrix[x.buffer] = <<call, x.hdu>>
    BY <1>1, <1>2 DEF Filled
  <2>3. \A k \in 1..NCells : ~(k <= 0)
    OBVIOUS
  <2>4. \A t \in Threads : task'[t] # <<>> =>
          /\ task'[t][1].hdu \in 1..(hdu - 1)
          /\ matrix[task'[t][1].buffer] = <<call, task'[t][1].hdu>>
          /\ \A k \in 1..NCells : k <= copied'[t] =>
               out[call][task'[t][1].hdu][k] = <<call, task'[t][1].hdu>>
    <3> SUFFICES ASSUME NEW t \in Threads, task'[t] # <<>>
                 PROVE  /\ task'[t][1].hdu \in 1..(hdu - 1)
                        /\ matrix[task'[t][1].buffer] = <<call, task'[t][1].hdu>>
                        /\ \A k \in 1..NCells : k <= copied'[t] =>
                             out[call][task'[t][1].hdu][k] = <<call, task'[t][1].hdu>>
      OBVIOUS
    <3>1. CASE t = n
      BY <3>1, <1>3, <1>4, <2>2, <2>3
    <3>2. CASE t # n
      <4>1. task'[t] = task[t] /\ copied'[t] = copied[t] /\ task[t] # <<>>
        BY <3>2, <1>4
      <4>2. /\ task[t][1].hdu \in 1..(hdu - 1)
            /\ matrix[task[t][1].buffer] = <<call, task[t][1].hdu>>
            /\ \A k \in 1..NCells : k <= copied[t] =>
                 out[call][task[t][1].hdu][k] = <<call, task[t][1].hdu>>
        BY <4>1, <1>1 DEF Filled
      <4> QED
        BY <4>1, <4>2
    <3> QED
      BY <3>1, <3>2
  <2>5. call' = call /\ hdu' = hdu /\ matrix' = matrix /\ out' = out
    BY <1>0
  <2> QED
    BY <2>1, <2>4, <2>5 DEF Filled
<1>10. Arrays' /\ AllShuffled'
  BY <1>0, <1>1 DEF Arrays, AllShuffled
<1>11. Accounted'
  <2> SUFFICES ASSUME pc \in {"spawn", "take", "fill", "join"}, NEW i \in 1..(hdu - 1)
               PROVE  \/ \E j \in DOMAIN tasks' : tasks'[j].hdu = i
                      \/ \E t \in Threads : HasTask(t, i)'
                      \/ Copied(call, i)
    BY <1>0 DEF Accounted, Copied
  <2>1. CASE \E j \in DOMAIN tasks : tasks[j].hdu = i
    <3>1. PICK j \in DOMAIN tasks : tasks[j].hdu = i
      BY <2>1
    <3>2. CASE j = 1
      BY <3>1, <3>2, <1>2, <1>3, <1>4 DEF HasTask
    <3>3. CASE j # 1
      <4>1. j - 1 \in DOMAIN tasks' /\ tasks'[j - 1] = tasks[j]
        BY <3>3, <1>2
      <4> QED
        BY <3>1, <4>1
    <3> QED
      BY <3>2, <3>3
  <2>2. CASE \E t \in Threads : HasTask(t, i)
    <3>1. PICK t \in Threads : HasTask(t, i)
      BY <2>2
    <3>2. t # n
      BY <3>1, <1>0 DEF HasTask
    <3> QED
      BY <3>1, <3>2, <1>4 DEF HasTask
  <2> QED
    BY <1>1, <2>1, <2>2 DEF Accounted
<1> QED
  BY <1>5, <1>6, <1>8, <1>9, <1>10, <1>11 DEF Inv

(* What writing one cell does to the arrays. *)
Written(c, i, k, v) == out' = [out EXCEPT ![c][i][k] = v]
LEMMA CellWritten ==
  ASSUME Arrays, NEW c0 \in 1..NCalls, NEW i0 \in 1..HDUsPerCall[c0], NEW k0 \in 1..NCells, NEW v,
         Written(c0, i0, k0, v)
  PROVE  /\ Arrays'
         /\ \A c \in 1..NCalls : \A i \in 1..HDUsPerCall[c], k \in 1..NCells :
              out'[c][i][k] = IF c = c0 /\ i = i0 /\ k = k0 THEN v ELSE out[c][i][k]
<1>1. [out[c0][i0] EXCEPT ![k0] = v] = [k \in 1..NCells |-> IF k = k0 THEN v ELSE out[c0][i0][k]]
  BY DEF Arrays
<1>2. [out[c0] EXCEPT ![i0] = [out[c0][i0] EXCEPT ![k0] = v]]
      = [i \in 1..HDUsPerCall[c0] |-> IF i = i0 THEN [out[c0][i0] EXCEPT ![k0] = v] ELSE out[c0][i]]
  BY DEF Arrays
<1>3. out' = [c \in 1..NCalls |-> IF c = c0 THEN [out[c0] EXCEPT ![i0] = [out[c0][i0] EXCEPT ![k0] = v]]
                                  ELSE out[c]]
  BY DEF Arrays, Written
<1>4. out'[c0] = [i \in 1..HDUsPerCall[c0] |-> IF i = i0 THEN [out[c0][i0] EXCEPT ![k0] = v] ELSE out[c0][i]]
  BY <1>2, <1>3
<1>5. \A c \in 1..NCalls : c # c0 => out'[c] = out[c]
  BY <1>3
<1>6. out'[c0][i0] = [k \in 1..NCells |-> IF k = k0 THEN v ELSE out[c0][i0][k]]
  BY <1>1, <1>4
<1>7. \A i \in 1..HDUsPerCall[c0] : i # i0 => out'[c0][i] = out[c0][i]
  BY <1>4
<1>8. \A c \in 1..NCalls : \A i \in 1..HDUsPerCall[c], k \in 1..NCells :
        out'[c][i][k] = IF c = c0 /\ i = i0 /\ k = k0 THEN v ELSE out[c][i][k]
  <2> SUFFICES ASSUME NEW c \in 1..NCalls, NEW i \in 1..HDUsPerCall[c], NEW k \in 1..NCells
               PROVE  out'[c][i][k] = IF c = c0 /\ i = i0 /\ k = k0 THEN v ELSE out[c][i][k]
    OBVIOUS
  <2>1. CASE c = c0 /\ i = i0
    BY <2>1, <1>6
  <2>2. CASE c = c0 /\ i # i0
    BY <2>2, <1>7
  <2>3. CASE c # c0
    BY <2>3, <1>5
  <2> QED
    BY <2>1, <2>2, <2>3
<1>9. out' = [c \in 1..NCalls |-> out'[c]]
  BY <1>3
<1>10. ASSUME NEW c \in 1..NCalls PROVE out'[c] = [i \in 1..HDUsPerCall[c] |-> out'[c][i]]
  <2>1. CASE c = c0
    BY <2>1, <1>4
  <2>2. CASE c # c0
    BY <2>2, <1>5 DEF Arrays
  <2> QED
    BY <2>1, <2>2
<1>11. ASSUME NEW c \in 1..NCalls, NEW i \in 1..HDUsPerCall[c]
       PROVE  out'[c][i] = [k \in 1..NCells |-> out'[c][i][k]]
  <2>1. CASE c = c0 /\ i = i0
    BY <2>1, <1>6
  <2>2. CASE c = c0 /\ i # i0
    BY <2>2, <1>7 DEF Arrays
  <2>3. CASE c # c0
    BY <2>3, <1>5 DEF Arrays
  <2> QED
    BY <2>1, <2>2, <2>3
<1> QED
  BY <1>8, <1>9, <1>10, <1>11 DEF Arrays

(* Shuffle: a cell gets what belongs there, whatever has been in it. *)
LEMMA ShuffleKeepsInv == ASSUME Inv, NEW n \in Threads, Shuffle(n) PROVE Inv'
<1> DEFINE h == task[n][1].hdu
           k0 == copied[n] + 1
           v0 == matrix[task[n][1].buffer]
<1>0. /\ n \in running /\ pc # "terminated" /\ task[n] # <<>> /\ copied[n] < NCells
      /\ copied' = [copied EXCEPT ![n] = copied[n] + 1]
      /\ out' = [out EXCEPT ![call][h][k0] = v0]
      /\ UNCHANGED <<pc, call, hdu, held, available, tasks, tasksEnd, matrix, running, task>>
  BY DEF Shuffle, Alive
<1>1. Types /\ Phases /\ OwnedOnce /\ Arrays /\ Filled /\ Accounted /\ AllShuffled
  BY DEF Inv
<1>2. pc \in {"take", "fill", "join"}
  BY <1>0, <1>1 DEF Phases, Types, CotterTypes
<1>3. call \in 1..NCalls /\ NHDUs \in Nat /\ hdu \in Nat /\ hdu <= NHDUs + 1
  BY <1>1, <1>2, Sizes DEF Phases, Types, CotterTypes
<1>4. h \in 1..HDUsPerCall[call] /\ h \in 1..(hdu - 1) /\ v0 = <<call, h>>
  <2>1. h \in 1..(hdu - 1) /\ v0 = <<call, h>>
    BY <1>0, <1>1 DEF Filled
  <2> QED
    BY <1>3, <2>1 DEF NHDUs
<1>5. /\ copied' \in [Threads -> Nat] /\ copied[n] \in Nat /\ copied'[n] = copied[n] + 1
      /\ \A t \in Threads : t # n => copied'[t] = copied[t]
  BY <1>0, <1>1 DEF Types, ThreadTypes
<1>6. k0 \in 1..NCells
  BY <1>0, <1>1, <1>5, Sizes
<1> HIDE DEF h, k0, v0
<1>7. /\ Arrays'
      /\ \A c \in 1..NCalls : \A i \in 1..HDUsPerCall[c], k \in 1..NCells :
           out'[c][i][k] = IF c = call /\ i = h /\ k = k0 THEN <<call, h>> ELSE out[c][i][k]
  <2>1. PICK c1 \in 1..NCalls : c1 = call
    BY <1>3
  <2>2. PICK h1 \in 1..HDUsPerCall[c1], k1 \in 1..NCells, v1 \in {v0} : h1 = h /\ k1 = k0
    BY <2>1, <1>4, <1>6
  <2>3. Written(c1, h1, k1, v1)
    BY <1>0, <2>1, <2>2 DEF Written
  <2>4. Arrays
    BY <1>1
  <2>5. /\ Arrays'
        /\ \A c \in 1..NCalls : \A i \in 1..HDUsPerCall[c], k \in 1..NCells :
             out'[c][i][k] = IF c = c1 /\ i = h1 /\ k = k1 THEN v1 ELSE out[c][i][k]
    BY <2>1, <2>2, <2>3, <2>4, CellWritten
  <2> QED
    BY <2>1, <2>2, <2>5, <1>4
<1>8. \A c \in 1..NCalls : \A i \in 1..HDUsPerCall[c], k \in 1..NCells :
        out[c][i][k] = <<c, i>> => out'[c][i][k] = <<c, i>>
  BY <1>7
<1>9. Types'
  <2>1. CotterTypes' /\ LaneTypes'
    BY <1>0, <1>1 DEF Types, CotterTypes, LaneTypes
  <2>2. ThreadTypes'
    BY <1>0, <1>1, <1>5 DEF Types, ThreadTypes
  <2> QED
    BY <2>1, <2>2 DEF Types
<1>10. Phases'
  BY <1>0, <1>1 DEF Phases, NHDUs
<1>11. OwnedOnce'
  BY <1>0, <1>1 DEF OwnedOnce, InAvailable, InTasks, HeldByCotter, HeldBy
<1>12. Filled'
  <2>1. \A t \in Threads : task[t] # <<>> =>
          \A k \in 1..NCells : k <= copied'[t] =>
             out'[call][task[t][1].hdu][k] = <<call, task[t][1].hdu>>
    <3> SUFFICES ASSUME NEW t \in Threads, task[t] # <<>>, NEW k \in 1..NCells, k <= copied'[t]
                 PROVE  out'[call][task[t][1].hdu][k] = <<call, task[t][1].hdu>>
      OBVIOUS
    <3>1. task[t][1].hdu \in 1..HDUsPerCall[call]
      <4>1. task[t][1].hdu \in 1..(hdu - 1)
        BY <1>1 DEF Filled
      <4> QED
        BY <1>3, <4>1 DEF NHDUs
    <3>2. CASE k <= copied[t]
      <4>1. out[call][task[t][1].hdu][k] = <<call, task[t][1].hdu>>
        BY <1>1, <3>2 DEF Filled
      <4> QED
        BY <1>3, <1>8, <3>1, <4>1
    <3>3. CASE ~(k <= copied[t])
      <4>1. t = n /\ k = k0
        BY <1>5, <3>3 DEF k0
      <4>2. task[t][1].hdu = h
        BY <4>1 DEF h
      <4> QED
        BY <1>3, <1>7, <3>1, <4>1, <4>2
    <3> QED
      BY <3>2, <3>3
  <2>2. call' = call /\ hdu' = hdu /\ matrix' = matrix /\ tasks' = tasks /\ task' = task
    BY <1>0
  <2> QED
    BY <1>1, <2>1, <2>2 DEF Filled
<1>13. Accounted'
  <2> SUFFICES ASSUME NEW i \in 1..(hdu - 1)
               PROVE  \/ \E j \in DOMAIN tasks : tasks[j].hdu = i
                      \/ \E t \in Threads : HasTask(t, i)
                      \/ Copied(call, i)'
    BY <1>0 DEF Accounted, HasTask, Copied
  <2>1. i \in 1..HDUsPerCall[call]
    BY <1>3 DEF NHDUs
  <2>2. Copied(call, i) => Copied(call, i)'
    BY <1>0, <1>3, <1>8, <2>1 DEF Copied
  <2> QED
    BY <1>1, <1>2, <2>2 DEF Accounted
<1>14. AllShuffled'
  BY <1>0, <1>1, <1>8 DEF AllShuffled
<1> QED
  BY <1>7, <1>9, <1>10, <1>11, <1>12, <1>13, <1>14 DEF Inv

(* ReturnBuffer: the HDU is copied, its buffer is free again. *)
LEMMA ReturnBufferKeepsInv == ASSUME Inv, NEW n \in Threads, ReturnBuffer(n) PROVE Inv'
<1>b. PICK b0 : b0 = task[n][1].buffer
  OBVIOUS
<1>0. /\ n \in running /\ pc # "terminated" /\ task[n] # <<>> /\ copied[n] = NCells
      /\ Len(available) < ThreadCount
      /\ available' = Append(available, b0)
      /\ task' = [task EXCEPT ![n] = <<>>]
      /\ UNCHANGED <<pc, call, hdu, held, tasks, tasksEnd, matrix, running, copied, out>>
  BY <1>b DEF ReturnBuffer, Alive
<1>1. Types /\ Phases /\ OwnedOnce /\ Arrays /\ Filled /\ Accounted /\ AllShuffled
  BY DEF Inv
<1>2. b0 \in Buffers /\ HeldBy(b0, n)
  BY <1>b, <1>0, <1>1, TaskBuffers
<1>3. /\ available' \in Seq(Buffers) /\ Len(available) \in Nat
      /\ DOMAIN available = 1..Len(available) /\ DOMAIN available' = 1..(Len(available) + 1)
      /\ Len(available') = Len(available) + 1
      /\ \A i \in 1..Len(available) : available'[i] = available[i]
      /\ available'[Len(available) + 1] = b0
  BY <1>0, <1>1, <1>2, Appended DEF Types, LaneTypes
<1>4. <<>> \in Seq(Task) /\ Len(<<>>) = 0
  BY EmptySeq
<1>5. /\ task' \in [Threads -> Seq(Task)] /\ task'[n] = <<>>
      /\ \A t \in Threads : t # n => task'[t] = task[t]
  BY <1>0, <1>1, <1>4 DEF Types, ThreadTypes
<1>6. Types'
  <2>1. CotterTypes'
    BY <1>0, <1>1 DEF Types, CotterTypes
  <2>2. ThreadCount \in Nat
    BY <1>1, Sizes
  <2>3. LaneTypes'
    BY <1>0, <1>1, <1>3, <2>2 DEF Types, LaneTypes
  <2>4. \A t \in Threads : Len(task'[t]) <= 1
    <3>1. Len(task'[n]) <= 1
      BY <1>4, <1>5
    <3>2. \A t \in Threads : t # n => Len(task'[t]) <= 1
      BY <1>1, <1>5 DEF Types, ThreadTypes
    <3> QED
      BY <3>1, <3>2
  <2>5. ThreadTypes'
    BY <1>0, <1>1, <1>5, <2>4 DEF Types, ThreadTypes
  <2> QED
    BY <2>1, <2>3, <2>5 DEF Types
<1>7. Phases'
  <2>1. pc # "spawn"
    BY <1>0, <1>1 DEF Phases
  <2>2. \A t \in Threads : t \notin running => task'[t] = <<>>
    BY <1>1, <1>5 DEF Phases
  <2> QED
    BY <1>0, <1>1, <2>1, <2>2 DEF Phases, NHDUs
<1>8. OwnedOnce'
  <2>1. /\ \A b \in Buffers : InAvailable(b) => ~InTasks(b) /\ ~HeldByCotter(b) /\ \A t \in Threads : ~HeldBy(b, t)
        /\ \A b \in Buffers : InTasks(b) => ~HeldByCotter(b) /\ \A t \in Threads : ~HeldBy(b, t)
        /\ \A b \in Buffers : HeldByCotter(b) => \A t \in Threads : ~HeldBy(b, t)
    BY <1>1 DEF OwnedOnce
  <2>2. ~InAvailable(b0) /\ ~InTasks(b0) /\ ~HeldByCotter(b0)
    BY <1>2, <2>1
  <2>3. \A b \in Buffers : InAvailable(b)' => InAvailable(b) \/ b = b0
    <3> SUFFICES ASSUME NEW b \in Buffers, NEW i \in DOMAIN available', available'[i] = b
                 PROVE  InAvailable(b) \/ b = b0
      BY DEF InAvailable
    <3> QED
      BY <1>3 DEF InAvailable
  <2>4. \A b \in Buffers : /\ InTasks(b)' => InTasks(b)
                           /\ HeldByCotter(b)' => HeldByCotter(b)
    BY <1>0 DEF InTasks, HeldByCotter
  <2>5. \A b \in Buffers, t \in Threads : HeldBy(b, t)' => t # n /\ HeldBy(b, t)
    BY <1>5 DEF HeldBy
  <2>6. \A t, u \in Threads : task[t] # <<>> /\ task[u] # <<>>
                              /\ task[t][1].buffer = task[u][1].buffer => t = u
    BY <1>1 DEF OwnedOnce
  <2>7. \A t \in Threads : ~HeldBy(b0, t)'
    <3>1. task[n] # <<>> /\ task[n][1].buffer = b0
      BY <1>2 DEF HeldBy
    <3>2. ASSUME NEW t \in Threads, HeldBy(b0, t) PROVE t = n
      <4>1. task[t] # <<>> /\ task[t][1].buffer = b0
        BY <3>2 DEF HeldBy
      <4> QED
        BY <2>6, <3>1, <4>1
    <3> QED
      BY <1>2, <2>5, <3>2
  <2>8. \A b \in Buffers :
          /\ InAvailable(b)' => ~InTasks(b)' /\ ~HeldByCotter(b)' /\ \A t \in Threads : ~HeldBy(b, t)'
          /\ InTasks(b)' => ~HeldByCotter(b)' /\ \A t \in Threads : ~HeldBy(b, t)'
          /\ HeldByCotter(b)' => \A t \in Threads : ~HeldBy(b, t)'
    <3> SUFFICES ASSUME NEW b \in Buffers
                 PROVE  /\ InAvailable(b)' => ~InTasks(b)' /\ ~HeldByCotter(b)' /\ \A t \in Threads : ~HeldBy(b, t)'
                        /\ InTasks(b)' => ~HeldByCotter(b)' /\ \A t \in Threads : ~HeldBy(b, t)'
                        /\ HeldByCotter(b)' => \A t \in Threads : ~HeldBy(b, t)'
      OBVIOUS
    <3>1. b = b0 => ~InTasks(b)' /\ ~HeldByCotter(b)' /\ \A t \in Threads : ~HeldBy(b, t)'
      BY <2>2, <2>4, <2>7
    <3>2. b # b0 => (InAvailable(b)' => InAvailable(b))
      BY <2>3
    <3>3. \A t \in Threads : HeldBy(b, t)' => HeldBy(b, t)
      BY <2>5
    <3> QED
      BY <2>1, <2>4, <3>1, <3>2, <3>3
  <2>9. \A i \in 1..Len(available) : available[i] # b0
    BY <1>3, <2>2 DEF InAvailable
  <2>10. \A i, j \in DOMAIN available' : available'[i] = available'[j] => i = j
    BY <1>1, <1>3, <2>9 DEF OwnedOnce
  <2>11. \A i, j \in DOMAIN tasks' : tasks'[i].buffer = tasks'[j].buffer => i = j
    BY <1>0, <1>1 DEF OwnedOnce
  <2>12. \A t, u \in Threads : task'[t] # <<>> /\ task'[u] # <<>>
                               /\ task'[t][1].buffer = task'[u][1].buffer => t = u
    BY <1>5, <2>6
  <2> QED
    BY <2>8, <2>10, <2>11, <2>12 DEF OwnedOnce
<1>9. Filled'
  <2>1. call' = call /\ hdu' = hdu /\ matrix' = matrix /\ tasks' = tasks /\ copied' = copied /\ out' = out
    BY <1>0
  <2> QED
    BY <1>1, <1>5, <2>1 DEF Filled
<1>10. Arrays' /\ AllShuffled'
  BY <1>0, <1>1 DEF Arrays, AllShuffled
<1>11. Accounted'
  <2> SUFFICES ASSUME pc \in {"spawn", "take", "fill", "join"}, NEW i \in 1..(hdu - 1)
               PROVE  \/ \E j \in DOMAIN tasks : tasks[j].hdu = i
                      \/ \E t \in Threads : HasTask(t, i)'
                      \/ Copied(call, i)
    BY <1>0 DEF Accounted, Copied
  <2>1. CASE \E t \in Threads : HasTask(t, i)
    <3>1. PICK t \in Threads : HasTask(t, i)
      BY <2>1
    <3>2. CASE t = n
      <4>1. NCells \in Nat
        BY <1>1, Sizes
      <4>2. \A k \in 1..NCells : k <= copied[n]
        BY <1>0, <4>1
      <4> QED
        BY <1>0, <1>1, <3>1, <3>2, <4>2 DEF Filled, HasTask, Copied
    <3>3. CASE t # n
      BY <3>1, <3>3, <1>5 DEF HasTask
    <3> QED
      BY <3>2, <3>3
  <2> QED
    BY <1>1, <2>1 DEF Accounted
<1> QED
  BY <1>6, <1>7, <1>8, <1>9, <1>10, <1>11 DEF Inv

(* Exit: the lane of tasks has ended, and nothing is in it any more. *)
LEMMA ExitKeepsInv == ASSUME Inv, NEW n \in Threads, Exit(n) PROVE Inv'
<1>0. /\ n \in running /\ pc # "terminated" /\ task[n] = <<>> /\ tasks = <<>> /\ tasksEnd
      /\ running' = running \ {n}
      /\ UNCHANGED <<pc, call, hdu, held, available, tasks, tasksEnd, matrix, task, copied, out>>
  BY DEF Exit, Alive
<1>1. Types /\ Phases /\ OwnedOnce /\ Arrays /\ Filled /\ Accounted /\ AllShuffled
  BY DEF Inv
<1>2. pc = "join"
  BY <1>0, <1>1 DEF Phases, Types, CotterTypes
<1>3. CotterTypes'
  BY <1>0, <1>1 DEF Types, CotterTypes
<1>4. LaneTypes' /\ ThreadTypes'
  BY <1>0, <1>1 DEF Types, LaneTypes, ThreadTypes
<1>5. Phases'
  BY <1>0, <1>1, <1>2 DEF Phases, NHDUs
<1>6. OwnedOnce'
  BY <1>0, <1>1 DEF OwnedOnce, InAvailable, InTasks, HeldByCotter, HeldBy
<1>7. Arrays' /\ AllShuffled'
  BY <1>0, <1>1 DEF Arrays, AllShuffled
<1>8. Filled'
  BY <1>0, <1>1 DEF Filled
<1>9. Accounted'
  BY <1>0, <1>1 DEF Accounted, HasTask, Copied
<1> QED
  BY <1>3, <1>4, <1>5, <1>6, <1>7, <1>8, <1>9 DEF Inv, Types

LEMMA StutterKeepsInv == ASSUME Inv, UNCHANGED vars PROVE Inv'
<1>0. UNCHANGED <<pc, call, hdu, held, available, tasks, tasksEnd, matrix, running, task, copied, out>>
  BY DEF vars
<1>1. Types /\ Phases /\ OwnedOnce /\ Arrays /\ Filled /\ Accounted /\ AllShuffled
  BY DEF Inv
<1>2. CotterTypes' /\ LaneTypes' /\ ThreadTypes'
  BY <1>0, <1>1 DEF Types, CotterTypes, LaneTypes, ThreadTypes
<1>3. Phases'
  BY <1>0, <1>1 DEF Phases, NHDUs
<1>4. OwnedOnce'
  BY <1>0, <1>1 DEF OwnedOnce, InAvailable, InTasks, HeldByCotter, HeldBy
<1>5. Arrays' /\ AllShuffled'
  BY <1>0, <1>1 DEF Arrays, AllShuffled
<1>6. Filled'
  BY <1>0, <1>1 DEF Filled
<1>7. Accounted'
  BY <1>0, <1>1 DEF Accounted, HasTask, Copied
<1> QED
  BY <1>2, <1>3, <1>4, <1>5, <1>6, <1>7 DEF Inv, Types

-----------------------------------------------------------------------------
LEMMA InvNext == Inv /\ [Next]_vars => Inv'
<1> SUFFICES ASSUME Inv, [Next]_vars PROVE Inv'
  OBVIOUS
<1>1. CASE CotterStep
  BY <1>1, StartKeepsInv, SpawnKeepsInv, TakeBufferKeepsInv, PostTaskKeepsInv, WriteEndKeepsInv,
     ReturnKeepsInv DEF CotterStep
<1>2. CASE Throw
  BY <1>2, ThrowKeepsInv
<1>3. CASE \E t \in Threads : Worker(t)
  BY <1>3, GetTaskKeepsInv, ShuffleKeepsInv, ReturnBufferKeepsInv, ExitKeepsInv DEF Worker
<1>4. CASE Stopped \/ UNCHANGED vars
  BY <1>4, StutterKeepsInv DEF Stopped
<1> QED
  BY <1>1, <1>2, <1>3, <1>4 DEF Next

(* Inv is inductive: in every state of Read's threads, what they own, what    *)
(* the lanes hold and what has been copied fit together.                     *)
THEOREM InvHolds == Spec => []Inv
<1>1. Init => Inv
  BY InvInit
<1>2. Inv /\ [Next]_vars => Inv'
  BY InvNext
<1> QED
  BY <1>1, <1>2, PTL DEF Spec

(* The state of the threads of GPUFileReader::Read keeps its types, for any   *)
(* numbers of threads, calls, HDUs and cells.                                *)
THEOREM TypeCorrect == Spec => []TypeOK
<1>1. Inv => TypeOK
  <2> SUFFICES ASSUME Inv PROVE TypeOK
    OBVIOUS
  <2>1. Types /\ Phases
    BY DEF Inv
  <2>2. pc \notin {"start", "done"} => hdu \in 1..(NHDUs + 1)
    BY <2>1, Sizes DEF Phases, Types, CotterTypes
  <2>3. call \in 1..(NCalls + 1)
    BY <2>1, Sizes DEF Types, CotterTypes
  <2>4. tasksEnd \in BOOLEAN
    BY <2>1, Zenon DEF Types, CotterTypes
  <2> QED
    BY <2>1, <2>2, <2>3, <2>4 DEF TypeOK, Types, CotterTypes, LaneTypes, ThreadTypes
<1> QED
  BY <1>1, InvHolds, PTL

(* A matrix buffer is in one place at a time: free, being filled, waiting or  *)
(* with one shuffle thread.                                                  *)
THEOREM BuffersOwnedOnce == Spec => []OwnedOnce
<1>1. Inv => OwnedOnce
  BY DEF Inv
<1> QED
  BY <1>1, InvHolds, PTL

(* When Read returns, every HDU of the call has been copied whole, from a     *)
(* buffer that held it.                                                      *)
THEOREM EverythingShuffled == Spec => []AllShuffled
<1>1. Inv => AllShuffled
  BY DEF Inv
<1> QED
  BY <1>1, InvHolds, PTL

-----------------------------------------------------------------------------
(* Pigeonhole: a list of different buffers that lacks one has room left. *)
LEMMA RoomLeft ==
  ASSUME ThreadCount \in Nat, NEW b0 \in Buffers, NEW n \in Nat,
         NEW f \in [1..n -> Buffers \ {b0}],
         \A i, j \in 1..n : f[i] = f[j] => i = j
  PROVE  n < ThreadCount
<1>1. /\ IsFiniteSet(Buffers) /\ Cardinality(Buffers) = ThreadCount
      /\ IsFiniteSet(1..n) /\ Cardinality(1..n) = n
  BY FS_Interval DEF Buffers
<1>2. IsFiniteSet(Buffers \ {b0}) /\ Cardinality(Buffers \ {b0}) = ThreadCount - 1
  BY <1>1, FS_RemoveElement
<1>3. ~(ThreadCount - 1 < n)
  <2> SUFFICES ASSUME ThreadCount - 1 < n PROVE FALSE
    OBVIOUS
  <2>1. \E x, y \in 1..n : x # y /\ f[x] = f[y]
    BY <1>1, <1>2, FS_PigeonHole
  <2> QED
    BY <2>1
<1> QED
  BY <1>3

(* Neither Cotter's thread, when it posts a task, nor a shuffle thread, when  *)
(* it gives a buffer back, finds the lane full.                              *)
THEOREM SendersNeverBlock == Spec => []LanesHaveRoom
<1>1. Inv => LanesHaveRoom
  <2> SUFFICES ASSUME Inv PROVE LanesHaveRoom
    OBVIOUS
  <2>1. Types /\ Phases /\ OwnedOnce /\ ThreadCount \in Nat
    BY Sizes DEF Inv
  <2>2. ASSUME pc = "fill" PROVE Len(tasks) < ThreadCount
    <3> DEFINE b0 == held[1]
               f == [i \in 1..Len(tasks) |-> tasks[i].buffer]
    <3>1. b0 \in Buffers /\ HeldByCotter(b0)
      <4>1. held \in Seq(Buffers) /\ Len(held) = 1
        BY <2>1, <2>2 DEF Phases, Types, LaneTypes
      <4> QED
        BY <4>1, ElementOfSeq DEF HeldByCotter
    <3>2. Len(tasks) \in Nat /\ DOMAIN tasks = 1..Len(tasks)
      BY <2>1, LenProperties DEF Types, LaneTypes
    <3>3. \A i \in 1..Len(tasks) : tasks[i].buffer \in Buffers \ {b0}
      BY <2>1, <3>1, <3>2, TaskBuffers DEF OwnedOnce
    <3>4. f \in [1..Len(tasks) -> Buffers \ {b0}]
      BY <3>3
    <3>5. \A i, j \in 1..Len(tasks) : f[i] = f[j] => i = j
      BY <2>1, <3>2 DEF OwnedOnce
    <3> HIDE DEF b0, f
    <3> QED
      BY <2>1, <3>1, <3>2, <3>4, <3>5, RoomLeft
  <2>3. ASSUME NEW t \in Threads, task[t] # <<>> PROVE Len(available) < ThreadCount
    <3> DEFINE b0 == task[t][1].buffer
    <3>1. b0 \in Buffers /\ HeldBy(b0, t)
      BY <2>1, <2>3, TaskBuffers
    <3>2. Len(available) \in Nat /\ DOMAIN available = 1..Len(available)
      BY <2>1, LenProperties DEF Types, LaneTypes
    <3>3. ~InAvailable(b0)
      BY <2>1, <3>1 DEF OwnedOnce
    <3>4. \A i \in 1..Len(available) : available[i] \in Buffers \ {b0}
      BY <2>1, <3>2, <3>3, ElementOfSeq DEF InAvailable, Types, LaneTypes
    <3>5. available \in [1..Len(available) -> Buffers \ {b0}]
      BY <2>1, <3>4, LenProperties DEF Types, LaneTypes
    <3>6. \A i, j \in 1..Len(available) : available[i] = available[j] => i = j
      BY <2>1, <3>2 DEF OwnedOnce
    <3> HIDE DEF b0
    <3> QED
      BY <2>1, <3>1, <3>2, <3>5, <3>6, RoomLeft
  <2> QED
    BY <2>2, <2>3 DEF LanesHaveRoom
<1> QED
  BY <1>1, InvHolds, PTL
=============================================================================
