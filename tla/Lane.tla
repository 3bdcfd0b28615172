-------------------------------- MODULE Lane --------------------------------
(***************************************************************************)
(* ao::lane (lane.h): the synchronised cyclic buffer between the threads   *)
(* of GPUFileReader.  Writers and readers are threads that call write and  *)
(* read in a loop, write_end is called once the producers have returned.   *)
(*                                                                         *)
(* write(element) is write(elements, n) with n = 1, and read(destination)  *)
(* is read(destinations, n) with n = 1: they wait for, store and take the  *)
(* same elements and notify the same condition.  A critical section, from  *)
(* the mutex to its release or to wait(), is one step.  The two condition  *)
(* variables are one set of sleepers: writers sleep only in                *)
(* _writing_possible_condition, readers only in                            *)
(* _reading_possible_condition, and every notification is notify_all.      *)
(***************************************************************************)
EXTENDS Naturals, Sequences, FiniteSets

CONSTANTS Writers, Readers,
          Capacity,     \* _capacity
          PerWriter,    \* bound: elements a writer writes
          MaxBatch      \* bound: elements of one call

ASSUME LaneAssumption ==
  /\ Capacity \in Nat \ {0} /\ PerWriter \in Nat /\ MaxBatch \in Nat \ {0}
  /\ Writers \intersect Readers = {}

VARIABLES
  cell,             \* _buffer
  writePosition, freeWriteSpace, status,  \* _write_position, ...
  inCall,           \* the threads in a call of write or read
  todo,             \* per writer: elements of the call not stored yet (n)
  left,             \* per reader: elements of the call not taken yet (n_left)
  finished,         \* the readers told of the end, which do not call again
  asleep,           \* the threads asleep in wait()
  stored, taken     \* history: what was stored and what was taken, in order

laneVars == <<cell, writePosition, freeWriteSpace>>
vars == <<cell, writePosition, freeWriteSpace, status, inCall, todo, left,
          finished, asleep, stored, taken>>

Threads == Writers \union Readers
(* A writer's elements are told apart by number. *)
Element == Writers \X (1..PerWriter)
Written(w) == Cardinality({i \in DOMAIN stored : stored[i][1] = w})
Least(a, b) == IF a <= b THEN a ELSE b

ReadPosition == (writePosition + freeWriteSpace) % Capacity
FreeReadSpace == Capacity - freeWriteSpace

Init ==
  /\ cell \in [0..(Capacity - 1) -> {<<>>}]
  /\ writePosition = 0 /\ freeWriteSpace = Capacity /\ status = "normal"
  /\ inCall = {} /\ asleep = {} /\ finished = {}
  /\ todo = [w \in Writers |-> <<>>] /\ left = [r \in Readers |-> 0]
  /\ stored = <<>> /\ taken = <<>>

-----------------------------------------------------------------------------
(* immediate_write of the first k elements of s: positions from             *)
(* _write_position on, round the end of the array.                          *)
(* (Slip: the part that wraps is forgotten.)                                *)
CellsAfterWriteUnwrapped(s, k) ==
  [p \in DOMAIN cell |->
     IF p >= writePosition /\ p - writePosition < k THEN s[p - writePosition + 1] ELSE cell[p]]

CellsAfterWrite(s, k) ==
  [p \in DOMAIN cell |->
     LET i == (p + Capacity - writePosition) % Capacity
     IN  IF i < k THEN s[i + 1] ELSE cell[p]]

(* immediate_read of k elements: from read_position(), round the end. *)
CellsRead(k) == [i \in 1..k |-> cell[(ReadPosition + i - 1) % Capacity]]

(* One turn of write_generic with the mutex: store what fits, notify the    *)
(* readers if that is something, and return or wait for the rest.           *)
StoreFirst(w, s, k, notified) ==
  /\ cell' = CellsAfterWrite(s, k)
  /\ writePosition' = (writePosition + k) % Capacity
  /\ freeWriteSpace' = freeWriteSpace - k
  /\ stored' = stored \o SubSeq(s, 1, k)
  /\ todo' = [todo EXCEPT ![w] = SubSeq(s, k + 1, Len(s))]
  /\ IF k = Len(s)
     THEN inCall' = inCall \ {w} /\ asleep' = asleep \ notified
     ELSE inCall' = inCall \union {w} /\ asleep' = (asleep \ notified) \union {w}
  /\ UNCHANGED <<status, left, finished, taken>>

(* (Slips: the readers are not notified; the room is not looked at.)        *)
StoreSilently(w, s) == StoreFirst(w, s, Least(freeWriteSpace, Len(s)), {})

StoreUnlimited(w, s) ==
  /\ Len(s) <= Capacity
  /\ freeWriteSpace' = (freeWriteSpace + 8 - Len(s)) % 8   \* a size_t, in 3 bits
  /\ cell' = CellsAfterWrite(s, Len(s))
  /\ writePosition' = (writePosition + Len(s)) % Capacity
  /\ stored' = stored \o s
  /\ asleep' = asleep \ Readers
  /\ UNCHANGED <<status, inCall, todo, left, finished, taken>>

Store(w, s) ==
  LET k == Least(freeWriteSpace, Len(s))
  IN  StoreFirst(w, s, k, IF k > 0 THEN Readers ELSE {})

(* write: a call with the next elements of w. *)
Write(w, n) ==
  /\ w \notin inCall /\ Written(w) + n <= PerWriter
  /\ status = "normal"
  /\ Store(w, [i \in 1..n |-> <<w, Written(w) + i>>])

(* Back from wait(). *)
WriteMore(w) ==
  /\ w \in inCall \ asleep
  /\ Store(w, todo[w])

(* One turn of read: take what there is, up to what is left to read, notify  *)
(* the writers if that is something, and return or wait for the rest.        *)
FetchFirst(r, n, k, notified) ==
  /\ taken' = taken \o CellsRead(k)
  /\ freeWriteSpace' = freeWriteSpace + k
  /\ left' = [left EXCEPT ![r] = n - k]
  /\ IF k = n \/ status = "end"
     THEN /\ inCall' = inCall \ {r} /\ asleep' = asleep \ notified
          /\ finished' = IF k = n THEN finished ELSE finished \union {r}
     ELSE /\ inCall' = inCall \union {r} /\ asleep' = (asleep \ notified) \union {r}
          /\ UNCHANGED finished
  /\ UNCHANGED <<cell, writePosition, status, todo, stored>>

(* (Slips: the writers are not notified; the end is looked at before the     *)
(* elements.)                                                                *)
FetchSilently(r, n) == FetchFirst(r, n, Least(FreeReadSpace, n), {})

FetchEndFirst(r, n) ==
  LET k == IF status = "end" THEN 0 ELSE Least(FreeReadSpace, n)
  IN  FetchFirst(r, n, k, IF k > 0 THEN Writers ELSE {})

Fetch(r, n) ==
  LET k == Least(FreeReadSpace, n)
  IN  FetchFirst(r, n, k, IF k > 0 THEN Writers ELSE {})

Read(r, n) ==
  /\ r \notin inCall \union finished
  /\ Fetch(r, n)

ReadMore(r) ==
  /\ r \in inCall \ asleep
  /\ Fetch(r, left[r])

(* write_end, by the contract of the class after the last write returned.    *)
(* (Slip: the readers are not notified.)                                     *)
WriteEndSilently ==
  /\ status = "normal" /\ Writers \intersect inCall = {}
  /\ status' = "end"
  /\ UNCHANGED <<laneVars, inCall, todo, left, finished, asleep, stored, taken>>

WriteEnd ==
  /\ status = "normal" /\ Writers \intersect inCall = {}
  /\ status' = "end"
  /\ asleep' = {}
  /\ UNCHANGED <<laneVars, inCall, todo, left, finished, stored, taken>>

SpuriousWakeup(t) ==
  /\ t \in asleep
  /\ asleep' = asleep \ {t}
  /\ UNCHANGED <<laneVars, status, inCall, todo, left, finished, stored, taken>>

Terminated == finished = Readers /\ UNCHANGED vars

-----------------------------------------------------------------------------
Reads(r) == ReadMore(r) \/ \E n \in 1..MaxBatch : Read(r, n)

Next ==
  \/ \E w \in Writers : WriteMore(w) \/ \E n \in 1..MaxBatch : Write(w, n)
  \/ \E r \in Readers : Reads(r)
  \/ WriteEnd
  \/ \E t \in Threads : SpuriousWakeup(t)
  \/ Terminated

(* Consumers call read until they are told of the end, as                   *)
(* shuffleThreadFunc does; a producer is not obliged to write.              *)
Spec ==
  /\ Init /\ [][Next]_vars
  /\ \A w \in Writers : WF_vars(WriteMore(w))
  /\ \A r \in Readers : WF_vars(Reads(r))
  /\ WF_vars(WriteEnd)

-----------------------------------------------------------------------------
(* The types of the state: positions stay in the array, the free space within *)
(* the capacity, and only a thread in a call sleeps.                         *)
TypeOK ==
  /\ DOMAIN cell = 0..(Capacity - 1)
  /\ writePosition \in 0..(Capacity - 1) /\ freeWriteSpace \in 0..Capacity
  /\ status \in {"normal", "end"}
  /\ inCall \subseteq Threads /\ asleep \subseteq inCall /\ finished \subseteq Readers
  /\ \A w \in Writers : Len(todo[w]) <= MaxBatch
  /\ left \in [Readers -> 0..MaxBatch]

(* The cells from read_position() on are what was stored and not yet taken, *)
(* in order: nothing is lost, repeated, overwritten or reordered, wherever  *)
(* the cyclic positions wrap and however the calls are split up.            *)
Fifo == stored = taken \o CellsRead(FreeReadSpace)

(* A reader is told of the end only when every element has been taken. *)
EndAfterLast == finished # {} => taken = stored

(* No writer sleeps while there is room, no reader while there are elements *)
(* or the end was announced: a notification is never missed.                *)
NoMissedWakeup ==
  /\ Writers \intersect asleep # {} => freeWriteSpace = 0
  /\ Readers \intersect asleep # {} => FreeReadSpace = 0 /\ status = "normal"

(* After write_end every reader gets out of its loop. *)
ReadersStop == status = "end" ~> finished = Readers

(* A write that was called returns as long as the readers read. *)
WritesReturn == \A w \in Writers : w \in inCall ~> w \notin inCall

Queue == INSTANCE LaneQueue WITH ended <- (status = "end")

(* A lane is a bounded FIFO queue with an end. *)
ImplementsLaneQueue == Queue!Spec
=============================================================================
