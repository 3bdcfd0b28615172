SPECIFICATION Spec
CONSTANTS
  Writers = {w1, w2}
  Readers = {q1, q2}
  Capacity = 2
  PerWriter = 3
  MaxBatch = 3
INVARIANTS
  TypeOK
  Fifo
  EndAfterLast
  NoMissedWakeup
PROPERTIES
  ReadersStop
  WritesReturn
  ImplementsLaneQueue
