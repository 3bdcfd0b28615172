SPECIFICATION Spec
CONSTANTS
  Rows = {r1, r2}
  AddRowsCall = addRows
  MaxCalls = 4
INVARIANTS
  TypeOK
  CallsInOrder
  ParentCallsExclusive
  NoMutualSleep
PROPERTIES
  CallsReturn
  DestructionEnds
  ImplementsCallSink
