SPECIFICATION Spec
CONSTANTS
  NAntennae = 3
  Runs <- PassRuns
INVARIANTS
  TypeOK
  TableAsAveraged
  ContentsAtFrequency
  RowsAllocated
  AnswerSettled
  Complete
PROPERTIES
  Finishes
