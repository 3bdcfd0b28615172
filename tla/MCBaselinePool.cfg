SPECIFICATION Spec
CONSTANTS
  NAntennae = 2
  PFBColumns = 2
  PFBRows = 2
  ThreadCount = 2
  NChunks = 2
  Observations <- PassObservations
INVARIANTS TypeOK ProcessedOnce ProductsInPlace BaselineExclusive BadSamplesFlagged StatisticsExact
PROPERTIES Finishes
