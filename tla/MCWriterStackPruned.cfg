SPECIFICATION Spec
CONSTANTS
  NAntennae = 3
  Runs <- PrunedRuns
INVARIANTS
  LeftoverScansWritten
