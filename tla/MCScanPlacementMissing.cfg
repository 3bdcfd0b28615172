SPECIFICATION Spec
CONSTANTS SubbandCount = 2
  ChPerSb = 4
  NoScan = NoScan
  SizeT = 256
  Observations <- MissingObservations
INVARIANTS MissingTolerated
