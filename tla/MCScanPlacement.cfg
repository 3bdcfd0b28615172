SPECIFICATION Spec
CONSTANTS SubbandCount = 2
  ChPerSb = 4
  NoScan = NoScan
  SizeT = 256
  Observations <- PassObservations
INVARIANTS TypeOK PlacedByTime AllDataUsed MissingFits
PROPERTIES Finishes
