SPECIFICATION Spec
CONSTANTS NBaselines = 3
  NScans = 3
  Observations <- PassObservations
INVARIANTS FirstRowReadBack
