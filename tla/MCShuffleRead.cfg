SPECIFICATION Spec
CONSTANTS ThreadCount = 3
  NCells = 2
  HDUsPerCall <- MCHDUsPerCall
INVARIANTS TypeOK OwnedOnce LanesHaveRoom AllShuffled
PROPERTIES Returns
