CONSTANTS
  Tip = 5
  Early <- MCEarly
  Late <- NoHeights
  Floors <- NoHeights
  Forks <- NoHeights
  PERSIST_ATTEMPTS = 2
  Fails <- BlockFails
  OverlappingStarts = TRUE
  StopsDuringDiscovery = FALSE
  ReorgAheadOfScan = FALSE
  MaxQueue = 4
  MaxReorgs = 0
  MaxStops = 0
  MaxExits = 0
  MaxCrashes = 0
SPECIFICATION Spec
INVARIANTS
  NoHole
CHECK_DEADLOCK FALSE
