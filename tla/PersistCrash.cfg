CONSTANTS
  Tip = 5
  Early <- MCEarly
  Late <- NoHeights
  Floors <- NoHeights
  Forks <- NoHeights
  PERSIST_ATTEMPTS = 2
  Fails <- BlockFails
  OverlappingStarts = FALSE
  StopsDuringDiscovery = FALSE
  ReorgAheadOfScan = FALSE
  MaxQueue = 3
  MaxReorgs = 0
  MaxStops = 2
  MaxExits = 1
  MaxCrashes = 2
SPECIFICATION Spec
INVARIANTS
  NoHole
CHECK_DEADLOCK FALSE
