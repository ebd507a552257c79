CONSTANTS
  Tip = 5
  Early <- MCEarly
  Late <- NoHeights
  Floors <- NoHeights
  Forks <- MCForks
  PERSIST_ATTEMPTS = 2
  Fails <- NoFails
  OverlappingStarts = FALSE
  StopsDuringDiscovery = FALSE
  ReorgAheadOfScan = TRUE
  MaxQueue = 4
  MaxReorgs = 1
  MaxStops = 0
  MaxExits = 0
  MaxCrashes = 0
SPECIFICATION Spec
INVARIANTS
  SettledNoHole
CHECK_DEADLOCK FALSE
