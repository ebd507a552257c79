CONSTANTS
  Tip = 5
  Early <- MCEarly
  Late <- MCLate
  Floors <- HighFloor
  Forks <- NoHeights
  PERSIST_ATTEMPTS = 2
  Fails <- NoFails
  OverlappingStarts = FALSE
  StopsDuringDiscovery = FALSE
  ReorgAheadOfScan = FALSE
  MaxQueue = 4
  MaxReorgs = 0
  MaxStops = 0
  MaxExits = 0
  MaxCrashes = 0
SPECIFICATION Spec
INVARIANTS
  SettledNoHole
CHECK_DEADLOCK FALSE
