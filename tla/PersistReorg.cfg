CONSTANTS
  Tip = 5
  Early <- MCEarly
  Late <- MCLate
  Floors <- GenesisFloor
  Forks <- MCForks
  PERSIST_ATTEMPTS = 2
  Fails <- AdvanceFails
  OverlappingStarts = FALSE
  StopsDuringDiscovery = FALSE
  ReorgAheadOfScan = FALSE
  MaxQueue = 4
  MaxReorgs = 1
  MaxStops = 1
  MaxExits = 1
  MaxCrashes = 0
SPECIFICATION FairSpec
INVARIANTS
  SettledNoHole
  NoOrphanRow
  SessionSound
PROPERTIES
  HeldResumes
CHECK_DEADLOCK FALSE
