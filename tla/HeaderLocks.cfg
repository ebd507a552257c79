CONSTANTS
  Blocks <- LockedBranch
  Genesis = "g"
  Parent <- LockedParentOf
  Work <- LockedWork
  Origin = "origin"
  None = "none"
  Peers <- TwoPeers
  StartTips <- OneAhead
  Best = "b3"
  Locks <- LockB2
  REORG_MAX_DEPTH = 3
  LOCATOR_DENSE_HEIGHTS = 10
  MAX_HEADERS = 1
  ORPHAN_VOTE_PEERS = 2
  LOCATOR_SEEN_LIMIT = 10
  Excluded <- OneAtATime
  MaxFailures = 1
SPECIFICATION Spec
INVARIANTS
  Coherent
  LockedStays
PROPERTIES
  WorkNeverFalls
  ImplementsLog
CHECK_DEADLOCK FALSE
