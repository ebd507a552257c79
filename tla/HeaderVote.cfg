CONSTANTS
  Blocks <- DeepFork
  Genesis = "g"
  Parent <- DeepParentOf
  Work <- DeepWork
  Origin = "origin"
  None = "none"
  Peers <- TwoPeers
  StartTips <- OneOnDeepBranch
  Best = "b4"
  Locks <- NoLocks
  REORG_MAX_DEPTH = 1
  LOCATOR_DENSE_HEIGHTS = 10
  MAX_HEADERS = 10
  ORPHAN_VOTE_PEERS = 2
  LOCATOR_SEEN_LIMIT = 10
  Excluded <- OneAtATime
  MaxFailures = 0
SPECIFICATION Spec
INVARIANTS
  WindowOnChain
  InStep
PROPERTIES
  HeavierAnswerTaken
CHECK_DEADLOCK FALSE
