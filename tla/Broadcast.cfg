CONSTANTS
  Peers = {p1, p2, p3}
  Pinned = TRUE
  RequireLock = FALSE
  MinPeerAcks = 1
  WitnessPeers = 1
  MaxRebroadcasts = 1
  PeerWait = 2
  RebroadcastEvery = 3
  Timeout = 5
SPECIFICATION FairSpec
INVARIANTS
  CarriersServed
  SuccessIsProof
PROPERTIES
  QuietAfter
CHECK_DEADLOCK FALSE
