CONSTANTS
  Txs = {"d", "e", "s", "r", "t", "x"}
  Ins <- MCIns
  Pays = {"d", "e", "s", "x"}
  Local = {"s", "r", "t"}
  Settled = {"d", "e"}
  MaxHeight = 4
  MaxFaults = 1
  Excluded = {"pinned peers", "rival of a parent", "rival of an orphan", "reorg ahead of the scan", "reorg while one is unsaved", "restart with a rewind unsaved",
    "restart with a record unsaved", "send beside a send", "unheard of success", "record of a loser", "another wallet selected"}
SPECIFICATION FairSpec
INVARIANTS
  LedgerIsChain
  NoGhost
  OneSpender
PROPERTIES
  PendingSettles
CHECK_DEADLOCK FALSE
