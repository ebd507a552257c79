SPECIFICATION Spec
CONSTANTS
  spend = spend
  pay = pay
  look = look
  Requests = {spend, look}
  LaneOf <- MCLaneOf
  Transitions = {spend}
  Exempt = {look}
  PROVER_LANE = "prover"
  NoLane = "none"
  MaxLists = 2
  MaxExits = 1
  MaxSwitches = 2
  MaxFailures = 1
  MaxCancels = 0
  Excluded = {"request while the preference is saved", "switch with requests out", "older probe answers", "exit after a broadcast", "answer of a broadcast lost"}
INVARIANTS NoSeedlessRun ChildInStep StatusTrue LatestPinned SdkFresh ProverReady
CHECK_DEADLOCK FALSE
