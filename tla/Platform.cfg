CONSTANTS
  spend = spend
  pay = pay
  look = look
  Requests = {spend, pay}
  LaneOf <- MCLaneOf
  Transitions = {spend, pay}
  Exempt = {}
  PROVER_LANE = "prover"
  NoLane = "none"
  MaxLists = 1
  MaxExits = 1
  MaxSwitches = 1
  MaxFailures = 1
  MaxCancels = 1
  Excluded = {"request while the preference is saved", "switch with requests out", "older probe answers"}
SPECIFICATION FairSpec
INVARIANTS
  NoSeedlessRun
  InForce
  TasksSound
PROPERTIES
  EverySettles
CHECK_DEADLOCK FALSE
