SPECIFICATION DirectSpec
CONSTANTS
  r1 = r1
  r2 = r2
  r3 = r3
  a = a
  b = b
  Runs = {r1, r2, r3}
  Sops = {a, b}
  SopOf <- OneOfA
  KindOf <- GateAndCheckpoint
  MaxConcurrent <- Two
  MaxPending <- One
  Policy <- Parallel
  NumSteps = 1
  MaxTotal = 1
  MaxFaults = 2
  MaxFinished = 1
  HeartbeatMayFail = TRUE
  RestoreMayFail = TRUE
  TimeoutAction = "Escalate"
  ToolsCutIn = {a, b}
  MaxDrivers = 2
  NoRun = NoRun
INVARIANTS
  CancelReadyCancelling
  GateBeforeTurn
  PendingPoolBound
PROPERTIES
  CancelSticks
SYMMETRY Symmetry
