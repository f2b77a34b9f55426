SPECIFICATION CheckpointSpec
CONSTANTS
  r1 = r1
  r2 = r2
  r3 = r3
  a = a
  b = b
  Runs = {r1, r2, r3}
  Sops = {a, b}
  SopOf <- OneOfB
  KindOf <- WorkThenGate
  MaxConcurrent <- Two
  MaxPending <- Zero
  Policy <- Mixed
  NumSteps = 2
  MaxTotal = 1
  MaxFaults = 2
  MaxFinished = 2
  HeartbeatMayFail = FALSE
  RestoreMayFail = FALSE
  TimeoutAction = "AutoApprove"
  ToolsCutIn = {}
  MaxDrivers = 1
  NoRun = NoRun
INVARIANTS
  ExecutionWithinCap
  HoldSerialises
  EndedLeavesNothing
  NoRunForgotten
  MarkedIsParked
  ParkDurableBeforeRelease
PROPERTIES
  KeepsLifecycle
SYMMETRY Symmetry
