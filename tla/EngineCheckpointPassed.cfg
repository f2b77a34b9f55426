SPECIFICATION Spec
CONSTANTS
  r1 = r1
  r2 = r2
  r3 = r3
  a = a
  b = b
  Runs = {r1}
  Sops = {a}
  SopOf <- OneSop
  KindOf <- CheckpointSteps
  MaxConcurrent <- One
  MaxPending <- Zero
  Policy <- Parallel
  NumSteps = 2
  MaxTotal = 1
  MaxFaults = 2
  MaxFinished = 1
  HeartbeatMayFail = FALSE
  RestoreMayFail = TRUE
  TimeoutAction = "Escalate"
  ToolsCutIn = {}
  MaxDrivers = 1
  NoRun = NoRun
PROPERTIES
  CompletesOnlyPastGate
