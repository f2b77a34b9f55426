SPECIFICATION FairSpec
CONSTANTS
  r1 = r1
  r2 = r2
  r3 = r3
  a = a
  b = b
  Runs = {r1, r2}
  Sops = {a}
  SopOf <- OneSop
  KindOf <- MixedSteps
  MaxConcurrent <- Two
  MaxPending <- One
  Policy <- Parallel
  NumSteps = 1
  MaxTotal = 2
  MaxFaults = 2
  MaxFinished = 1
  HeartbeatMayFail = FALSE
  RestoreMayFail = FALSE
  TimeoutAction = "Escalate"
  ToolsCutIn = {}
  MaxDrivers = 1
  NoRun = NoRun
INVARIANTS
  ClaimBacksExecution
PROPERTIES
  CancelCompletes
  ParkSettles
  OrphansReclaimed
  PendAdmitted
