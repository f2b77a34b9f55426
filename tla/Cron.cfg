SPECIFICATION FairSpec
CONSTANTS
  once = once
  often = often
  p1 = p1
  p2 = p2
  c1 = c1
  Procs = {p1, p2}
  Jobs = {once, often}
  Clients = {c1}
  Initial <- AddedAndDeclared
  Declared <- OnceDeclared
  Configs <- ThreeConfigs
  Schedules <- NextOnly
  MaxTasks = 1
  MaxConcurrent = 1
  MaxUp = 1
  MaxTime = 2
  MaxTrouble = 1
  MaxEdits = 1
INVARIANTS
  LockMatchesRun
PROPERTIES
  OneShotLaunchesOnce
  DueJobsSettle
CHECK_DEADLOCK FALSE
