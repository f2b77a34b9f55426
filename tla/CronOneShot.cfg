SPECIFICATION Spec
CONSTANTS
  once = once
  often = often
  p1 = p1
  p2 = p2
  c1 = c1
  Procs = {p1, p2}
  Jobs = {once, often}
  Clients = {c1}
  Initial <- AddedAndDeclared
  Declared <- OnceDeclared
  Configs <- OneConfig
  Schedules <- NextOnly
  MaxTasks = 1
  MaxConcurrent = 1
  MaxUp = 1
  MaxTime = 2
  MaxTrouble = 0
  MaxEdits = 0
PROPERTIES
  OneShotRunsOnce
CHECK_DEADLOCK FALSE
