SPECIFICATION Spec
CONSTANTS
  e1 = e1
  e2 = e2
  m1 = m1
  m2 = m2
  m3 = m3
  a = a
  b = b
  c = c
  Engines = {e1}
  Messages = {m1}
  Sops = {a, c}
  Order <- StepThenGate
  Matches <- OneBatch
  Policy <- Policies
  Cap <- One
  PoolCap <- Pools
  MaxTotal = 2
  FirstStep <- GatesFirst
  WindowCap = 3
  MaxFaults = 1
INVARIANTS
  RolledBackStaysGone
CHECK_DEADLOCK FALSE
