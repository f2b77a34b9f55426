SPECIFICATION Spec
CONSTANTS
  None = None
  main = main
  sibling = sibling
  Sessions = {main, sibling}
  Opened = {main}
  Requests = {a, b, c}
  Calls <- CallsOfOne
  MaxQueueDepth = 2
  MaxSessions = 2
SYMMETRY RequestsAlike
CHECK_DEADLOCK FALSE
INVARIANTS
  OneRequestHoldsSession
  CauseIsOfThisTurn
  KilledStaysDead
  ConfiguresItsIncarnation
  AgentHasOverrides
  EditsReachSessions
