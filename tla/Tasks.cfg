SPECIFICATION FairSpec
CONSTANTS
  Procs = {"p", "q", "r"}
  Identity <- Distinct
  Tasks = {"d", "s"}
  Kind <- TaskKinds
  MaxTrouble = 1
  TurnsMayDrop = TRUE
CHECK_DEADLOCK FALSE
INVARIANTS
  CompletedIsReadable
  IntentIsOwners
PROPERTIES
  EndsOnce
  LiveOwnerKeepsTask
  DueRowsEnd
