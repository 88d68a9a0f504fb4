SPECIFICATION FairSpec
CONSTANTS
  Conn = {k1, k2}
  Conv = {v1}
  MaxTurns = 1
  MaxEvents = 0
  Workflow = TRUE
  Otp = TRUE
  None = None
INVARIANTS
  CancelSilencesTail
PROPERTIES
  EveryTurnAnswered
  ShutdownDrains
CHECK_DEADLOCK FALSE
