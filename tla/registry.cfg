SPECIFICATION MCSpec
CONSTANTS
  Conv = {c1, c2}
  First = c1
  MaxTurns = 3
  None = None
INVARIANTS
  ClaimHeld
  OneUncancelledTurn
  CancelStopsTask
PROPERTIES
  ImplementsExclusion
  ClaimReleased
CHECK_DEADLOCK FALSE
