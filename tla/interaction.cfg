SPECIFICATION Spec
CONSTANTS
  Pod = {p1, p2}
  None = None
  Invalid = Invalid
  Card <- MCCard
  Answer <- MCAnswer
  Supports = {{"identity_intake", "choices"}, {}}
  Opening <- MCOpening
  MaxTurns = 1
  MaxCards = 2
  MaxSubmits = 2
  MaxCalls = 1
  Faulty = TRUE
INVARIANTS
  LiveOnce
  ReturnsOwnAnswer
  ContactEarned
SYMMETRY Symmetric
CHECK_DEADLOCK FALSE
