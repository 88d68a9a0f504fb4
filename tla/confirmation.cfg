SPECIFICATION MCSpec
CONSTANTS
  Pod = {p1, p2}
  Tool = {a1, a2}
  MaxTurns = 2
  MaxCalls = 1
  MaxConfirms = 2
  Faulty = TRUE
  None = None
INVARIANTS
  ApprovalSpentOnce
  OneVerdictPerPark
SYMMETRY Symmetric
CHECK_DEADLOCK FALSE
