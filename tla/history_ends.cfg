SPECIFICATION MCSpec
CONSTANTS
  None = None
  Backend = {"memory", "postgres", "dynamodb"}
  Client = {k1, k2}
  Key <- MCKey
  MaxConv = 3
  MaxMsg = 3
  MaxTime = 2
  PageSize = {1, 2}
  Matching = {1}
INVARIANTS
  HistoryEnds
SYMMETRY Symmetric
CHECK_DEADLOCK FALSE
