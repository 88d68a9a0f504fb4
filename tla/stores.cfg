SPECIFICATION StoresSpec
CONSTANTS
  None = None
  Backend = {"memory", "postgres", "dynamodb"}
  Client = {k1, k2}
  Key <- MCKey
  MaxConv = 3
  MaxMsg = 3
  MaxTime = 2
  PageSize = {1, 2}
  Matching = {1}
  Kind = {"acl", "curated", "default", "postgres", "dynamodb"}
  Org = {"A", "B"}
  User = {"u", "v"}
  Group = {"g"}
  Document <- MCDocument
  Context <- MCContext
  MaxDoc = 3
  Worded = {2, 3}
  OVERFETCH_FACTOR = 1
  OVERFETCH_FLOOR = 2
  Limit = {1}
  Text <- MCText
  Size <- MCSize
  Tenant = {"A", "B"}
  ConnId = {1}
  ConnName = {"n"}
  Source = {"s", "t", "u", "v", "x"}
  Describe <- MCDescribe
  MaxItem = 4
  Dated = {2, 3, 4}
  Chunks <- MCChunks
  Worker = {w1, w2}
  PerPage = 2
  SharedLedger = FALSE
  Durable = TRUE
  Skew = 1
  MaxClock = 2
INVARIANTS
  HistoryWalk
  SidebarWalk
  RowsAsTold
  ChunkerExact
  CursorCovers
PROPERTIES
  RetrievalExact
SYMMETRY SymmetricStores
CHECK_DEADLOCK FALSE
