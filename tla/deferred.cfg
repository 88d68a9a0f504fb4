SPECIFICATION FairSpec
CONSTANTS
  Conn = {k1, k2}
  Session = {s1, s2}
  Backend = {"memory", "postgres", "dynamodb"}
  None = None
INVARIANTS
  RowsInOrderOnce
  RecordExact
  Completable
PROPERTIES
  ClaimReturned
CHECK_DEADLOCK FALSE
