SPECIFICATION Spec
CONSTANTS
  Conn = {k1}
  Conv = {v1, v2}
  MaxTurns = 2
  MaxEvents = 1
  Workflow = FALSE
  Otp = FALSE
  None = None
CONSTRAINT
  OneStreams
INVARIANTS
  OutcomeRecorded
  DrainCompletes
CHECK_DEADLOCK FALSE
SYMMETRY Symmetric
