SPECIFICATION MCSpec
CONSTANTS
  Session = {s1, s2}
  Row <- MCRow
  Past <- MCPast
  Frame <- MCFrame
  Setting <- MCSetting
  Supports <- MCSupports
  Deployment <- MCDeployment
  StepAttemptCap = 2
  MaxReplayed = 1
  MaxPrior = 5
  MaxTurns = 2
  MaxCalls = 1
  MaxEvents = 1
  None = None
  Malformed = Malformed
INVARIANTS
  GateSound
  AllowListHolds
  StepBounded
  ReplayExact
  TitleKept
  AskedFailsClosed
SYMMETRY Symmetric
CHECK_DEADLOCK FALSE
