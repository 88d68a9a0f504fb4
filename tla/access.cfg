SPECIFICATION MCSpec
CONSTANTS
  Conn = {k1, k2, k3}
  None = None
  Refused = Refused
  SeedOrg = "A"
  Answer <- MCAnswer
  Deployment <- MCDeployment
  WidgetOrg <- MCWidgetOrg
  Frame <- MCFrame
  MaxConv = 1
  MaxSess = 2
INVARIANTS
  TenantIsolation
  OpenerKeepsItsConversation
  OwnIsReachable
SYMMETRY Symmetric
CHECK_DEADLOCK FALSE
