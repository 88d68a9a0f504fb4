SPECIFICATION MCSpec
CONSTANTS
  Thread = {t1, t2}
  None = None
  Refused = Refused
  Env <- MCEnv
  Token <- MCToken
  JwkSet <- MCJwkSet
  Policy <- MCPolicy
  Origin <- MCOrigin
  AuthCtx <- MCAuthCtx
  Ttl = 2
  MinRefresh = 1
  PolicyTtl = 1
  Timeout = 1
  ReplayWindow = 2
  Horizon = 4
INVARIANTS
  WithdrawnKeyExpires
  RotationPickedUp
  IdentityNeedsKey
  StrictEmbedAllowed
SYMMETRY Symmetric
CHECK_DEADLOCK FALSE
