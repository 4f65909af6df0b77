SPECIFICATION Spec
CONSTANTS
  t1 = t1
  t2 = t2
  k1 = k1
  k2 = k2
  r1 = r1
  r2 = r2
  Nobody = Nobody
  NoToken = NoToken
  Loads <- LoadSet
  Orders = {k1, k2}
  Reads = {r1, r2}
  Connects = {r1}
  ReadRetries = 1
  TradingMode = "live"
  Confirmed = FALSE
  Tokens = {t1, t2}
  TokenEnv <- EnvOf
  Trading = {t1}
  SessionRetries = 1
  MaxOwners = 2
  MaxSwaps = 1
  MaxConns = 2
  MaxVer = 2
INVARIANT LiveIsConfirmed
CHECK_DEADLOCK FALSE
