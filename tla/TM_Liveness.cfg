SPECIFICATION FairSpec
CONSTANTS
  s1 = s1
  s2 = s2
  p1 = p1
  p2 = p2
  None = None
  Setups = {s1}
  Pids = {p1}
  SymbolOf <- OneSymbol
  MaxOpenTotal = 2
  MaxOpenPerSymbol = 1
  Lots = 1
  Polls = 2
  MaxCrashes = 2
  Retries = 1
  Boots = {"live", "paper", "boot"}
  Faults = {"tool", "transport", "lag", "late"}
  Strays = {p1}
PROPERTIES LockIsReleased ClaimIsResolved PositionIsAdopted ExitIsRecorded
