SPECIFICATION Spec
CONSTANTS
  s1 = s1
  s2 = s2
  p1 = p1
  p2 = p2
  None = None
  Setups = {s1}
  Pids = {p1, p2}
  SymbolOf <- OneSymbol
  MaxOpenTotal = 2
  MaxOpenPerSymbol = 1
  Lots = 4
  Polls = 2
  MaxCrashes = 0
  Retries = 1
  Boots = {"live"}
  Faults = {"transport", "tool"}
  Strays = {}
PROPERTY FailedVerificationTrips
