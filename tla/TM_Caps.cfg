SPECIFICATION Spec
CONSTANTS
  s1 = s1
  s2 = s2
  p1 = p1
  p2 = p2
  None = None
  Setups = {s1, s2}
  Pids = {p1, p2}
  SymbolOf <- OneSymbol
  MaxOpenTotal = 2
  MaxOpenPerSymbol = 1
  Lots = 2
  Polls = 2
  MaxCrashes = 0
  Retries = 0
  Boots = {"live"}
  Faults = {"tool", "transport", "nopid", "lag", "late", "owner"}
  Strays = {}
SYMMETRY Symmetry
INVARIANTS WithinCaps WrittenOffMeansStopped
