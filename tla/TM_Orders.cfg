SPECIFICATION Spec
CONSTANTS
  s1 = s1
  s2 = s2
  p1 = p1
  p2 = p2
  None = None
  Setups = {s1}
  Pids = {p1, p2}
  SymbolOf <- OneSymbol
  MaxOpenTotal = 2
  MaxOpenPerSymbol = 1
  Lots = 4
  Polls = 2
  MaxCrashes = 1
  Retries = 1
  Boots = {"live", "paper", "boot"}
  Faults = {"tool", "transport", "auth", "range", "nopid", "volume", "lag", "late", "owner", "resume"}
  Strays = {p2}
INVARIANTS TypeOK OnePositionPerSetup OrderInv OneRowPerPosition ClosedMeansGone EntryToldIsProtected BookedOnce
PROPERTIES OwnerIsNotFought ForeignIsUntouched LedgerSpec
