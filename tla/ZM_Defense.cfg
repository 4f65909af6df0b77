SPECIFICATION Spec
CONSTANTS
  k1 = k1
  l1 = l1
  l2 = l2
  l3 = l3
  l4 = l4
  Gone = Gone
  Keys = {k1}
  Roots = {"r1"}
  Levels = {l1}
  Near <- AllNear
  Span <- Frame1515
  Day = 1440
  DispWindow = 3
  MssWindow = 5
  Footprint = 3
  RetestBars = 15
  ResetSweeps = 2
  Stale = 720
  MaxLag = 2
  Horizon = 16
  MaxListings = 1
INVARIANT DefenseIsFresh
