SPECIFICATION Spec
CONSTANTS
  k1 = k1
  l1 = l1
  l2 = l2
  l3 = l3
  l4 = l4
  Gone = Gone
  Keys = {k1}
  Roots = {"r1"}
  Levels = {l1, l2}
  Near <- AllNear
  Span <- Frame126
  Day = 6
  DispWindow = 1
  MssWindow = 3
  Footprint = 1
  RetestBars = 2
  ResetSweeps = 1
  Stale = 8
  MaxLag = 1
  Horizon = 12
  MaxListings = 2
INVARIANTS SequenceIntact WindowsHold SweepsAreDistinct OnePlanPerRaid OnePlanPerListing
PROPERTIES BrokenRootIsNotTraded
SYMMETRY Symmetry
