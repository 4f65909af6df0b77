SPECIFICATION Spec
CONSTANTS
  Step = 2
  Grace = 1
  History = 2
  Keep = 3
  Lookback = 3
  MaxNow = 7
  AtrBars = 4
  Spread = 1
  Safety = 1
  TrapTol = 0
  SessionAtr = 300
  Shapes <- ShapeSet
  Beginnings <- BeginningSet
  MaxBars = 11
INVARIANTS ClosedBarsAreFinal BreaksAreTheLastSwing BuyMirrorsSell PlanIsSane
PROPERTIES PaperSeesEveryBar NothingRepaints ZonesStayDead
CHECK_DEADLOCK FALSE
