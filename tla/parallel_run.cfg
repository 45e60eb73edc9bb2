CONSTANTS
  id = id
  ta = ta
  tb = tb
  tc = tc
  None = None
  Identity = id
  Tours <- MCTours
  TrueCost <- MCTrueCost
  Yield <- AnyTour
  Eps = 1
  NumThreads = 2
  NumNodes = 3
  MaxStagnation = 2
SPECIFICATION Spec
INVARIANT NoUseAfterFree
INVARIANT ReportIsFinal
INVARIANT NeverOverReported
INVARIANT UndisturbedCostIsExact
PROPERTY Terminates
