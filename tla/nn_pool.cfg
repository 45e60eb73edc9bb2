CONSTANTS
  id = id
  ta = ta
  tb = tb
  tc = tc
  None = None
  Identity = id
  Tours <- MCTours
  TrueCost <- MCTrueCost
  Found <- MCFound
  Eps = 1
  NumNodes = 5
  CfgThreads = 3
  MaxThreads = 8
  TimeLimited = TRUE
  MayFail = TRUE
SPECIFICATION Spec
INVARIANT NoUseAfterFree
INVARIANT RecordInStartOrder
INVARIANT NoStartLost
INVARIANT BestOfRecorded
PROPERTY Terminates
