CONSTANTS
  NumNodes = 6
  Cost <- SixNodes
  Eps = 1
  K = 3
  MaxIterations = 3
  Gap = 2
  MinFixed = 4
  WarmStarts <- MCWarmStarts
  Horizon = 74
SPECIFICATION Spec
INVARIANT ConnectedIsOptimal
