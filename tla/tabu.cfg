CONSTANTS
  NumNodes = 5
  Cost <- FiveNodes
  Eps = 1
  MinTenure = 3
  MaxTenure = 5
  MaxStagnation = 6
  TimeLimited = TRUE
SPECIFICATION Spec
INVARIANT CostTracksTour
PROPERTY BestIsKept
PROPERTY FrozenEdgesStayOut
PROPERTY NeverIdlesTwice
