CONSTANTS
  NumNodes = 5
  Cost <- FiveNodes
  Eps = 1
  RclSize = 3
  FirstParents <- ToursFromZero
  SecondParents <- MCSecondParents
  CutPoints = {0, 1, 2, 3, 4, 5}
SPECIFICATION BuildSpec
INVARIANT YieldsATour
INVARIANT GreedyCostIsTourCost
INVARIANT RclHoldsTheCheapest
PROPERTY InsertionIsCheapest
