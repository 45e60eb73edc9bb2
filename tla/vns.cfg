CONSTANTS
  NumNodes = 5
  Cost <- FiveNodes
  Eps = 1
  MinK = 2
  MaxK = 6
  KickRepetition = 2
  MaxStagnation = 2
  TimeLimited = TRUE
SPECIFICATION Spec
INVARIANT CostTracksTour
INVARIANT ComparesLocalOptima
INVARIANT StagnationCountsSweeps
PROPERTY Terminates
