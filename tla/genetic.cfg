CONSTANTS
  ta = ta
  tb = tb
  tc = tc
  td = td
  NoTour = NoTour
  Tours <- MCTours
  TrueCost <- MCTrueCost
  Optima <- MCOptima
  Mutants <- MCMutants
  Initial = ta
  Epsilon = 1
  PopulationSize = 3
  EliteCount = 2
SPECIFICATION Spec
INVARIANT CostsMatchGenes
INVARIANT BestIsSubmitted
PROPERTY ElitesSurvive
