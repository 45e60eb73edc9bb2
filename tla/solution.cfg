CONSTANTS
  Threads = {p, q}
  t1 = t1
  t2 = t2
  t3 = t3
  g = g
  NoThread = NoThread
  Unknown = Unknown
  Tours <- MCTours
  Garbled <- MCGarbled
  TrueCost <- MCTrueCost
  Eps = 1
  Offers <- MCOffers
SPECIFICATION Spec
INVARIANT NoTornSnapshot
INVARIANT NoLostUpdate
PROPERTY OnlyAFailedLoadMismatches
PROPERTY ImplementsIncumbent
