---------------------------- MODULE Exact_proofs ----------------------------
(***************************************************************************)
(* Theorems about Exact for every number of nodes, every symmetric cost    *)
(* matrix, every configuration and whatever CPLEX does within what its     *)
(* model allows.                                                           *)
(***************************************************************************)
EXTENDS Exact, TspTour_proofs

Algorithms == {"benders", "bc", "lb", "hf"}
Labels == {"start", "build", "loop", "search", "inspect", "fallback", "refine", "done"}

TypeInv ==
  /\ algo \in Algorithms
  /\ pc \in Labels
  /\ lp \in [cuts : SUBSET SUBSET Nodes, fixed : SUBSET SUBSET Nodes, near : SUBSET SUBSET Nodes]
  /\ incumbent = [edges |-> incumbent.edges, cost |-> incumbent.cost]
  /\ result \in [rc : {0, 1}, status : {"none", "feasible", "optimal"}]
  /\ it \in Nat
  /\ interrupted \in BOOLEAN

\* The cost kept beside a tour is the tour's.
PricedInv == Priced(sol) /\ Priced(current)

\* What CPLEX holds is a point of the problem; with the callback, a tour.
IncumbentInv ==
  incumbent # None =>
    /\ incumbent.edges \in TwoFactors
    /\ incumbent = Point(incumbent.edges)
    /\ HasCallback => IsConnected(incumbent.edges)

\* Only proper subsets of the nodes are cut.
CutsInv == \A S \in lp.cuts : S # {} /\ S # Nodes

\* While CPLEX works on it, the problem is centred on the current tour.
ProblemInv ==
  pc \in {"loop", "search", "inspect"} =>
    /\ lp.fixed \subseteq EdgesOf(current.tour)
    /\ algo # "hf" => lp.fixed = {}
    /\ lp.near = IF algo = "lb" THEN EdgesOf(current.tour) ELSE {}

\* A matheuristic submits every tour it centres on, the first one within the horizon, and has no
\* loop and no fallback.
CentreInv ==
  Matheuristic => /\ pc # "start" => sol = current /\ current.cost <= Horizon
                  /\ pc \notin {"loop", "fallback", "refine"}

\* Nothing CPLEX could still find is more than Gap cheaper; or it could find nothing at all.
BestPoint == \A p \in Points : p.cost < incumbent.cost - Gap => ~Feasible(p.edges)
NoPoint == \A y \in TwoFactors : ~Feasible(y)

\* An optimisation that was not cut short proved its point optimal, or the problem infeasible;
\* without a matheuristic's row that means that there are no tours (fewer than three nodes).
ResultInv ==
  /\ pc = "inspect" /\ HasSolution => incumbent # None
  /\ pc = "inspect" /\ ~interrupted =>
       \/ result = [rc |-> 0, status |-> "optimal"] /\ BestPoint
       \/ result = [rc |-> 0, status |-> "none"] /\ NoPoint
  /\ pc \in {"fallback", "refine"} => interrupted \/ Tours = {}

IInv ==
  /\ TypeInv /\ PricedInv /\ IncumbentInv /\ CutsInv /\ ProblemInv /\ CentreInv /\ ResultInv
  /\ UninterruptedIsOptimal

-----------------------------------------------------------------------------
LEMMA PricedTour ==
  ASSUME NEW t, IsTour(t)
  PROVE  Priced(WithCost(t))
<1>1. t \in Arrays
  BY DEF IsTour, Arrays
<1>2. TourCost(t) \in Int
  BY <1>1, TourFacts
<1> QED
  BY <1>1, <1>2 DEF Priced, WithCost

\* The tour taken from a connected point has the point's cost and its edges.
LEMMA ExtractedFacts ==
  ASSUME NEW y \in TwoFactors, IsConnected(y)
  PROVE  /\ Priced(Extracted(Point(y)))
         /\ Extracted(Point(y)).cost = Length(y)
         /\ EdgesOf(Extracted(Point(y)).tour) = y
         /\ Length(y) \in Nat
<1>1. IsTour(Reconstruct(y)) /\ TourCost(Reconstruct(y)) = Length(y)
  BY ExtractedCost
<1>2. Reconstruct(y) \in Arrays
  BY <1>1 DEF IsTour, Arrays
<1>3. TourCost(Reconstruct(y)) \in Nat
  BY <1>2, TourFacts
<1>4. EdgesOf(Reconstruct(y)) = y
  BY ReconstructKeepsEdges
<1>5. Extracted(Point(y)) = [tour |-> Reconstruct(y), cost |-> Length(y)]
  BY DEF Extracted, Point
<1> QED
  BY <1>1, <1>2, <1>3, <1>4, <1>5 DEF Priced

\* A tour of three nodes or more has as many edges as nodes.
LEMMA EdgesCount ==
  ASSUME NEW t, IsTour(t), NumNodes \notin {1, 2}
  PROVE  IsFiniteSet(EdgesOf(t)) /\ Cardinality(EdgesOf(t)) = NumNodes
<1> DEFINE f == [i \in Nodes |-> {t[i], t[i + 1]}]
<1>1. NumNodes \in Nat \ {0} /\ IsFiniteSet(Nodes) /\ Cardinality(Nodes) = NumNodes
  BY NodesFacts
<1>2. \A i, j \in Nodes : f[i] = f[j] => i = j
  <2> SUFFICES ASSUME NEW i \in Nodes, NEW j \in Nodes, f[i] = f[j]
               PROVE  i = j
    OBVIOUS
  <2> DEFINE x == i + 1
             y == j + 1
  <2>1. x \in 1 .. NumNodes /\ y \in 1 .. NumNodes /\ x - 1 = i /\ y - 1 = j
    BY <1>1 DEF Nodes
  <2>2. {t[x - 1], t[x]} = {t[y - 1], t[y]}
    BY <2>1
  <2>3. x = y
    <3> HIDE DEF x, y, f
    <3> QED
      BY <2>1, <2>2, LegsApart
  <2> QED
    BY <2>1, <2>3
<1>3. f \in [Nodes -> EdgesOf(t)]
  BY DEF EdgesOf
<1>4. \A e \in EdgesOf(t) : \E i \in Nodes : f[i] = e
  BY DEF EdgesOf
<1> HIDE DEF f
<1>5. f \in Bijection(Nodes, EdgesOf(t))
  BY <1>2, <1>3, <1>4 DEF Bijection, Injection, Surjection, IsInjective
<1> QED
  BY <1>1, <1>5, FS_Bijection DEF ExistsBijection

-----------------------------------------------------------------------------
\* No tour is cut off, and a tour that keeps what is fixed and is near enough is feasible.
LEMMA NotCut ==
  ASSUME CutsInv, lp.cuts \in SUBSET SUBSET Nodes, NEW t, IsTour(t), NEW S \in lp.cuts
  PROVE  Sec(S, EdgesOf(t))
<1>1. S \in SUBSET Nodes /\ S # {} /\ S # Nodes
  BY DEF CutsInv
<1> QED
  BY <1>1, TourSatisfiesSec

LEMMA FeasibleTour ==
  ASSUME TypeInv, CutsInv, NEW t, IsTour(t),
         lp.fixed \subseteq EdgesOf(t), Near(EdgesOf(t), lp.near)
  PROVE  Feasible(EdgesOf(t))
<1>1. \A S \in lp.cuts : Sec(S, EdgesOf(t))
  BY NotCut DEF TypeInv
<1> QED
  BY <1>1 DEF Feasible, Satisfies

\* A tour among the two-factors, as a tour.
LEMMA ToursFacts ==
  ASSUME NEW p \in Tours
  PROVE  \E t : /\ IsTour(t) /\ EdgesOf(t) = p.edges
                /\ p.edges \in TwoFactors /\ IsConnected(p.edges)
                /\ p = Point(p.edges) /\ p.cost \in Nat /\ NumNodes \notin {1, 2}
<1>1. PICK y \in TwoFactors : IsConnected(y) /\ p = Point(y)
  BY DEF Tours
<1>2. p.edges = y /\ p.cost = Length(y)
  BY <1>1 DEF Point
<1>3. Priced(Extracted(Point(y))) /\ EdgesOf(Extracted(Point(y)).tour) = y /\ Length(y) \in Nat
  BY <1>1, ExtractedFacts
<1>4. IsTour(Extracted(Point(y)).tour)
  BY <1>3 DEF Priced
<1>5. NumNodes \notin {1, 2}
  BY ThreeNodes
<1> QED
  BY <1>1, <1>2, <1>3, <1>4, <1>5

\* Some tour is within the horizon.
LEMMA WithinHorizon ==
  ASSUME NumNodes \notin {1, 2}
  PROVE  \E p \in Tours : p.cost <= Horizon /\ p.cost \in Nat
<1>1. PICK t \in ToursFromZero : TourCost(t) <= Horizon
  BY ExactAssumption
<1>2. IsTour(t) /\ t \in Arrays
  BY DEF ToursFromZero, IsTour, Arrays
<1>3. EdgesOf(t) \in TwoFactors /\ IsConnected(EdgesOf(t)) /\ Length(EdgesOf(t)) = TourCost(t)
  BY <1>2, TourIsPoint, LengthIsTourCost
<1>4. TourCost(t) \in Nat
  BY <1>2, TourFacts
<1> DEFINE p == Point(EdgesOf(t))
<1>5. p \in Tours
  BY <1>3 DEF Tours
<1>6. p.cost = TourCost(t)
  BY <1>3 DEF Point
<1> QED
  BY <1>1, <1>4, <1>5, <1>6

-----------------------------------------------------------------------------
\* Every tour is a feasible point of a problem that is not a matheuristic's.
LEMMA ToursAreFeasible ==
  ASSUME IInv, pc = "inspect", ~Matheuristic, NEW q \in Tours
  PROVE  Feasible(q.edges)
<1>1. PICK t : IsTour(t) /\ EdgesOf(t) = q.edges
  BY ToursFacts
<1>2. lp.fixed = {} /\ lp.near = {}
  BY DEF IInv, ProblemInv, Matheuristic
<1>3. Near(EdgesOf(t), lp.near) /\ lp.fixed \subseteq EdgesOf(t)
  BY <1>2 DEF Near
<1> QED
  BY <1>1, <1>3, FeasibleTour DEF IInv

\* So one that CPLEX finds infeasible has no tours.
LEMMA InfeasibleHasNoTours ==
  ASSUME IInv, pc = "inspect", ~Matheuristic, NoPoint
  PROVE  Tours = {}
<1> SUFFICES ASSUME NEW q \in Tours
             PROVE  FALSE
  OBVIOUS
<1>1. q.edges \in TwoFactors
  BY ToursFacts
<1> QED
  BY <1>1, ToursAreFeasible DEF NoPoint

\* Where an uninterrupted optimisation over all tours ends, no tour is more than Gap cheaper,
\* whatever its cost: one beyond the horizon is longer than one within.
LEMMA BestOverTours ==
  ASSUME IInv, pc = "inspect", ~interrupted, ~Matheuristic,
         incumbent.cost \in Int, NEW p \in Tours
  PROVE  incumbent.cost <= p.cost + Gap
<1>1. NumNodes \notin {1, 2} /\ p.cost \in Nat
  BY ToursFacts
<1>2. ASSUME NEW q \in Tours, q.cost <= Horizon
      PROVE  incumbent.cost <= q.cost + Gap
  <2>1. PICK t : /\ IsTour(t) /\ EdgesOf(t) = q.edges
                 /\ q.edges \in TwoFactors /\ IsConnected(q.edges)
                 /\ q = Point(q.edges) /\ q.cost \in Nat /\ NumNodes \notin {1, 2}
    BY ToursFacts
  <2>3. Tours # {}
    OBVIOUS
  <2>4. Feasible(q.edges)
    BY ToursAreFeasible
  <2>5. Length(q.edges) = q.cost
    BY <2>1 DEF Point
  <2>6. q \in Points
    BY <2>1, <2>5, <1>2 DEF Points
  <2>7. ~(q.cost < incumbent.cost - Gap)
    BY <2>3, <2>4, <2>6, InfeasibleHasNoTours DEF IInv, ResultInv, BestPoint
  <2> QED
    BY <2>1, <2>7, ExactAssumption
<1>3. CASE p.cost <= Horizon
  BY <1>2, <1>3
<1>4. CASE ~(p.cost <= Horizon)
  <2>1. PICK q \in Tours : q.cost <= Horizon /\ q.cost \in Nat
    BY <1>1, WithinHorizon
  <2>2. incumbent.cost <= q.cost + Gap
    BY <2>1, <1>2
  <2> QED
    BY <2>1, <2>2, <1>1, <1>4, ExactAssumption
<1> QED
  BY <1>3, <1>4

\* Where an uninterrupted local branching finds nothing better, no tour that differs from its own
\* in at most K edges is cheaper, up to the tolerances.
LEMMA BestNearby ==
  ASSUME IInv, pc = "inspect", ~interrupted, algo = "lb", ~Improved, NEW p \in Tours,
         Cardinality(EdgesOf(current.tour) \ p.edges) <= K
  PROVE  current.cost <= p.cost + Gap + Eps
<1> DEFINE E == EdgesOf(current.tour)
<1>1. PICK t : /\ IsTour(t) /\ EdgesOf(t) = p.edges
               /\ p.edges \in TwoFactors /\ IsConnected(p.edges)
               /\ p = Point(p.edges) /\ p.cost \in Nat /\ NumNodes \notin {1, 2}
  BY ToursFacts
<1>2. IsTour(current.tour) /\ current.cost = TourCost(current.tour) /\ current.cost \in Nat
  BY TourFacts DEF IInv, PricedInv, Priced, Arrays
<1>3. IsFiniteSet(E) /\ Cardinality(E) = NumNodes
  BY <1>1, <1>2, EdgesCount
<1>4. Cardinality(E \ p.edges) = NumNodes - Cardinality(E \cap p.edges)
  BY <1>3, FS_Difference
<1>5. Cardinality(E \cap p.edges) \in Nat
  BY <1>3, FS_Intersection, FS_CardinalityType
<1>6. Cardinality(p.edges \cap E) >= NumNodes - K
  <2>1. p.edges \cap E = E \cap p.edges
    OBVIOUS
  <2>2. NumNodes \in Nat /\ K \in Int
    BY TourAssumption, ExactAssumption
  <2> HIDE DEF E
  <2> QED
    BY <1>4, <1>5, <2>1, <2>2 DEF E
<1>7. lp.fixed = {} /\ lp.near = E
  BY DEF IInv, ProblemInv
<1>8. Feasible(p.edges)
  <2>1. Near(EdgesOf(t), lp.near) /\ lp.fixed \subseteq EdgesOf(t)
    BY <1>1, <1>6, <1>7 DEF Near
  <2> QED
    BY <1>1, <2>1, FeasibleTour DEF IInv
<1>9. current.cost <= Horizon
  BY DEF IInv, CentreInv, Matheuristic
<1>10. CASE p.cost <= Horizon
  <2>1. Length(p.edges) = p.cost
    BY <1>1 DEF Point
  <2>2. p \in Points
    BY <1>1, <1>10, <2>1 DEF Points
  <2>3. result.rc = 0 /\ HasSolution /\ BestPoint
    BY <1>1, <1>8 DEF IInv, ResultInv, HasSolution, NoPoint
  <2>4. ~(p.cost < incumbent.cost - Gap) /\ ~(incumbent.cost < current.cost - Eps)
    BY <1>8, <2>2, <2>3 DEF BestPoint, Improved
  <2>5. incumbent # None
    BY <2>3 DEF IInv, ResultInv
  <2>6. incumbent.cost \in Int
    <3>1. /\ incumbent.edges \in TwoFactors /\ IsConnected(incumbent.edges)
          /\ incumbent = Point(incumbent.edges)
      BY <2>5 DEF IInv, IncumbentInv, HasCallback
    <3>2. Length(incumbent.edges) \in Nat
      BY <3>1, ExtractedFacts
    <3> QED
      BY <3>1, <3>2 DEF Point
  <2> QED
    BY <2>4, <2>6, <1>1, <1>2, ExactAssumption, TourAssumption
<1>11. CASE ~(p.cost <= Horizon)
  BY <1>1, <1>2, <1>9, <1>11, ExactAssumption, TourAssumption
<1> QED
  BY <1>10, <1>11

-----------------------------------------------------------------------------
\* tsp_solution_create: the nodes in order.
LEMMA IdentityIsTour == IsTour([p \in Positions |-> p % NumNodes])
<1> DEFINE t == [p \in Positions |-> p % NumNodes]
<1>1. NumNodes \in Nat /\ NumNodes > 0
  BY TourAssumption
<1>2. \A i \in Nat : i < NumNodes => i % NumNodes = i
  BY <1>1, SMTT(30)
<1>3. NumNodes % NumNodes = 0
  BY <1>1, SMTT(30)
<1>4. \A i \in Nodes : i \in Nat /\ i < NumNodes /\ i \in Positions
  BY <1>1 DEF Nodes, Positions
<1>5. \A i \in Nodes : t[i] = i
  BY <1>2, <1>4
<1>6. 0 \in Nodes /\ NumNodes \in Positions /\ \A i \in Positions : i \in Nodes \/ i = NumNodes
  BY <1>1 DEF Nodes, Positions
<1>7. t[NumNodes] = 0
  BY <1>3, <1>6
<1>8. t \in [Positions -> Nodes]
  BY <1>5, <1>6, <1>7
<1> HIDE DEF t
<1>9. IsTour(t)
  BY <1>5, <1>6, <1>7, <1>8 DEF IsTour
<1> QED
  BY <1>9 DEF t

LEMMA InitInv == Init => IInv
<1> SUFFICES ASSUME Init
             PROVE  IInv
  OBVIOUS
<1>1. PricedInv
  BY IdentityIsTour, PricedTour DEF Init, PricedInv
<1>2. TypeInv
  BY DEF Init, TypeInv, Algorithms, Labels, None
<1>3. IncumbentInv /\ CutsInv /\ ProblemInv /\ CentreInv /\ ResultInv /\ UninterruptedIsOptimal
  BY DEF Init, IncumbentInv, CutsInv, ProblemInv, CentreInv, ResultInv, UninterruptedIsOptimal
<1> QED
  BY <1>1, <1>2, <1>3 DEF IInv

-----------------------------------------------------------------------------
\* The components that are cut off are sets of nodes.
LEMMA ComponentsAreNodes ==
  ASSUME NEW x, NEW S \in Components(x)
  PROVE  S \in SUBSET Nodes
BY ComponentFacts DEF Components

\* What CPLEX may find is a set of edges with its length.
LEMMA PointsFacts ==
  ASSUME NEW p \in Points
  PROVE  /\ p.edges \in TwoFactors /\ p = Point(p.edges)
         /\ p = [edges |-> p.edges, cost |-> p.cost]
<1>1. PICK y \in TwoFactors : p = Point(y)
  BY DEF Points
<1> QED
  BY <1>1 DEF Point

LEMMA EdgesAreNodes ==
  ASSUME NEW t, IsTour(t)
  PROVE  EdgesOf(t) \in SUBSET SUBSET Nodes
<1>1. NumNodes \in Nat \ {0}
  BY TourAssumption
<1>2. ASSUME NEW i \in Nodes
      PROVE  {t[i], t[i + 1]} \in SUBSET Nodes
  <2>1. i \in Positions /\ i + 1 \in Positions
    BY <1>1 DEF Nodes, Positions
  <2> QED
    BY <2>1 DEF IsTour
<1> QED
  BY <1>2 DEF EdgesOf

LEMMA TypeStep ==
  ASSUME IInv, Next
  PROVE  TypeInv'
<1> USE DEF TypeInv, Algorithms, Labels
<1>1. TypeInv /\ EdgesOf(current.tour) \in SUBSET SUBSET Nodes
  BY EdgesAreNodes DEF IInv, PricedInv, Priced
<1>2. CASE WarmStart \/ ColdStart \/ GiveUp
  BY <1>1, <1>2 DEF WarmStart, ColdStart, GiveUp
<1>3. CASE Build
  <2>1. incumbent' = [edges |-> incumbent'.edges, cost |-> incumbent'.cost]
    BY <1>3 DEF Build, None, Point
  <2>2. lp' \in [cuts : SUBSET SUBSET Nodes, fixed : SUBSET SUBSET Nodes, near : SUBSET SUBSET Nodes]
    BY <1>1, <1>3 DEF Build, Fixable
  <2> QED
    BY <1>1, <1>3, <2>1, <2>2 DEF Build
<1>4. CASE Offer
  <2>1. PICK p \in Points :
          IF HasCallback /\ ~IsConnected(p.edges)
          THEN lp' = [lp EXCEPT !.cuts = @ \cup Components(p.edges)] /\ UNCHANGED incumbent
          ELSE incumbent' = p /\ UNCHANGED lp
    BY <1>4 DEF Offer
  <2>2. Components(p.edges) \in SUBSET SUBSET Nodes
    BY ComponentsAreNodes
  <2>3. incumbent' = [edges |-> incumbent'.edges, cost |-> incumbent'.cost]
    BY <1>1, <2>1, PointsFacts
  <2>4. lp' \in [cuts : SUBSET SUBSET Nodes, fixed : SUBSET SUBSET Nodes, near : SUBSET SUBSET Nodes]
    BY <1>1, <2>1, <2>2
  <2> QED
    BY <1>1, <1>4, <2>3, <2>4 DEF Offer
<1>5. CASE Solve \/ Stop
  <2>1. result' \in [rc : {0, 1}, status : {"none", "feasible", "optimal"}]
    BY <1>5 DEF Solve, Stop
  <2> QED
    BY <1>1, <1>5, <2>1 DEF Solve, Stop
<1>6. CASE BendersIterates \/ BendersLeaves \/ BendersBreaks \/ Patch
  BY <1>1, <1>6 DEF BendersIterates, BendersLeaves, BendersBreaks, Patch, None
<1>7. CASE BendersInspects
  <2>1. Components(xStar') \in SUBSET SUBSET Nodes
    BY ComponentsAreNodes
  <2>2. lp' \in [cuts : SUBSET SUBSET Nodes, fixed : SUBSET SUBSET Nodes, near : SUBSET SUBSET Nodes]
    BY <1>1, <1>7, <2>1 DEF BendersInspects
  <2> QED
    BY <1>1, <1>7, <2>2 DEF BendersInspects
<1>8. CASE CutInspects \/ CutFallsBack \/ Refine \/ SubmitRefined
  BY <1>1, <1>8 DEF CutInspects, CutFallsBack, Refine, SubmitRefined
<1>9. CASE MatheuristicImproves \/ MatheuristicFails
  BY <1>1, <1>9 DEF MatheuristicImproves, MatheuristicFails
<1>10. CASE Done
  BY <1>1, <1>10 DEF Done, vars
<1> QED
  BY <1>2, <1>3, <1>4, <1>5, <1>6, <1>7, <1>8, <1>9, <1>10 DEF Next

\* A submitted tour has its own cost, and so has the incumbent that stays.
LEMMA SubmitPriced ==
  ASSUME NEW c, Priced(c), Priced(sol), Submit(c)
  PROVE  Priced(sol')
BY DEF Submit

\* What CPLEX stopped with is a tour of the point's cost, where it is one.
LEMMA IncumbentFacts ==
  ASSUME IncumbentInv, incumbent # None, IsConnected(incumbent.edges)
  PROVE  /\ Priced(Extracted(incumbent))
         /\ Extracted(incumbent).cost = incumbent.cost
         /\ EdgesOf(Extracted(incumbent).tour) = incumbent.edges
         /\ incumbent.cost \in Nat
<1> DEFINE y == incumbent.edges
<1>1. y \in TwoFactors /\ IsConnected(y) /\ incumbent = Point(y)
  BY DEF IncumbentInv
<1>2. incumbent.cost = Length(y)
  BY <1>1 DEF Point
<1> HIDE DEF y
<1>3. /\ Priced(Extracted(Point(y)))
      /\ Extracted(Point(y)).cost = Length(y)
      /\ EdgesOf(Extracted(Point(y)).tour) = y
      /\ Length(y) \in Nat
  BY <1>1, ExtractedFacts
<1>4. EdgesOf(Extracted(incumbent).tour) = incumbent.edges
  BY <1>1, <1>3 DEF y
<1> QED
  BY <1>1, <1>2, <1>3, <1>4

LEMMA PricedStep ==
  ASSUME IInv, Next
  PROVE  PricedInv'
<1>1. Priced(sol) /\ Priced(current)
  BY DEF IInv, PricedInv
<1> USE DEF PricedInv
<1>2. CASE WarmStart
  <2>1. PICK t \in WarmStarts : sol' = WithCost(t)
    BY <1>2 DEF WarmStart
  <2>2. IsTour(t)
    BY ExactAssumption DEF ToursFromZero
  <2>3. Priced(sol')
    BY <2>1, <2>2, PricedTour
  <2>4. current' = sol'
    BY <1>2 DEF WarmStart
  <2> QED
    BY <2>3, <2>4 DEF Priced
<1>3. CASE \/ ColdStart \/ Build \/ GiveUp \/ Offer \/ Solve \/ Stop
           \/ BendersIterates \/ BendersLeaves \/ BendersBreaks \/ MatheuristicFails \/ Done
  <2>1. sol' = sol /\ current' = current
    BY <1>3 DEF ColdStart, Build, GiveUp, Offer, Solve, Stop, BendersIterates,
                BendersLeaves, BendersBreaks, MatheuristicFails, Done, vars
  <2> QED
    BY <1>1, <2>1 DEF Priced
<1>4. CASE BendersInspects
  <2>1. current' = current
    BY <1>4 DEF BendersInspects
  <2>2. CASE IsConnected(incumbent.edges)
    <3>1. incumbent # None
      BY <1>4 DEF BendersInspects, IInv, ResultInv
    <3>2. Priced(Extracted(incumbent))
      BY <2>2, <3>1, IncumbentFacts DEF IInv
    <3>3. Submit(Extracted(incumbent))
      BY <1>4, <2>2 DEF BendersInspects
    <3>4. Priced(sol')
      BY <1>1, <3>2, <3>3, SubmitPriced
    <3> QED
      BY <1>1, <2>1, <3>4 DEF Priced
  <2>3. CASE ~IsConnected(incumbent.edges)
    <3>1. sol' = sol
      BY <1>4, <2>3 DEF BendersInspects
    <3> QED
      BY <1>1, <2>1, <3>1 DEF Priced
  <2> QED
    BY <2>2, <2>3
<1>5. CASE Patch
  <2>1. sol' = sol /\ (current' = current \/ current' = WithCost(Reconstruct(xStar)))
    BY <1>5 DEF Patch
  <2>2. Priced(WithCost(Reconstruct(xStar)))
    BY ReconstructIsTour, PricedTour
  <2> QED
    BY <1>1, <2>1, <2>2 DEF Priced
<1>6. CASE CutInspects \/ MatheuristicImproves
  <2>1. incumbent # None /\ IsConnected(incumbent.edges)
    BY <1>6 DEF CutInspects, MatheuristicImproves, Improved, Matheuristic,
                IInv, ResultInv, IncumbentInv, HasCallback
  <2>2. Priced(Extracted(incumbent))
    BY <2>1, IncumbentFacts DEF IInv
  <2>3. Submit(Extracted(incumbent)) /\ (current' = current \/ current' = Extracted(incumbent))
    BY <1>6 DEF CutInspects, MatheuristicImproves, Submit
  <2>4. Priced(sol')
    BY <1>1, <2>2, <2>3, SubmitPriced
  <2> QED
    BY <1>1, <2>2, <2>3, <2>4 DEF Priced
<1>7. CASE CutFallsBack
  <2>1. sol' = sol /\ (current' = current \/ current' \in GreedyTours)
    BY <1>7 DEF CutFallsBack
  <2>2. ASSUME NEW c \in GreedyTours
        PROVE  Priced(c)
    <3>1. PICK t \in ToursFromZero : c = WithCost(t)
      BY DEF GreedyTours
    <3>2. IsTour(t)
      BY DEF ToursFromZero
    <3> QED
      BY <3>1, <3>2, PricedTour
  <2> QED
    BY <1>1, <2>1, <2>2 DEF Priced
<1>8. CASE Refine
  <2>1. sol' = sol /\ current' = Descend(current) /\ Improving(current.tour) # {}
    BY <1>8 DEF Refine
  <2>2. Priced(Descend(current))
    BY <1>1, <2>1, DescendFacts
  <2> QED
    BY <1>1, <2>1, <2>2 DEF Priced
<1>9. CASE SubmitRefined
  <2>1. current' = current /\ Submit(current)
    BY <1>9 DEF SubmitRefined
  <2>2. Priced(sol')
    BY <1>1, <2>1, SubmitPriced
  <2> QED
    BY <1>1, <2>1, <2>2 DEF Priced
<1> QED
  BY <1>2, <1>3, <1>4, <1>5, <1>6, <1>7, <1>8, <1>9 DEF Next

LEMMA IncumbentStep ==
  ASSUME IInv, Next
  PROVE  IncumbentInv'
<1> USE DEF IncumbentInv
<1>1. IncumbentInv
  BY DEF IInv
<1>3. CASE \/ WarmStart \/ ColdStart \/ GiveUp \/ Solve \/ Stop \/ BendersLeaves \/ BendersInspects
           \/ BendersBreaks \/ Patch \/ CutInspects \/ CutFallsBack \/ Refine \/ SubmitRefined
           \/ MatheuristicImproves \/ MatheuristicFails \/ Done
  <2>1. incumbent' = incumbent /\ algo' = algo
    BY <1>3 DEF WarmStart, ColdStart, GiveUp, Solve, Stop, BendersLeaves, BendersInspects,
                BendersBreaks, Patch, CutInspects, CutFallsBack, Refine, SubmitRefined,
                MatheuristicImproves, MatheuristicFails, Done, vars
  <2> QED
    BY <1>1, <2>1 DEF HasCallback
<1>4. CASE Build
  <2>1. algo' = algo
    BY <1>4 DEF Build
  <2>2. CASE incumbent' = None
    BY <2>2 DEF None
  <2>3. CASE /\ EdgesOf(current.tour) \in TwoFactors
             /\ incumbent' = Point(EdgesOf(current.tour))
    <3>1. IsTour(current.tour)
      BY DEF IInv, PricedInv, Priced
    <3>2. IsConnected(EdgesOf(current.tour))
      BY <2>3, <3>1, ThreeNodes, TourIsPoint
    <3>3. incumbent'.edges = EdgesOf(current.tour)
      BY <2>3 DEF Point
    <3> QED
      BY <2>3, <3>2, <3>3 DEF Point
  <2> QED
    BY <1>4, <2>2, <2>3 DEF Build
<1>5. CASE Offer
  <2>1. PICK p \in Points :
          IF HasCallback /\ ~IsConnected(p.edges)
          THEN lp' = [lp EXCEPT !.cuts = @ \cup Components(p.edges)] /\ UNCHANGED incumbent
          ELSE incumbent' = p /\ UNCHANGED lp
    BY <1>5 DEF Offer
  <2>2. algo' = algo
    BY <1>5 DEF Offer
  <2>3. p.edges \in TwoFactors /\ p = Point(p.edges)
    BY PointsFacts
  <2> QED
    BY <1>1, <2>1, <2>2, <2>3 DEF HasCallback
<1>6. CASE BendersIterates
  BY <1>6 DEF BendersIterates, None
<1> QED
  BY <1>3, <1>4, <1>5, <1>6 DEF Next

\* Cuts come from points that are not connected only.
LEMMA CutsStep ==
  ASSUME IInv, Next
  PROVE  CutsInv'
<1> USE DEF CutsInv
<1>1. CutsInv /\ lp = [cuts |-> lp.cuts, fixed |-> lp.fixed, near |-> lp.near]
  BY DEF IInv, TypeInv
<1>2. CASE \/ WarmStart \/ ColdStart \/ GiveUp \/ Solve \/ Stop \/ BendersIterates
           \/ BendersLeaves \/ BendersBreaks \/ Patch \/ CutInspects \/ CutFallsBack \/ Refine
           \/ SubmitRefined \/ MatheuristicImproves \/ MatheuristicFails \/ Done
  <2>1. lp' = lp
    BY <1>2 DEF WarmStart, ColdStart, GiveUp, Solve, Stop, BendersIterates, BendersLeaves,
                BendersBreaks, Patch, CutInspects, CutFallsBack, Refine, SubmitRefined,
                MatheuristicImproves, MatheuristicFails, Done, vars
  <2> QED
    BY <1>1, <2>1 DEF Nodes
<1>3. CASE Build
  <2>1. lp'.cuts = {}
    BY <1>3 DEF Build
  <2> QED
    BY <2>1
<1>4. ASSUME NEW x, ~IsConnected(x), lp'.cuts = lp.cuts \cup Components(x)
      PROVE  CutsInv'
  <2>1. \A S \in Components(x) : S # {} /\ S # Nodes
    BY <1>4, ComponentsFacts
  <2> QED
    BY <1>1, <1>4, <2>1 DEF Nodes
<1>5. CASE Offer
  <2>1. PICK p \in Points :
          IF HasCallback /\ ~IsConnected(p.edges)
          THEN lp' = [lp EXCEPT !.cuts = @ \cup Components(p.edges)] /\ UNCHANGED incumbent
          ELSE incumbent' = p /\ UNCHANGED lp
    BY <1>5 DEF Offer
  <2>2. CASE ~IsConnected(p.edges) /\ lp' = [lp EXCEPT !.cuts = @ \cup Components(p.edges)]
    <3>1. lp'.cuts = lp.cuts \cup Components(p.edges)
      BY <1>1, <2>2
    <3> QED
      BY <1>4, <2>2, <3>1
  <2>3. CASE lp' = lp
    BY <1>1, <2>3 DEF Nodes
  <2> QED
    BY <2>1, <2>2, <2>3
<1>6. CASE BendersInspects
  <2>1. CASE ~IsConnected(xStar') /\ lp' = [lp EXCEPT !.cuts = @ \cup Components(xStar')]
    <3>1. lp'.cuts = lp.cuts \cup Components(xStar')
      BY <1>1, <2>1
    <3> QED
      BY <1>4, <2>1, <3>1
  <2>2. CASE lp' = lp
    BY <1>1, <2>2 DEF Nodes
  <2> QED
    BY <1>6, <2>1, <2>2 DEF BendersInspects
<1> QED
  BY <1>2, <1>3, <1>5, <1>6 DEF Next

\* The problem is rebuilt for the new centre before CPLEX runs again.
LEMMA ProblemStep ==
  ASSUME IInv, Next
  PROVE  ProblemInv'
<1> USE DEF ProblemInv
<1>1. ProblemInv /\ lp = [cuts |-> lp.cuts, fixed |-> lp.fixed, near |-> lp.near] /\ pc \in Labels
  BY DEF IInv, TypeInv
<1>2. CASE Build
  <2>1. PICK f \in SUBSET EdgesOf(current.tour) :
          /\ algo # "hf" => f = {}
          /\ lp' = [cuts |-> {}, fixed |-> f,
                    near |-> IF algo = "lb" THEN EdgesOf(current.tour) ELSE {}]
    BY <1>2 DEF Build, Fixable
  <2>2. current' = current /\ algo' = algo
    BY <1>2 DEF Build
  <2>3. EdgesOf(current'.tour) = EdgesOf(current.tour)
    BY <2>2
  <2> QED
    BY <2>1, <2>2, <2>3
<1>3. ASSUME pc' \in {"loop", "search", "inspect"} => pc \in {"loop", "search", "inspect"},
             algo' = algo, pc' \in {"loop", "search", "inspect"} => current' = current,
             lp'.fixed = lp.fixed, lp'.near = lp.near
      PROVE  ProblemInv'
  <2> SUFFICES ASSUME pc' \in {"loop", "search", "inspect"}
               PROVE  /\ lp'.fixed \subseteq EdgesOf(current'.tour)
                      /\ algo' # "hf" => lp'.fixed = {}
                      /\ lp'.near = IF algo' = "lb" THEN EdgesOf(current'.tour) ELSE {}
    OBVIOUS
  <2>1. EdgesOf(current'.tour) = EdgesOf(current.tour)
    BY <1>3
  <2> QED
    BY <1>1, <1>3, <2>1
<1>4. CASE Offer
  <2>1. /\ pc' = pc /\ algo' = algo /\ current' = current
        /\ \/ lp' = lp
           \/ \E p \in Points : lp' = [lp EXCEPT !.cuts = @ \cup Components(p.edges)]
    BY <1>4 DEF Offer
  <2> QED
    BY <1>1, <1>3, <2>1
<1>5. CASE BendersInspects
  <2>1. /\ pc = "inspect" /\ algo' = algo /\ current' = current
        /\ lp' = lp \/ lp' = [lp EXCEPT !.cuts = @ \cup Components(xStar')]
    BY <1>5 DEF BendersInspects
  <2> QED
    BY <1>1, <1>3, <2>1
<1>6. CASE Solve \/ Stop \/ BendersIterates
  BY <1>3, <1>6 DEF Solve, Stop, BendersIterates
<1>7. CASE \/ WarmStart \/ ColdStart \/ GiveUp \/ BendersLeaves \/ BendersBreaks \/ Patch
           \/ CutInspects \/ CutFallsBack \/ Refine \/ SubmitRefined
           \/ MatheuristicImproves \/ MatheuristicFails
  BY <1>7 DEF WarmStart, ColdStart, GiveUp, BendersLeaves, BendersBreaks, Patch, CutInspects,
              CutFallsBack, Refine, SubmitRefined, MatheuristicImproves, MatheuristicFails
<1>8. CASE Done
  BY <1>3, <1>8 DEF Done, vars
<1> QED
  BY <1>2, <1>4, <1>5, <1>6, <1>7, <1>8 DEF Next

LEMMA CentreStep ==
  ASSUME IInv, Next
  PROVE  CentreInv'
<1> USE DEF CentreInv, Matheuristic
<1>1. CentreInv /\ algo' = algo
  <2>1. algo' = algo
    BY DEF Next, WarmStart, ColdStart, Build, GiveUp, Offer, Solve, Stop,
           BendersIterates, BendersLeaves, BendersInspects, BendersBreaks, Patch, CutInspects, CutFallsBack,
           Refine, SubmitRefined, MatheuristicImproves, MatheuristicFails, Done, vars
  <2> QED
    BY <2>1 DEF IInv
<1>2. CASE WarmStart
  <2>1. PICK t \in WarmStarts : sol' = WithCost(t)
    BY <1>2 DEF WarmStart
  <2>2. TourCost(t) <= Horizon
    BY ExactAssumption
  <2> QED
    BY <1>2, <2>1, <2>2 DEF WarmStart, WithCost
<1>3. CASE \/ Build \/ GiveUp \/ Offer \/ Solve \/ Stop \/ BendersIterates
           \/ BendersLeaves \/ BendersBreaks \/ MatheuristicFails \/ Done
  BY <1>1, <1>3 DEF Build, GiveUp, Offer, Solve, Stop, BendersIterates, BendersLeaves,
                    BendersBreaks, MatheuristicFails, Done, vars
<1>4. CASE ColdStart \/ BendersInspects \/ CutInspects \/ CutFallsBack
  BY <1>1, <1>4 DEF ColdStart, BendersInspects, CutInspects, CutFallsBack
<1>5. CASE Patch \/ Refine \/ SubmitRefined
  BY <1>1, <1>5 DEF Patch, Refine, SubmitRefined
<1>6. CASE MatheuristicImproves
  <2>1. incumbent # None /\ IsConnected(incumbent.edges)
    BY <1>6 DEF MatheuristicImproves, Improved, IInv, ResultInv, IncumbentInv, HasCallback
  <2>2. Extracted(incumbent).cost = incumbent.cost /\ incumbent.cost \in Nat
    BY <2>1, IncumbentFacts DEF IInv
  <2>3. sol = current /\ current.cost <= Horizon
    BY <1>1, <1>6 DEF MatheuristicImproves
  <2>4. current.cost \in Int
    BY DEF IInv, PricedInv, Priced
  <2>5. incumbent.cost < current.cost - Eps
    BY <1>6 DEF MatheuristicImproves, Improved
  <2>6. current' = Extracted(incumbent) /\ Submit(current')
    BY <1>6 DEF MatheuristicImproves
  <2>7. current'.cost < sol.cost - Eps
    BY <2>2, <2>3, <2>5, <2>6
  <2>8. sol' = current'
    BY <2>6, <2>7 DEF Submit
  <2>9. current'.cost <= Horizon
    BY <2>2, <2>3, <2>4, <2>5, <2>6, TourAssumption, ExactAssumption
  <2>10. pc' = "build"
    BY <1>6 DEF MatheuristicImproves
  <2> QED
    BY <2>8, <2>9, <2>10
<1> QED
  BY <1>2, <1>3, <1>4, <1>5, <1>6 DEF Next

\* A verdict of CPLEX stands for the problem and the incumbent it was given for.
LEMMA ResultStep ==
  ASSUME IInv, Next
  PROVE  ResultInv'
<1> USE DEF ResultInv, HasSolution
<1>1. ResultInv /\ TypeInv
  BY DEF IInv
<1>2. CASE \/ WarmStart \/ ColdStart \/ Build \/ GiveUp \/ Offer \/ BendersIterates
           \/ CutInspects \/ SubmitRefined \/ MatheuristicImproves \/ MatheuristicFails
  <2>1. pc' \notin {"inspect", "fallback", "refine"}
    BY <1>2 DEF WarmStart, ColdStart, Build, GiveUp, Offer, BendersIterates, CutInspects,
                SubmitRefined, MatheuristicImproves, MatheuristicFails
  <2> QED
    BY <2>1
<1>3. CASE BendersInspects
  <2>1. pc' \notin {"inspect", "fallback", "refine"}
    BY <1>3 DEF BendersInspects
  <2> QED
    BY <2>1
<1>4. CASE Solve /\ incumbent # None
  <2>1. /\ pc' = "inspect" /\ result' = [rc |-> 0, status |-> "optimal"]
        /\ incumbent # None /\ incumbent' = incumbent /\ lp' = lp /\ interrupted' = interrupted
        /\ BestPoint
    BY <1>4 DEF Solve, BestPoint
  <2>2. BestPoint'
    BY <2>1 DEF BestPoint, Feasible
  <2> QED
    BY <2>1, <2>2 DEF None
<1>12. CASE Solve /\ incumbent = None
  <2>1. pc' = "inspect" /\ result' = [rc |-> 0, status |-> "none"] /\ lp' = lp /\ NoPoint
    BY <1>12 DEF Solve, NoPoint
  <2>2. NoPoint'
    BY <2>1 DEF NoPoint, Feasible
  <2> QED
    BY <2>1, <2>2
<1>5. CASE Stop
  <2>1. PICK rc \in {0, 1} :
          \/ incumbent # None /\ result' = [rc |-> rc, status |-> "feasible"]
          \/ result' = [rc |-> rc, status |-> "none"]
    BY <1>5 DEF Stop
  <2>2. pc' = "inspect" /\ interrupted' = TRUE /\ incumbent' = incumbent
    BY <1>5 DEF Stop
  <2>3. result'.status # "none" => incumbent # None
    BY <2>1
  <2> QED
    BY <2>2, <2>3 DEF None
<1>6. CASE BendersLeaves
  BY <1>6 DEF BendersLeaves
<1>7. CASE BendersBreaks
  <2>1. interrupted' = interrupted /\ pc' = "fallback" /\ pc = "inspect" /\ ~Matheuristic
    BY <1>7 DEF BendersBreaks, Matheuristic
  <2>2. ~(result.rc = 0 /\ result.status # "none")
    BY <1>7 DEF BendersBreaks
  <2>3. result # [rc |-> 0, status |-> "optimal"]
    BY <2>2
  <2>4. interrupted \/ Tours = {}
    BY <1>1, <2>1, <2>3, InfeasibleHasNoTours
  <2> QED
    BY <2>1, <2>4
<1>8. CASE Patch
  BY <1>1, <1>8 DEF Patch
<1>9. CASE CutFallsBack
  <2>1. /\ interrupted' = interrupted /\ pc' \in {"refine", "done"} /\ pc = "inspect"
        /\ ~Matheuristic
    BY <1>9 DEF CutFallsBack, Matheuristic
  <2>2. result.status = "none"
    BY <1>9 DEF CutFallsBack
  <2>3. result # [rc |-> 0, status |-> "optimal"]
    BY <2>2
  <2>4. interrupted \/ Tours = {}
    BY <1>1, <2>1, <2>3, InfeasibleHasNoTours
  <2> QED
    BY <2>1, <2>4
<1>10. CASE Refine
  BY <1>1, <1>10 DEF Refine
<1>11. CASE Done
  <2>1. UNCHANGED <<pc, result, incumbent, lp, interrupted>>
    BY <1>11 DEF Done, vars
  <2>2. (BestPoint <=> BestPoint') /\ (NoPoint <=> NoPoint')
    BY <2>1 DEF BestPoint, NoPoint, Feasible
  <2> QED
    BY <1>1, <2>1, <2>2 DEF None
<1> QED
  BY <1>2, <1>3, <1>4, <1>5, <1>6, <1>7, <1>8, <1>9, <1>10, <1>11, <1>12 DEF Next

-----------------------------------------------------------------------------
\* The step that ends an algorithm: what is submitted, or what stays, is optimal.
LEMMA SubmitBests ==
  ASSUME IInv, NEW c, Priced(c), Submit(c), NEW b \in Int, c.cost <= b
  PROVE  sol'.cost <= b + Eps
<1>1. sol.cost \in Int /\ c.cost \in Int
  BY DEF IInv, PricedInv, Priced
<1> QED
  BY <1>1, TourAssumption DEF Submit

LEMMA OptimalStep ==
  ASSUME IInv, Next
  PROVE  UninterruptedIsOptimal'
<1> SUFFICES ASSUME pc' = "done", ~interrupted', NEW p \in Tours,
                    (algo' = "lb") => Cardinality(EdgesOf(sol'.tour) \ p.edges) <= K
             PROVE  sol'.cost <= p.cost + Gap + Eps
  BY DEF UninterruptedIsOptimal
<1>1. p.cost \in Nat /\ NumNodes \notin {1, 2}
  BY ToursFacts
<1>2. Eps \in Nat /\ Gap \in Nat
  BY TourAssumption, ExactAssumption
<1>3. CASE \/ WarmStart \/ ColdStart \/ Build \/ GiveUp \/ Offer \/ Solve \/ Stop
           \/ BendersIterates \/ BendersLeaves \/ BendersBreaks \/ Refine \/ MatheuristicImproves
  <2>1. FALSE
    BY <1>3 DEF WarmStart, ColdStart, Build, GiveUp, Offer, Solve, Stop, BendersIterates,
                BendersLeaves, BendersBreaks, Refine, MatheuristicImproves, IInv, TypeInv, Labels
  <2> QED
    BY <2>1
<1>4. CASE Patch \/ SubmitRefined
  <2>1. interrupted /\ interrupted' = interrupted
    BY <1>4 DEF Patch, SubmitRefined, IInv, ResultInv
  <2> QED
    BY <2>1
<1>5. CASE CutFallsBack
  <2>1. /\ pc = "inspect" /\ result.status = "none" /\ interrupted' = interrupted
        /\ ~Matheuristic
    BY <1>5 DEF CutFallsBack, HasSolution, Matheuristic
  <2>2. interrupted \/ NoPoint
    BY <2>1 DEF IInv, ResultInv
  <2> QED
    BY <2>1, <2>2, InfeasibleHasNoTours
<1>6. CASE BendersInspects \/ CutInspects
  <2>1. pc = "inspect" /\ ~interrupted /\ ~Matheuristic
    BY <1>6 DEF BendersInspects, CutInspects, Matheuristic
  <2>2. Submit(Extracted(incumbent)) /\ IsConnected(incumbent.edges) /\ incumbent # None
    BY <1>6 DEF BendersInspects, CutInspects, IInv, ResultInv, IncumbentInv, HasCallback
  <2>3. /\ Priced(Extracted(incumbent))
        /\ Extracted(incumbent).cost = incumbent.cost
        /\ incumbent.cost \in Nat
    BY <2>2, IncumbentFacts DEF IInv
  <2>4. incumbent.cost <= p.cost + Gap
    BY <2>1, <2>3, BestOverTours
  <2>5. p.cost + Gap \in Int /\ Extracted(incumbent).cost <= p.cost + Gap
    BY <1>1, <1>2, <2>3, <2>4
  <2> QED
    BY <2>2, <2>3, <2>5, SubmitBests
<1>7. CASE MatheuristicFails
  <2>1. pc = "inspect" /\ ~interrupted /\ algo = "lb" /\ ~Improved /\ algo' = algo /\ sol' = sol
    BY <1>7 DEF MatheuristicFails
  <2>2. sol = current
    BY <2>1 DEF IInv, CentreInv, Matheuristic
  <2>3. Cardinality(EdgesOf(current.tour) \ p.edges) <= K
    BY <2>1, <2>2
  <2>4. current.cost <= p.cost + Gap + Eps
    BY <2>1, <2>3, BestNearby
  <2> QED
    BY <2>1, <2>2, <2>4
<1>8. CASE Done
  <2>1. pc = "done" /\ ~interrupted /\ algo' = algo /\ sol' = sol
    BY <1>8 DEF Done, vars
  <2> QED
    BY <2>1 DEF IInv, UninterruptedIsOptimal
<1> QED
  BY <1>3, <1>4, <1>5, <1>6, <1>7, <1>8 DEF Next

LEMMA Stutter == IInv /\ UNCHANGED vars => IInv'
<1> SUFFICES ASSUME IInv, UNCHANGED vars
             PROVE  IInv'
  OBVIOUS
<1>1. TypeInv' /\ PricedInv' /\ IncumbentInv'
  BY DEF IInv, vars, TypeInv, PricedInv, Priced, IncumbentInv, HasCallback
<1>2. CutsInv' /\ ProblemInv' /\ CentreInv'
  BY DEF IInv, vars, CutsInv, ProblemInv, CentreInv, Matheuristic
<1>3. (BestPoint <=> BestPoint') /\ (NoPoint <=> NoPoint')
  BY DEF vars, BestPoint, NoPoint, Feasible
<1>4. ResultInv'
  BY <1>3 DEF IInv, vars, ResultInv, HasSolution
<1>5. UninterruptedIsOptimal'
  BY DEF IInv, vars, UninterruptedIsOptimal
<1> QED
  BY <1>1, <1>2, <1>4, <1>5 DEF IInv

\* The inductive invariant holds throughout.
THEOREM Inductive == Spec => []IInv
<1>1. IInv /\ [Next]_vars => IInv'
  BY TypeStep, PricedStep, IncumbentStep, CutsStep, ProblemStep, CentreStep, ResultStep,
     OptimalStep, Stutter DEF IInv
<1> QED
  BY <1>1, InitInv, PTL DEF Spec

\* The objective value of CPLEX is the cost of the tour that cplex_solver_reconstruct_tour makes
\* of the same point, wherever one of the four algorithms keeps the two together; so are the costs
\* of the warm start, of the fallbacks and of their 2-opt refinement.
THEOREM CostIsTourCost == Spec => []CostMatchesTour
<1>1. IInv => CostMatchesTour
  BY DEF IInv, PricedInv, Priced, CostMatchesTour
<1> QED
  BY <1>1, Inductive, PTL

\* However many rounds of cuts were added by the Benders loop or rejected points by the callback,
\* every tour is still among the feasible points.
THEOREM CutsAreValid == Spec => []ToursAreNeverCut
<1>1. IInv => ToursAreNeverCut
  <2> SUFFICES ASSUME IInv, NEW S \in lp.cuts, NEW p \in Tours
               PROVE  Sec(S, p.edges)
    BY DEF ToursAreNeverCut
  <2>1. PICK t : IsTour(t) /\ EdgesOf(t) = p.edges
    BY ToursFacts
  <2>2. Sec(S, EdgesOf(t))
    BY <2>1, NotCut DEF IInv, TypeInv
  <2> QED
    BY <2>1, <2>2
<1> QED
  BY <1>1, Inductive, PTL

\* The tour a matheuristic centres its problem on satisfies the problem, whatever was fixed and
\* cut, for every k from 0 on and every number of nodes from three on.  For a negative k, which
\* validate_options lets pass, the row asks for more than n of its n edges and nothing is
\* feasible; nor is anything on one or two nodes, where no node can have two edges.
THEOREM CentreIsFeasible == Spec => []CurrentStaysFeasible
<1>1. IInv => CurrentStaysFeasible
  <2> SUFFICES ASSUME IInv, Matheuristic, pc = "search"
               PROVE  IF NumNodes >= 3 /\ (algo = "lb" => K >= 0)
                      THEN EdgesOf(current.tour) \in TwoFactors /\ Feasible(EdgesOf(current.tour))
                      ELSE \A y \in TwoFactors : ~Feasible(y)
    BY DEF CurrentStaysFeasible
  <2> DEFINE E == EdgesOf(current.tour)
  <2>1. IsTour(current.tour)
    BY DEF IInv, PricedInv, Priced
  <2>2. NumNodes \in Nat \ {0} /\ K \in Int
    BY TourAssumption, ExactAssumption
  <2>3. CASE NumNodes >= 3 /\ (algo = "lb" => K >= 0)
    <3>1. NumNodes \notin {1, 2} /\ E \in TwoFactors
      BY <2>1, <2>3, TourIsPoint
    <3>2. IsFiniteSet(E) /\ Cardinality(E) = NumNodes
      BY <2>1, <3>1, EdgesCount
    <3>3. lp.fixed \subseteq E /\ (lp.near = {} \/ (lp.near = E /\ K >= 0))
      BY <2>3 DEF IInv, ProblemInv
    <3>4. E \cap E = E
      OBVIOUS
    <3> HIDE DEF E
    <3>5. Near(E, lp.near)
      <4>1. K >= 0 => NumNodes >= NumNodes - K
        BY <2>2
      <4> QED
        BY <3>2, <3>3, <3>4, <4>1 DEF Near
    <3>6. Feasible(E)
      BY <2>1, <3>3, <3>5, FeasibleTour DEF IInv, E
    <3> QED
      BY <2>3, <3>1, <3>6 DEF E
  <2>4. CASE ~(NumNodes >= 3)
    <3>1. \A y \in TwoFactors : FALSE
      BY <2>2, <2>4, ThreeNodes
    <3> QED
      BY <2>4, <3>1
  <2>5. CASE NumNodes >= 3 /\ ~(algo = "lb" => K >= 0)
    <3>1. NumNodes \notin {1, 2} /\ algo = "lb" /\ ~(K >= 0)
      BY <2>5
    <3>2. IsFiniteSet(E) /\ Cardinality(E) = NumNodes
      BY <2>1, <3>1, EdgesCount
    <3>3. lp.near = E
      BY <3>1 DEF IInv, ProblemInv
    <3>4. ASSUME NEW y
          PROVE  ~Near(y, lp.near)
      <4>1. y \cap E \subseteq E
        OBVIOUS
      <4>2. Cardinality(y \cap E) \in Nat /\ Cardinality(y \cap E) <= NumNodes
        <5> HIDE DEF E
        <5> QED
          BY <3>2, <4>1, FS_Subset, FS_CardinalityType
      <4>3. E # {}
        <5> HIDE DEF E
        <5> QED
          BY <2>2, <3>2, FS_EmptySet
      <4>4. ~(Cardinality(y \cap E) >= NumNodes - K)
        <5> HIDE DEF E
        <5> QED
          BY <2>2, <3>1, <4>2
      <4> QED
        BY <3>3, <4>3, <4>4 DEF Near
    <3> QED
      BY <2>5, <3>4 DEF Feasible, Satisfies
  <2> QED
    BY <2>3, <2>4, <2>5
<1> QED
  BY <1>1, Inductive, PTL

\* Run to its end, Benders or branch and cut leaves a tour that no other undercuts by more than the
\* tolerances, and local branching one that no tour within K edges of it does.
THEOREM EndsOptimal == Spec => []UninterruptedIsOptimal
<1>1. IInv => UninterruptedIsOptimal
  BY DEF IInv
<1> QED
  BY <1>1, Inductive, PTL
=============================================================================
