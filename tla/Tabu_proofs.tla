---------------------------- MODULE Tabu_proofs ----------------------------
(***************************************************************************)
(* Theorems about Tabu for every number of nodes, every symmetric cost     *)
(* matrix, every range of tenures and any moment at which the time runs    *)
(* out.                                                                    *)
(***************************************************************************)
EXTENDS Tabu, TspTour_proofs

Labels == {"descent", "loop", "done"}

TypeInv ==
  /\ pc \in Labels
  /\ tabu \in [Nodes \X Nodes -> Nat]
  /\ iteration \in Nat /\ noImprov \in Nat
  /\ over \in BOOLEAN
  /\ entered \in [NodePairs -> Int]

\* Every cost the worker keeps is that of the tour beside it.
PricedInv == Priced(current) /\ Priced(best) /\ Priced(sol)

\* Once the descent is over the best tour is within Eps of the one the search stands on.
BestInv == pc = "loop" => best.cost <= current.cost + Eps

\* An edge stays in the matrix for at least the smallest tenure from the iteration in which it
\* joined the tour, in both directions.
Lasts(a, b) == entered[{a, b}] + MinTenure <= tabu[<<a, b>>]
FrozenInv ==
  /\ \A a, b \in Nodes : a # b => Lasts(a, b)
  /\ \A e \in NodePairs : entered[e] <= iteration

\* If the last move only turned the tour round, the edges at position 0 are frozen: the ones
\* the turn back would create.
TurnInv ==
  pc = "loop" /\ previous.tour # current.tour /\ EdgesOf(previous.tour) = EdgesOf(current.tour)
    => iteration + MinTenure <= tabu[<<current.tour[0], current.tour[NumNodes - 1]>>]

IInv == TypeInv /\ PricedInv /\ BestInv /\ FrozenInv /\ TurnInv

-----------------------------------------------------------------------------
\* The scan finds a move when one is allowed, and it is an allowed one.
LEMMA BestMoveFacts ==
  ASSUME NEW t, IsTour(t), NEW allowed \in SUBSET Pairs, allowed # {}
  PROVE  BestMove(t, allowed) \in allowed
<1> DEFINE D(p) == TwoOptDelta(t, p[1], p[2])
           C(p) == TourCost(Reversed(t, p[1], p[2]))
           Costs == {C(p) : p \in allowed}
<1>1. t \in Arrays /\ TourCost(t) \in Nat
  BY TourFacts DEF IsTour, Arrays
<1>2. \A p \in Pairs : /\ p[1] \in 1 .. NumNodes - 1 /\ p[2] \in 1 .. NumNodes - 1
                       /\ p[1] < p[2]
  BY ScanFacts
<1>3. ASSUME NEW p \in Pairs
      PROVE  C(p) = TourCost(t) + D(p) /\ C(p) \in Nat /\ D(p) \in Int
  <2>1. IsTour(Reversed(t, p[1], p[2]))
    BY <1>2, ReversedIsTour
  <2>2. C(p) \in Nat
    BY <2>1, TourFacts DEF IsTour, Arrays
  <2>3. C(p) = TourCost(t) + D(p)
    BY <1>2, TwoOptDeltaExact
  <2>4. D(p) \in Int
    BY <1>1, <1>2, TwoOptDeltaInt
  <2> QED
    BY <2>2, <2>3, <2>4
<1> HIDE DEF C, D
<1>4. PICK c \in Costs : \A n \in Costs : c <= n
  <2>1. Costs \in SUBSET Nat /\ Costs # {}
    BY <1>3
  <2> HIDE DEF Costs
  <2> QED
    BY <2>1, Least
<1> DEFINE Cheapest == {p \in allowed : C(p) = c}
<1>5. Cheapest # {} /\ Cheapest \in SUBSET Pairs
  BY <1>4
<1>6. PICK p \in Cheapest : \A q \in Cheapest \ {p} : Before(p, q)
  <2>1. Pairs \subseteq Nat \X Nat
    BY TourAssumption DEF Pairs
  <2> HIDE DEF Cheapest
  <2>2. Cheapest \in SUBSET (Nat \X Nat)
    BY <1>5, <2>1
  <2> QED
    BY <1>5, <2>2, FirstPair
<1>7. ASSUME NEW q \in allowed \ {p}
      PROVE  D(p) < D(q) \/ (D(p) = D(q) /\ Before(p, q))
  <2>1. C(p) = c /\ c <= C(q) /\ p \in Pairs /\ q \in Pairs
    BY <1>4, <1>6
  <2>2. CASE C(q) = c
    <3>1. Before(p, q)
      BY <1>6, <1>7, <2>2
    <3>2. D(p) = D(q)
      BY <1>1, <1>3, <2>1, <2>2
    <3> QED
      BY <3>1, <3>2
  <2>3. CASE C(q) # c
    <3>1. D(p) < D(q)
      BY <1>1, <1>3, <2>1, <2>3
    <3> QED
      BY <3>1
  <2> QED
    BY <2>2, <2>3
<1>8. p \in allowed
  BY <1>6
<1> QED
  BY <1>7, <1>8 DEF BestMove, D

\* What one move does, p being the pair of the scan: the cost follows the tour, only p's two
\* edges come in, and each of them was free or the tour is the best one so far.
Moves(p) ==
  /\ p \in Pairs
  /\ p[1] \in 1 .. NumNodes - 1 /\ p[2] \in 1 .. NumNodes - 1 /\ p[1] < p[2]
  /\ current'.tour = Reversed(current.tour, p[1], p[2])
  /\ current'.cost = current.cost + TwoOptDelta(current.tour, p[1], p[2])
  /\ Priced(current')
  /\ ~IsTabu(current.tour, p, iteration + 1) \/ current'.cost < best.cost - Eps
  /\ \E tenure \in Nat :
       /\ MinTenure <= tenure
       /\ tabu' = Freeze(current'.tour, p, iteration + 1 + tenure)

\* A move step takes some pair of the scan.
LEMMA MoveFacts == IInv /\ Move => \E p : Moves(p)
<1> SUFFICES ASSUME IInv, Move
             PROVE  \E p : Moves(p)
  OBVIOUS
<1> DEFINE t == current.tour
           p == BestMove(t, Allowed(iteration + 1))
           c == [tour |-> NOptMove(t, <<p[1] - 1, p[2]>>),
                 cost |-> current.cost + TwoOptDelta(t, p[1], p[2])]
<1>1. IsTour(t) /\ t \in Arrays /\ current.cost = TourCost(t)
  BY DEF IInv, PricedInv, Priced, IsTour, Arrays
<1>2. p \in Allowed(iteration + 1) /\ p \in Pairs
  <2>1. Allowed(iteration + 1) \in SUBSET Pairs /\ Allowed(iteration + 1) # {}
    BY DEF Move, Allowed
  <2> QED
    BY <2>1, <1>1, BestMoveFacts
<1>3. p[1] \in 1 .. NumNodes - 1 /\ p[2] \in 1 .. NumNodes - 1 /\ p[1] < p[2]
  BY <1>1, <1>2, ScanFacts
<1>4. /\ current' = c
      /\ \E tenure \in Tenures : tabu' = Freeze(current'.tour, p, iteration' + tenure)
      /\ iteration' = iteration + 1
  BY DEF Move
<1>5. ~IsTabu(t, p, iteration + 1) \/ current.cost + TwoOptDelta(t, p[1], p[2]) < best.cost - Eps
  BY <1>2 DEF Allowed, Aspires
<1> HIDE DEF p
<1>6. NOptMove(t, <<p[1] - 1, p[2]>>) = Reversed(t, p[1], p[2])
  BY <1>1, <1>3, TwoCutsReverse
<1>7. /\ IsTour(Reversed(t, p[1], p[2]))
      /\ TourCost(Reversed(t, p[1], p[2])) = TourCost(t) + TwoOptDelta(t, p[1], p[2])
  BY <1>1, <1>3, ReversedIsTour, TwoOptDeltaExact
<1>8. TourCost(Reversed(t, p[1], p[2])) \in Nat /\ Reversed(t, p[1], p[2]) \in Arrays
  BY <1>7, TourFacts DEF IsTour, Arrays
<1>9. /\ current'.tour = Reversed(t, p[1], p[2])
      /\ current'.cost = current.cost + TwoOptDelta(t, p[1], p[2])
  BY <1>4, <1>6
<1>10. Priced(current')
  BY <1>1, <1>4, <1>6, <1>7, <1>8, <1>9 DEF Priced
<1>11. \E tenure \in Nat :
         MinTenure <= tenure /\ tabu' = Freeze(current'.tour, p, iteration + 1 + tenure)
  <2>1. \A tenure \in Tenures : tenure \in Nat /\ MinTenure <= tenure
    BY TabuAssumption DEF Tenures
  <2> QED
    BY <2>1, <1>4
<1> HIDE DEF c
<1>12. Moves(p)
  BY <1>2, <1>3, <1>5, <1>9, <1>10, <1>11 DEF Moves
<1> QED
  BY <1>12

\* The last position but one wraps around to position 0, where the tour repeats itself.
LEMMA WrapsAround ==
  ASSUME NEW r, IsTour(r), NEW j \in 1 .. NumNodes - 1
  PROVE  r[(j + 1) % NumNodes] = r[j + 1]
<1>1. NumNodes \in Nat \ {0}
  BY TourAssumption
<1>2. CASE j + 1 = NumNodes
  <2>1. NumNodes % NumNodes = 0
    BY <1>1
  <2> QED
    BY <1>2, <2>1 DEF IsTour
<1>3. CASE j + 1 # NumNodes
  <2>1. j + 1 \in 0 .. NumNodes - 1
    BY <1>1, <1>3
  <2>2. (j + 1) % NumNodes = j + 1
    BY <1>1, <2>1
  <2> QED
    BY <2>2
<1> QED
  BY <1>2, <1>3

\* A matrix f that is tabu but for the four entries of the edges at p in r.
FrozenAt(f, r, p, until) ==
  /\ f \in [Nodes \X Nodes -> Nat]
  /\ \A x, y \in Nodes :
       f[<<x, y>>] = IF {x, y} \in {{r[p[1] - 1], r[p[1]]}, {r[p[2]], r[p[2] + 1]}}
                     THEN until ELSE tabu[<<x, y>>]

\* An edge is the one or the other way round.
LEMMA SameCouple ==
  ASSUME NEW x, NEW y, NEW a, NEW c
  PROVE  {x, y} = {a, c} <=> <<x, y>> \in {<<a, c>>, <<c, a>>}
<1>1. {x, y} = {a, c} <=> (x = a /\ y = c) \/ (x = c /\ y = a)
  BY SMT
<1> QED
  BY <1>1

\* Freezing sets the four entries of two edges and leaves the others alone.
LEMMA FreezeFacts ==
  ASSUME NEW r, IsTour(r), NEW p \in Pairs,
         p[1] \in 1 .. NumNodes - 1, p[2] \in 1 .. NumNodes - 1,
         NEW until \in Nat, tabu \in [Nodes \X Nodes -> Nat]
  PROVE  FrozenAt(Freeze(r, p, until), r, p, until)
<1> DEFINE a == r[p[1] - 1]
           c == r[p[1]]
           b == r[p[2]]
           d == r[p[2] + 1]
           F == [tabu EXCEPT ![<<a, c>>] = until, ![<<c, a>>] = until,
                             ![<<b, d>>] = until, ![<<d, b>>] = until]
<1>1. Freeze(r, p, until) = F
  BY WrapsAround DEF Freeze
<1>2. a \in Nodes /\ b \in Nodes /\ c \in Nodes /\ d \in Nodes
  <2>1. {p[1] - 1, p[1], p[2], p[2] + 1} \subseteq Positions
    BY TourAssumption DEF Positions
  <2> QED
    BY <2>1 DEF IsTour
<1> HIDE DEF a, b, c, d
<1>3. F \in [Nodes \X Nodes -> Nat]
  OBVIOUS
<1>4. ASSUME NEW x \in Nodes, NEW y \in Nodes
      PROVE  F[<<x, y>>] = IF {x, y} \in {{a, c}, {b, d}} THEN until ELSE tabu[<<x, y>>]
  <2>1. <<x, y>> \in Nodes \X Nodes
    OBVIOUS
  <2>2. F[<<x, y>>] = IF <<x, y>> \in {<<a, c>>, <<c, a>>, <<b, d>>, <<d, b>>}
                      THEN until ELSE tabu[<<x, y>>]
    BY <2>1, <1>2
  <2>3. <<x, y>> \in {<<a, c>>, <<c, a>>, <<b, d>>, <<d, b>>} <=> {x, y} \in {{a, c}, {b, d}}
    <3>1. {x, y} = {a, c} <=> <<x, y>> \in {<<a, c>>, <<c, a>>}
      BY SameCouple
    <3>2. {x, y} = {b, d} <=> <<x, y>> \in {<<b, d>>, <<d, b>>}
      BY SameCouple
    <3> HIDE DEF F
    <3> QED
      BY <3>1, <3>2, Zenon
  <2> HIDE DEF F
  <2> QED
    BY <2>2, <2>3
<1> HIDE DEF F
<1> QED
  BY <1>1, <1>3, <1>4 DEF FrozenAt, a, b, c, d

\* The two edges of a move, at their positions before and after it.
LEMMA MoveEnds ==
  ASSUME NEW t, IsTour(t), NEW i \in 1 .. NumNodes - 1, NEW j \in 1 .. NumNodes - 1, i < j
  PROVE  /\ Reversed(t, i, j)[i - 1] = t[i - 1] /\ Reversed(t, i, j)[i] = t[j]
         /\ Reversed(t, i, j)[j] = t[i] /\ Reversed(t, i, j)[j + 1] = t[j + 1]
<1>1. /\ i - 1 \in 0 .. i - 1 /\ i \in i .. j /\ j \in i .. j /\ j + 1 \in j + 1 .. NumNodes
      /\ i + j - i = j /\ i + j - j = i
  BY TourAssumption
<1> QED
  BY <1>1, ReversedEdges

\* A move freezes every edge it creates, and no edge for less than it was frozen for.
LEMMA MoveFreezes ==
  ASSUME IInv, Move, NEW p, Moves(p)
  PROVE  /\ tabu' \in [Nodes \X Nodes -> Nat]
         /\ FrozenInv'
         /\ \A x, y \in Nodes :
              {x, y} \in {{current.tour[p[1] - 1], current.tour[p[2]]},
                          {current.tour[p[1]], current.tour[p[2] + 1]}}
                => iteration' + MinTenure <= tabu'[<<x, y>>]
<1> DEFINE t == current.tour
           r == current'.tour
           ends == {{t[p[1] - 1], t[p[2]]}, {t[p[1]], t[p[2] + 1]}}
           new == EdgesOf(r) \ EdgesOf(t)
<1>1. /\ p \in Pairs /\ p[1] \in 1 .. NumNodes - 1 /\ p[2] \in 1 .. NumNodes - 1 /\ p[1] < p[2]
      /\ r = Reversed(t, p[1], p[2]) /\ IsTour(t) /\ IsTour(r)
  BY DEF Moves, IInv, PricedInv, Priced
<1>2. PICK tenure \in Nat :
        MinTenure <= tenure /\ tabu' = Freeze(r, p, iteration + 1 + tenure)
  BY DEF Moves
<1>3. /\ iteration \in Nat /\ iteration' = iteration + 1 /\ MinTenure \in Nat
      /\ iteration + 1 + tenure \in Nat
      /\ tabu \in [Nodes \X Nodes -> Nat] /\ entered \in [NodePairs -> Int]
  BY TabuAssumption DEF IInv, TypeInv, Move
<1>4. {{r[p[1] - 1], r[p[1]]}, {r[p[2]], r[p[2] + 1]}} = ends
  BY <1>1, MoveEnds
<1>5. /\ tabu' \in [Nodes \X Nodes -> Nat]
      /\ \A x, y \in Nodes :
           tabu'[<<x, y>>] = IF {x, y} \in ends THEN iteration + 1 + tenure ELSE tabu[<<x, y>>]
  <2>1. FrozenAt(tabu', r, p, iteration + 1 + tenure)
    BY <1>1, <1>2, <1>3, FreezeFacts
  <2> HIDE DEF ends
  <2> QED
    BY <2>1, <1>4 DEF FrozenAt
<1>6. new \subseteq ends
  BY <1>1, NewEdges
<1>7. entered' = [e \in NodePairs |-> IF e \in new THEN iteration + 1 ELSE entered[e]]
  BY <1>3 DEF Move, Stamped
<1> HIDE DEF ends, new
<1>8. \A x, y \in Nodes : {x, y} \in ends => iteration' + MinTenure <= tabu'[<<x, y>>]
  BY <1>2, <1>3, <1>5
<1>9. \A e \in NodePairs : entered'[e] <= iteration'
  BY <1>3, <1>7 DEF IInv, FrozenInv
<1>10. ASSUME NEW x \in Nodes, NEW y \in Nodes, x # y
       PROVE  entered'[{x, y}] + MinTenure <= tabu'[<<x, y>>]
  <2>1. {x, y} \in NodePairs
    BY <1>10 DEF NodePairs
  <2>2. CASE {x, y} \in ends
    <3>1. iteration' + MinTenure <= tabu'[<<x, y>>] /\ entered'[{x, y}] <= iteration'
      BY <1>8, <1>9, <2>1, <2>2
    <3>2. tabu'[<<x, y>>] \in Nat /\ entered'[{x, y}] \in Int
      BY <1>3, <1>5, <1>7, <2>1
    <3> QED
      BY <1>3, <3>1, <3>2
  <2>3. CASE {x, y} \notin ends
    <3>1. entered'[{x, y}] = entered[{x, y}] /\ tabu'[<<x, y>>] = tabu[<<x, y>>]
      BY <1>5, <1>6, <1>7, <2>1, <2>3
    <3> QED
      BY <1>10, <3>1 DEF IInv, FrozenInv, Lasts
  <2> QED
    BY <2>2, <2>3
<1>11. FrozenInv'
  BY <1>9, <1>10 DEF FrozenInv, Lasts
<1> QED
  BY <1>5, <1>8, <1>11 DEF ends

-----------------------------------------------------------------------------
\* The worker starts with a tour of the TspSolution and an empty matrix.
LEMMA InitInv == Init => IInv
<1> SUFFICES ASSUME Init
             PROVE  IInv
  OBVIOUS
<1>1. PICK t \in ToursFromZero : sol = [tour |-> t, cost |-> TourCost(t)]
  BY DEF Init
<1>2. IsTour(t) /\ t \in Arrays
  BY DEF ToursFromZero, IsTour, Arrays
<1>3. Priced(sol)
  BY <1>1, <1>2, TourFacts DEF Priced
<1>4. PricedInv
  BY <1>3 DEF Init, PricedInv
<1>5. MinTenure \in Nat
  BY TabuAssumption
<1>6. TypeInv
  <2>1. tabu \in [Nodes \X Nodes -> Nat] /\ \A a, b \in Nodes : tabu[<<a, b>>] = 0
    BY DEF Init
  <2>2. entered \in [NodePairs -> Int] /\ \A e \in NodePairs : entered[e] = -MinTenure
    BY <1>5 DEF Init
  <2> QED
    BY <2>1, <2>2 DEF Init, TypeInv, Labels
<1>7. FrozenInv
  <2>1. \A a, b \in Nodes : a # b => {a, b} \in NodePairs
    BY DEF NodePairs
  <2> QED
    BY <1>5, <1>6, <2>1 DEF Init, FrozenInv, Lasts, TypeInv
<1>8. BestInv /\ TurnInv
  BY DEF Init, BestInv, TurnInv
<1> QED
  BY <1>4, <1>6, <1>7, <1>8 DEF IInv

\* A move keeps the invariant.
LEMMA MoveInv == IInv /\ Move => IInv'
<1> SUFFICES ASSUME IInv, Move
             PROVE  IInv'
  OBVIOUS
<1> DEFINE t == current.tour
           r == current'.tour
<1>1. PICK p : Moves(p)
  BY MoveFacts
<1>2. /\ tabu' \in [Nodes \X Nodes -> Nat]
      /\ FrozenInv'
      /\ \A x, y \in Nodes :
           {x, y} \in {{t[p[1] - 1], t[p[2]]}, {t[p[1]], t[p[2] + 1]}}
             => iteration' + MinTenure <= tabu'[<<x, y>>]
  BY <1>1, MoveFreezes
<1>3. /\ iteration' = iteration + 1 /\ previous' = current /\ pc' = pc /\ over' = over
      /\ sol' = sol
      /\ entered' = Stamped(EdgesOf(r) \ EdgesOf(t), iteration')
      /\ \/ Better(current') /\ best' = current' /\ noImprov' = 0
         \/ ~Better(current') /\ best' = best /\ noImprov' = noImprov + 1
  BY DEF Move
<1>4. TypeInv'
  <2>1. entered' \in [NodePairs -> Int]
    BY <1>3 DEF IInv, TypeInv, Stamped
  <2>2. iteration' \in Nat /\ noImprov' \in Nat
    BY <1>3 DEF IInv, TypeInv
  <2> QED
    BY <1>2, <1>3, <2>1, <2>2 DEF IInv, TypeInv
<1>5. Priced(current') /\ PricedInv
  BY <1>1 DEF Moves, IInv
<1>6. PricedInv'
  BY <1>3, <1>5 DEF PricedInv, Priced
<1>7. BestInv'
  <2>1. current'.cost \in Int /\ best.cost \in Int /\ Eps \in Nat
    BY <1>5, TourAssumption DEF PricedInv, Priced
  <2> QED
    BY <1>3, <2>1 DEF BestInv, Better
<1>8. TurnInv'
  <2> SUFFICES ASSUME EdgesOf(t) = EdgesOf(r)
               PROVE  iteration' + MinTenure <= tabu'[<<r[0], r[NumNodes - 1]>>]
    BY <1>3 DEF TurnInv
  <2>1. /\ IsTour(t) /\ r = Reversed(t, p[1], p[2])
        /\ p[1] \in 1 .. NumNodes - 1 /\ p[2] \in 1 .. NumNodes - 1 /\ p[1] < p[2]
    BY <1>1, <1>5 DEF Moves, PricedInv, Priced
  <2>2. p[1] = 1 /\ p[2] = NumNodes - 1
    BY <2>1, OnlyTurn
  <2>3. p[1] - 1 = 0 /\ p[2] + 1 = NumNodes /\ t[NumNodes] = t[0]
    BY <2>2, <2>1, TourAssumption DEF IsTour
  <2>4. r[0] = t[0] /\ r[NumNodes - 1] = t[p[1]]
    BY <2>1, <2>2, <2>3, MoveEnds
  <2>5. t[0] \in Nodes /\ t[p[1]] \in Nodes
    <3>1. 0 \in Positions /\ p[1] \in Positions
      BY <2>1, TourAssumption DEF Positions
    <3> QED
      BY <2>1, <3>1 DEF IsTour
  <2>6. {t[0], t[p[1]]} = {t[p[1]], t[p[2] + 1]}
    BY <2>3
  <2> HIDE DEF t, r
  <2> QED
    BY <1>2, <2>4, <2>5, <2>6
<1> QED
  BY <1>2, <1>4, <1>6, <1>7, <1>8 DEF IInv

\* Every step keeps it.
LEMMA NextInv == IInv /\ [Next]_vars => IInv'
<1> SUFFICES ASSUME IInv, [Next]_vars
             PROVE  IInv'
  OBVIOUS
<1> USE DEF IInv
<1>1. CASE Improve
  <2>1. Priced(current')
    BY <1>1, DescendFacts DEF Improve, PricedInv
  <2> QED
    BY <1>1, <2>1
    DEF Improve, history, PricedInv, TypeInv, BestInv, FrozenInv, Lasts, TurnInv, Priced
<1>2. CASE StartSearch
  <2>1. current.cost \in Int /\ Eps \in Nat
    BY TourAssumption DEF PricedInv, Priced
  <2> QED
    BY <1>2, <2>1
    DEF StartSearch, PricedInv, TypeInv, Labels, BestInv, FrozenInv, Lasts, TurnInv, Priced
<1>3. CASE Move
  BY <1>3, MoveInv
<1>4. CASE Submit
  <2>1. /\ iteration' \in Nat /\ iteration <= iteration'
        /\ pc' = "done" /\ UNCHANGED <<current, best, tabu, noImprov, over, entered, previous>>
        /\ sol' = sol \/ sol' = best
    BY <1>4 DEF Submit, history, TypeInv
  <2>2. FrozenInv'
    <3>1. \A e \in NodePairs : entered[e] \in Int /\ entered[e] <= iteration
      BY DEF TypeInv, FrozenInv
    <3>2. \A e \in NodePairs : entered'[e] <= iteration'
      BY <2>1, <3>1 DEF TypeInv
    <3> QED
      BY <2>1, <3>2 DEF FrozenInv, Lasts
  <2> QED
    BY <2>1, <2>2 DEF PricedInv, TypeInv, Labels, BestInv, TurnInv, Priced
<1>5. CASE Expire
  BY <1>5 DEF Expire, history, PricedInv, TypeInv, BestInv, FrozenInv, Lasts, TurnInv, Priced
<1>6. CASE UNCHANGED vars
  BY <1>6 DEF vars, history, PricedInv, TypeInv, BestInv, FrozenInv, Lasts, TurnInv, Priced
<1> QED
  BY <1>1, <1>2, <1>3, <1>4, <1>5, <1>6 DEF Next, Run, Stop

\* The inductive invariant holds throughout.
THEOREM Inductive == Spec => []IInv
BY InitInv, NextInv, PTL DEF Spec

-----------------------------------------------------------------------------
\* run_tabu's scan prices a move from four edges, compute_n_opt_move makes it: the cost is that
\* of the tour for every sequence of moves.
THEOREM CostIsTourCost == Spec => []CostTracksTour
<1>1. IInv => CostTracksTour
  BY DEF IInv, PricedInv, Priced, CostTracksTour
<1> QED
  BY <1>1, Inductive, PTL

\* run_tabu takes moves that make the tour worse; the best tour it copies only gets better and
\* is within Eps of every tour the search stands on.
THEOREM BestOfTheSearch == Spec => BestIsKept
<1>1. IInv /\ [Next]_vars =>
        [pc = "loop" => best'.cost <= best.cost /\ best'.cost <= current'.cost + Eps]_vars
  <2> SUFFICES ASSUME IInv, Next, pc = "loop"
               PROVE  best'.cost <= best.cost /\ best'.cost <= current'.cost + Eps
    OBVIOUS
  <2>1. best.cost \in Int /\ current.cost \in Int /\ Eps \in Nat
    BY TourAssumption DEF IInv, PricedInv, Priced
  <2>2. best.cost <= current.cost + Eps
    BY DEF IInv, BestInv
  <2>3. CASE Move
    <3>1. IInv'
      BY <2>3, MoveInv
    <3>2. best'.cost <= current'.cost + Eps
      BY <2>3, <3>1 DEF Move, IInv, BestInv
    <3>3. current'.cost \in Int
      BY <3>1 DEF IInv, PricedInv, Priced
    <3>4. best' = best \/ (best' = current' /\ current'.cost < best.cost - Eps)
      BY <2>3 DEF Move, Better
    <3> QED
      BY <2>1, <3>2, <3>3, <3>4
  <2>4. CASE ~Move
    <3>1. best' = best /\ current' = current
      BY <2>4 DEF Next, Run, Improve, StartSearch, Submit, Expire, Stop, vars
    <3> QED
      BY <2>1, <2>2, <3>1
  <2> QED
    BY <2>3, <2>4
<1> QED
  BY <1>1, Inductive, PTL DEF Spec, BestIsKept

\* An edge that a move created is not put back while its tenure lasts, unless that gives a new
\* best tour: both edges of a move are frozen and both are looked up, in either direction.
THEOREM FrozenStayOut == Spec => FrozenEdgesStayOut
<1> DEFINE StaysOut ==
      \A e \in EdgesOf(current'.tour) \ EdgesOf(current.tour) :
        pc = "loop" => iteration' >= entered[e] + MinTenure \/ best' # best
<1>1. IInv /\ [Next]_vars => [StaysOut]_vars
  <2> SUFFICES ASSUME IInv, Next, pc = "loop",
                      NEW e \in EdgesOf(current'.tour) \ EdgesOf(current.tour)
               PROVE  iteration' >= entered[e] + MinTenure \/ best' # best
    OBVIOUS
  <2>1. CASE Move
    <3> DEFINE t == current.tour
    <3>1. PICK p : Moves(p)
      BY <2>1, MoveFacts
    <3>2. /\ p[1] \in 1 .. NumNodes - 1 /\ p[2] \in 1 .. NumNodes - 1 /\ p[1] < p[2]
          /\ current'.tour = Reversed(t, p[1], p[2]) /\ IsTour(t)
          /\ best.cost \in Int /\ current'.cost \in Int /\ Eps \in Nat
          /\ iteration' = iteration + 1 /\ iteration \in Nat /\ MinTenure \in Nat
      BY <2>1, <3>1, TourAssumption, TabuAssumption
      DEF Moves, IInv, PricedInv, TypeInv, Priced, Move
    <3>3. e \in {{t[p[1] - 1], t[p[2]]}, {t[p[1]], t[p[2] + 1]}}
      BY <3>2, NewEdges
    <3>4. CASE current'.cost < best.cost - Eps
      <4>1. best' = current'
        BY <2>1, <3>4 DEF Move, Better
      <4> QED
        BY <3>2, <3>4, <4>1
    <3>5. CASE ~IsTabu(t, p, iteration + 1)
      <4>1. PICK x, y \in Nodes :
              e = {x, y} /\ x # y /\ ~(tabu[<<x, y>>] > iteration + 1)
        <5>1. /\ ~(tabu[<<t[p[1] - 1], t[p[2]]>>] > iteration + 1)
              /\ ~(tabu[<<t[p[1]], t[p[2] + 1]>>] > iteration + 1)
          BY <3>5 DEF IsTabu
        <5>2. /\ t[p[1] - 1] \in Nodes /\ t[p[2]] \in Nodes /\ t[p[1]] \in Nodes
              /\ t[p[2] + 1] \in Nodes
          <6>1. {p[1] - 1, p[2], p[1], p[2] + 1} \subseteq Positions
            BY <3>2, TourAssumption DEF Positions
          <6> QED
            BY <3>2, <6>1 DEF IsTour
        <5>3. \E x, y \in Nodes : e = {x, y} /\ ~(tabu[<<x, y>>] > iteration + 1)
          BY <3>3, <5>1, <5>2
        <5>4. \A x \in Nodes : e # {x}
          <6>1. IsTour(current'.tour) /\ NumNodes # 1
            BY <3>2, ReversedIsTour, TourAssumption
          <6>2. PICK z \in Nodes : e = {current'.tour[z], current'.tour[z + 1]}
            BY DEF EdgesOf
          <6>3. current'.tour[z] # current'.tour[z + 1]
            BY <6>1, EdgeFacts
          <6> QED
            BY <6>2, <6>3
        <5> QED
          BY <5>3, <5>4
      <4>2. entered[{x, y}] + MinTenure <= tabu[<<x, y>>]
        BY <4>1 DEF IInv, FrozenInv, Lasts
      <4>3. tabu[<<x, y>>] \in Nat /\ entered[{x, y}] \in Int
        <5>1. {x, y} \in NodePairs
          BY <4>1 DEF NodePairs
        <5> QED
          BY <4>1, <5>1 DEF IInv, TypeInv
      <4> QED
        BY <3>2, <4>1, <4>2, <4>3
    <3> QED
      BY <3>1, <3>4, <3>5 DEF Moves
  <2>2. CASE ~Move
    <3>1. current' = current
      BY <2>2 DEF Next, Run, Improve, StartSearch, Submit, Expire, Stop, vars
    <3> QED
      BY <3>1
  <2> QED
    BY <2>1, <2>2
<1> QED
  BY <1>1, Inductive, PTL DEF Spec, FrozenEdgesStayOut

\* The search does not turn the tour round and back again: the turn freezes the edges at
\* position 0, when the tenure outlasts the iteration, and the turn back does not aspire.
THEOREM IdlesOnlyOnce == Spec => NeverIdlesTwice
<1> DEFINE Idles ==
      pc = "loop" /\ MinTenure >= 2 /\ current'.tour # current.tour
        /\ previous.tour # current.tour /\ EdgesOf(previous.tour) = EdgesOf(current.tour)
        => EdgesOf(current'.tour) # EdgesOf(current.tour)
<1>1. IInv /\ [Next]_vars => [Idles]_vars
  <2> SUFFICES ASSUME IInv, Next, pc = "loop", MinTenure >= 2, current'.tour # current.tour,
                      previous.tour # current.tour,
                      EdgesOf(previous.tour) = EdgesOf(current.tour),
                      EdgesOf(current'.tour) = EdgesOf(current.tour)
               PROVE  FALSE
    OBVIOUS
  <2> DEFINE t == current.tour
  <2>1. Move
    BY DEF Next, Run, Improve, StartSearch, Submit, Expire, Stop, vars
  <2>2. PICK p : Moves(p)
    BY <2>1, MoveFacts
  <2>3. /\ p[1] \in 1 .. NumNodes - 1 /\ p[2] \in 1 .. NumNodes - 1 /\ p[1] < p[2]
        /\ current'.tour = Reversed(t, p[1], p[2]) /\ IsTour(t)
        /\ current'.cost = current.cost + TwoOptDelta(t, p[1], p[2])
        /\ current.cost = TourCost(t)
    BY <2>2 DEF Moves, IInv, PricedInv, Priced
  <2>4. p[1] = 1 /\ p[2] = NumNodes - 1
    BY <2>3, OnlyTurn
  <2>5. iteration + MinTenure <= tabu[<<t[0], t[NumNodes - 1]>>]
    BY DEF IInv, TurnInv
  <2>6. IsTabu(t, p, iteration + 1)
    <3>1. t[p[1] - 1] = t[0] /\ t[p[2]] = t[NumNodes - 1]
      BY <2>4
    <3>2. t[0] \in Nodes /\ t[NumNodes - 1] \in Nodes
      BY <2>3, TourAssumption DEF IsTour, Positions
    <3>3. tabu[<<t[0], t[NumNodes - 1]>>] \in Nat /\ iteration \in Nat /\ MinTenure \in Nat
      BY <3>2, TabuAssumption DEF IInv, TypeInv
    <3>4. tabu[<<t[0], t[NumNodes - 1]>>] > iteration + 1
      BY <2>5, <3>3
    <3> QED
      BY <3>1, <3>4 DEF IsTabu
  <2>7. current'.cost < best.cost - Eps
    BY <2>2, <2>6 DEF Moves
  <2>8. TwoOptDelta(t, p[1], p[2]) = 0
    <3> DEFINE a == t[0]
               b == t[1]
               c == t[NumNodes - 1]
    <3>1. /\ p[1] - 1 = 0 /\ p[2] + 1 = NumNodes /\ t[NumNodes] = a
          /\ a \in Nodes /\ b \in Nodes /\ c \in Nodes
      <4>1. {0, 1, NumNodes - 1, NumNodes} \subseteq Positions
        BY <2>3, <2>4, TourAssumption DEF Positions
      <4>2. a \in Nodes /\ b \in Nodes /\ c \in Nodes /\ t[NumNodes] = a
        BY <2>3, <4>1 DEF IsTour
      <4>3. p[1] - 1 = 0 /\ p[2] + 1 = NumNodes
        BY <2>4, TourAssumption
      <4> QED
        BY <4>2, <4>3
    <3>2. TwoOptDelta(t, p[1], p[2]) = Cost[a][c] + Cost[b][a] - (Cost[a][b] + Cost[c][a])
      BY <2>4, <3>1 DEF TwoOptDelta
    <3>3. /\ Cost[a][c] = Cost[c][a] /\ Cost[b][a] = Cost[a][b]
          /\ Cost[a][c] \in Nat /\ Cost[b][a] \in Nat
      BY <3>1, TourAssumption
    <3> QED
      BY <3>2, <3>3
  <2>9. best.cost <= current.cost + Eps /\ best.cost \in Int /\ current.cost \in Int /\ Eps \in Nat
    BY TourAssumption DEF IInv, BestInv, PricedInv, Priced
  <2> QED
    BY <2>3, <2>7, <2>8, <2>9
<1> QED
  BY <1>1, Inductive, PTL DEF Spec, NeverIdlesTwice
=============================================================================
