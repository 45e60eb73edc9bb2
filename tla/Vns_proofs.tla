----------------------------- MODULE Vns_proofs -----------------------------
(***************************************************************************)
(* Theorems about Vns for every number of nodes, every symmetric cost      *)
(* matrix, every configuration that validate_options lets through and any  *)
(* moment at which the time runs out.                                      *)
(***************************************************************************)
EXTENDS Vns, TspTour_proofs

Labels == {"descent", "loop", "kick", "search", "done"}

TypeInv ==
  /\ pc \in Labels
  /\ k \in MinK .. MaxK
  /\ stag \in Nat /\ kicks \in Nat /\ idle \in Nat
  /\ over \in BOOLEAN

\* Every cost the worker keeps is that of the tour beside it.
PricedInv == Priced(current) /\ Priced(best) /\ Priced(sol)

IInv == TypeInv /\ PricedInv /\ StagnationCountsSweeps

\* A kick of any size keeps the cost that of the tour.
LEMMA KickedFacts ==
  ASSUME NEW c, Priced(c), k \in MinK .. MaxK, NEW d \in Kicked(c)
  PROVE  Priced(d)
<1>1. NumNodes \in Nat \ {0} /\ k \in Nat \ {0, 1}
  BY TourAssumption, VnsAssumption
<1>2. CASE KOpt < 2
  BY <1>2 DEF Kicked
<1>3. CASE ~(KOpt < 2)
  <2>1. KOpt \in Nat \ {0, 1}
    BY <1>1, <1>3 DEF KOpt
  <2>2. PICK e \in Cuts(KOpt) :
          d = [tour |-> NOptMove(c.tour, e), cost |-> c.cost + NOptDelta(c.tour, e)]
    BY <1>3 DEF Kicked
  <2>3. AreCuts(e, KOpt)
    BY <2>1, CutsFacts
  <2>4. IsTour(c.tour) /\ c.cost = TourCost(c.tour)
    BY DEF Priced
  <2>5. IsTour(NOptMove(c.tour, e))
    BY <2>3, <2>4, NOptMoveIsTour
  <2>6. TourCost(NOptMove(c.tour, e)) = c.cost + NOptDelta(c.tour, e)
    BY <2>3, <2>4, NOptDeltaExact
  <2>7. TourCost(NOptMove(c.tour, e)) \in Int /\ NOptMove(c.tour, e) \in Arrays
    BY <2>5, TourFacts DEF IsTour, Arrays
  <2> QED
    BY <2>2, <2>5, <2>6, <2>7 DEF Priced
<1> QED
  BY <1>2, <1>3

\* The worker starts with a tour of the TspSolution and its cost.
LEMMA InitInv == Init => IInv
<1> SUFFICES ASSUME Init
             PROVE  IInv
  OBVIOUS
<1>1. PICK t \in ToursFromZero : sol = [tour |-> t, cost |-> TourCost(t)]
  BY DEF Init
<1>2. IsTour(t) /\ t \in Arrays
  BY DEF ToursFromZero, IsTour, Arrays
<1>3. Priced(sol)
  BY <1>1, <1>2, TourFacts DEF Priced
<1>4. PricedInv
  BY <1>3 DEF Init, PricedInv
<1>5. MinK \in MinK .. MaxK /\ MinK \in Nat /\ MaxK \in Nat
  BY VnsAssumption
<1>6. TypeInv
  BY <1>5 DEF Init, TypeInv, Labels
<1>7. StagnationCountsSweeps
  <2>1. idle = 0 /\ stag = 0 /\ k = MinK
    BY DEF Init
  <2>2. 0 = 0 * (MaxK - MinK + 1) + (MinK - MinK)
    BY <1>5
  <2> QED
    BY <2>1, <2>2 DEF StagnationCountsSweeps
<1> QED
  BY <1>4, <1>6, <1>7 DEF IInv

\* Every step keeps it.
LEMMA NextInv == IInv /\ [Next]_vars => IInv'
<1> SUFFICES ASSUME IInv, [Next]_vars
             PROVE  IInv'
  OBVIOUS
<1> USE DEF IInv
<1>1. CASE Improve
  <2>1. Priced(current')
    BY <1>1, DescendFacts DEF Improve, PricedInv
  <2> QED
    BY <1>1, <2>1 DEF Improve, PricedInv, TypeInv, StagnationCountsSweeps, Priced
<1>2. CASE StartSearch
  BY <1>2 DEF StartSearch, PricedInv, TypeInv, Labels, StagnationCountsSweeps, Priced
<1>3. CASE Enter
  BY <1>3 DEF Enter, PricedInv, TypeInv, Labels, StagnationCountsSweeps, Priced
<1>4. CASE Kick
  <2>1. Priced(current')
    BY <1>4, KickedFacts DEF Kick, PricedInv, TypeInv
  <2>2. kicks' \in Nat /\ pc' \in Labels
    BY <1>4 DEF Kick, TypeInv, Labels
  <2> QED
    BY <1>4, <2>1, <2>2 DEF Kick, PricedInv, TypeInv, StagnationCountsSweeps, Priced
<1>5. CASE Accept
  <2>1. MinK \in MinK .. MaxK /\ MinK \in Nat /\ MaxK \in Nat
    BY VnsAssumption
  <2>2. 0 = 0 * (MaxK - MinK + 1) + (MinK - MinK)
    BY <2>1
  <2> QED
    BY <1>5, <2>1, <2>2
    DEF Accept, PricedInv, TypeInv, Labels, StagnationCountsSweeps, Priced
<1>6. CASE Reject
  <2> DEFINE Sweep == MaxK - MinK + 1
  <2>1. MinK \in Nat /\ MaxK \in Nat /\ MinK <= MaxK /\ Sweep \in Nat
    BY VnsAssumption
  <2>2. k \in MinK .. MaxK /\ stag \in Nat /\ idle \in Nat /\ idle = stag * Sweep + (k - MinK)
    BY DEF TypeInv, StagnationCountsSweeps
  <2>3. /\ k' = IF k + 1 > MaxK THEN MinK ELSE k + 1
        /\ stag' = IF k + 1 > MaxK THEN stag + 1 ELSE stag
        /\ idle' = idle + 1
        /\ current' = best /\ pc' = "loop"
        /\ UNCHANGED <<best, kicks, over, sol>>
    BY <1>6 DEF Reject
  <2>4. k' \in MinK .. MaxK /\ stag' \in Nat /\ idle' \in Nat
    BY <2>1, <2>2, <2>3
  <2>5. idle' = stag' * Sweep + (k' - MinK)
    <3>1. CASE k + 1 > MaxK
      <4>1. k = MaxK
        BY <2>1, <2>2, <3>1
      <4>2. (stag + 1) * Sweep = stag * Sweep + Sweep
        BY <2>1, <2>2
      <4>3. stag * Sweep \in Int
        BY <2>1, <2>2
      <4>4. idle' = stag * Sweep + (MaxK - MinK) + 1
        BY <4>1, <2>2, <2>3
      <4>5. idle' = stag * Sweep + Sweep
        BY <4>3, <4>4, <2>1
      <4> QED
        BY <3>1, <4>2, <4>3, <4>5, <2>1, <2>3
    <3>2. CASE ~(k + 1 > MaxK)
      <4>1. stag * Sweep \in Int
        BY <2>1, <2>2
      <4> HIDE DEF Sweep
      <4> QED
        BY <3>2, <4>1, <2>1, <2>2, <2>3
    <3> QED
      BY <3>1, <3>2
  <2>6. StagnationCountsSweeps'
    BY <2>5 DEF StagnationCountsSweeps
  <2> QED
    BY <2>3, <2>4, <2>6 DEF PricedInv, TypeInv, Labels, Priced
<1>7. CASE Submit
  BY <1>7 DEF Submit, PricedInv, TypeInv, Labels, StagnationCountsSweeps, Priced
<1>8. CASE Expire
  BY <1>8 DEF Expire, PricedInv, TypeInv, StagnationCountsSweeps, Priced
<1>9. CASE UNCHANGED vars
  BY <1>9 DEF vars, PricedInv, TypeInv, StagnationCountsSweeps, Priced
<1> QED
  BY <1>1, <1>2, <1>3, <1>4, <1>5, <1>6, <1>7, <1>8, <1>9 DEF Next, Run, Stop

\* The inductive invariant holds throughout.
THEOREM Inductive == Spec => []IInv
BY InitInv, NextInv, PTL DEF Spec

\* run_vns never computes the cost of a tour: it adds the deltas of kicks and 2-opt steps and
\* restores saved pairs, and the cost is that of the tour for every sequence of them.
THEOREM CostIsTourCost == Spec => []CostTracksTour
<1>1. IInv => CostTracksTour
  BY DEF IInv, PricedInv, Priced, CostTracksTour
<1> QED
  BY <1>1, Inductive, PTL

\* The stagnation counter counts whole sweeps of k: the search does not give up before it tried
\* every k from min_k to max_k max_stagnation times.
THEOREM SweepsAreWhole == Spec => []StagnationCountsSweeps
<1>1. IInv => StagnationCountsSweeps
  BY DEF IInv
<1> QED
  BY <1>1, Inductive, PTL

\* A tour that is compared with the best one is 2-optimal, unless the time is over: the pair
\* that two_opt's loops leave out and the early restart of its scan lose nothing.
THEOREM ComparesOptima == Spec => []ComparesLocalOptima
<1>1. IInv => ComparesLocalOptima
  <2> SUFFICES ASSUME IInv, Improving(current.tour) = {},
                      NEW i \in 1 .. NumNodes - 1, NEW j \in 1 .. NumNodes - 1, i < j
               PROVE  TourCost(Reversed(current.tour, i, j)) >= TourCost(current.tour) - Eps
    BY DEF ComparesLocalOptima, DescentEnds
  <2>1. IsTour(current.tour)
    BY DEF IInv, PricedInv, Priced
  <2> QED
    BY <2>1, LocalOptimum
<1> QED
  BY <1>1, Inductive, PTL
=============================================================================
