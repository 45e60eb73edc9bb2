------------------------------ MODULE TspTour ------------------------------
(***************************************************************************)
(* Tours and the moves on them: tsp_math.c, tsp_tour.c and the step of     *)
(* two_opt in heuristic/local_search.c.  A tour is the C array: entry i is *)
(* the node visited at position i, and entry NumNodes repeats entry 0.     *)
(* Costs are integers in some small unit; Eps is EPSILON in that unit.     *)
(***************************************************************************)
EXTENDS Integers, Sequences

CONSTANTS
  NumNodes,
  Cost,      \* the cost matrix
  Eps

Nodes == 0 .. NumNodes - 1
Positions == 0 .. NumNodes

\* tsp_instance computes Euclidean distances: symmetric, zero on the diagonal.
ASSUME TourAssumption ==
  /\ NumNodes \in Nat \ {0}
  /\ Cost \in [Nodes -> [Nodes -> Nat]]
  /\ \A a, b \in Nodes : Cost[a][b] = Cost[b][a]
  /\ \A a \in Nodes : Cost[a][a] = 0
  /\ Eps \in Nat

IsTour(t) ==
  /\ t \in [Positions -> Nodes]
  /\ \A i, j \in Nodes : t[i] = t[j] => i = j
  /\ t[NumNodes] = t[0]

\* Every tour that starts at node 0.
ToursFromZero == {t \in [Positions -> Nodes] : t[0] = 0 /\ IsTour(t)}

EdgesOf(t) == {{t[i], t[i + 1]} : i \in Nodes}

\* What a loop from 1 to n has added up at its end.
Total(f, n) ==
  LET upTo[x \in 0 .. n] == IF x = 0 THEN 0 ELSE upTo[x - 1] + f[x]
  IN  upTo[n]

\* calculate_tour_cost
Legs(t) == [x \in 1 .. NumNodes |-> Cost[t[x - 1]][t[x]]]
TourCost(t) == Total(Legs(t), NumNodes)

\* reverse_array_int between positions i and j
Reversed(t, i, j) == [x \in Positions |-> IF i <= x /\ x <= j THEN t[i + j - x] ELSE t[x]]

-----------------------------------------------------------------------------
\* two_opt and the tabu scan: the edges entering i and leaving j are replaced
\* by reversing what is between them.
TwoOptDeltaWrongEdge(t, i, j) ==   \* wrong: the edge into j goes, not the one out of it
  Cost[t[i - 1]][t[j]] + Cost[t[i]][t[j + 1]] - (Cost[t[i - 1]][t[i]] + Cost[t[j - 1]][t[j]])

TwoOptDelta(t, i, j) ==
  Cost[t[i - 1]][t[j]] + Cost[t[i]][t[j + 1]] - (Cost[t[i - 1]][t[i]] + Cost[t[j]][t[j + 1]])

\* The pairs of positions the loops visit, in the order they visit them.
Pairs == {p \in (1 .. NumNodes - 2) \X (2 .. NumNodes - 1) : p[1] < p[2]}
Before(p, q) == p[1] < q[1] \/ (p[1] = q[1] /\ p[2] < q[2])

\* Wrong: the inner loop ends one position early.
ImprovingStopsShort(t) ==
  {p \in Pairs : p[2] < NumNodes - 1 /\ TwoOptDelta(t, p[1], p[2]) < -Eps}

\* Wrong: the sign of EPSILON is lost, moves that gain nothing are taken.
ImprovingOrEqual(t) ==
  {p \in Pairs \ {<<1, NumNodes - 1>>} : TwoOptDelta(t, p[1], p[2]) < Eps}

\* two_opt leaves out the pair that would reverse everything but position 0.
Improving(t) ==
  {p \in Pairs \ {<<1, NumNodes - 1>>} : TwoOptDelta(t, p[1], p[2]) < -Eps}

\* The first improving pair of a scan; two_opt applies it and starts over.
FirstImproving(t) ==
  CHOOSE p \in Improving(t) : \A q \in Improving(t) \ {p} : Before(p, q)

\* One step of the descent on a tour and the cost kept for it.
Descend(c) ==
  LET p == FirstImproving(c.tour)
  IN  [tour |-> Reversed(c.tour, p[1], p[2]),
       cost |-> c.cost + TwoOptDelta(c.tour, p[1], p[2])]

-----------------------------------------------------------------------------
\* k cut positions, sorted and all different, as vns_kick hands them over.
Cuts(k) == {e \in [1 .. k -> Nodes] : \A i, j \in 1 .. k : i < j => e[i] < e[j]}

\* The edges that leave the cuts, and the new edges between the middle segments.
Removed(t, e) == [i \in 1 .. Len(e) |-> Cost[t[e[i]]][t[e[i] + 1]]]
Middle(t, e) == [i \in 1 .. Len(e) - 2 |-> Cost[t[e[i] + 1]][t[e[i + 2]]]]

\* Wrong: the edges between the middle segments are forgotten.
NOptDeltaNoMiddle(t, e) ==
  LET k == Len(e)
      first == Cost[t[e[1]]][t[e[2]]]
      last == Cost[t[e[k - 1] + 1]][t[e[k] + 1]]
  IN  first + last - Total(Removed(t, e), k)

\* compute_n_opt_cost: the edges leaving the cuts go, and the first, the middle
\* and the last of the new edges come in.
NOptDelta(t, e) ==
  LET k == Len(e)
      first == Cost[t[e[1]]][t[e[2]]]
      last == Cost[t[e[k - 1] + 1]][t[e[k] + 1]]
  IN  first + Total(Middle(t, e), k - 2) + last - Total(Removed(t, e), k)

\* compute_n_opt_move: every segment between two cuts is reversed in place.
InSegment(e, m, x) == e[m] < x /\ x <= e[m + 1]

NOptMove(t, e) ==
  [x \in Positions |->
     IF \E m \in 1 .. Len(e) - 1 : InSegment(e, m, x)
     THEN LET m == CHOOSE m \in 1 .. Len(e) - 1 : InSegment(e, m, x)
          IN  t[e[m] + 1 + e[m + 1] - x]
     ELSE t[x]]
=============================================================================
