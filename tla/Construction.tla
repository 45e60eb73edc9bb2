---------------------------- MODULE Construction ----------------------------
(***************************************************************************)
(* How tours are built node by node: nearest neighbour and its randomised  *)
(* form for GRASP, extra mileage, and the repair of a crossed child in the *)
(* genetic algorithm (heuristic/constructive.c, algorithm/genetic.c).      *)
(*                                                                         *)
(* The greedy builders keep all the nodes in one array, the first ones in  *)
(* their final place; the other two insert into a list that grows.         *)
(***************************************************************************)
EXTENDS TspTour, SequencesExt

CONSTANTS
  RclSize,      \* cfg->rcl_size; 1 makes it nearest_neighbor_tour
  FirstParents, SecondParents,  \* the tours crossover_operator is given
  CutPoints     \* the values of n * ratio / 100

ASSUME ConstructionAssumption ==
  /\ NumNodes >= 2
  /\ RclSize \in Nat \ {0}
  /\ \A t \in FirstParents \cup SecondParents : IsTour(t)
  /\ CutPoints \subseteq Positions

VARIABLES
  kind,     \* which construction this is
  list,     \* tour[] or temp_tour[], as far as it is filled
  placed,   \* greedy: how many nodes are in their place
  missing,  \* repair: the nodes still to be inserted, in order
  cost,     \* greedy: total_cost
  tour      \* the result, once it is closed

buildVars == <<kind, list, placed, missing, cost, tour>>

Unfinished == <<>>

\* What a pass over the array s collects: every node at its first occurrence,
\* those of `visited' left out.
Collected(s, visited) ==
  LET upTo[x \in 0 .. NumNodes] ==
        IF x = 0 THEN <<>>
        ELSE LET kept == upTo[x - 1]
             IN  IF s[x] \in ToSet(kept) \cup visited THEN kept ELSE Append(kept, s[x])
  IN  upTo[NumNodes]

InOrder == [x \in 1 .. NumNodes |-> x - 1]

\* crossover_operator: the first parent up to the cut, the second one from it on.
Crossed(p1, p2, cut) == [x \in 1 .. NumNodes |-> IF x <= cut THEN p1[x - 1] ELSE p2[x - 1]]

\* The two nodes farthest apart, the first such pair of the scan.
Diameter ==
  LET pairs == {p \in Nodes \X Nodes : p[1] < p[2]}
  IN  CHOOSE p \in pairs : \A q \in pairs \ {p} :
        \/ Cost[p[1]][p[2]] > Cost[q[1]][q[2]]
        \/ Cost[p[1]][p[2]] = Cost[q[1]][q[2]] /\ Before(p, q)

SwapIn(s, x, y) == [s EXCEPT ![x] = s[y], ![y] = s[x]]

InitGreedy ==
  /\ kind = "greedy"
  /\ \E start \in Nodes : list = SwapIn(InOrder, 1, start + 1)
  /\ placed = 1
  /\ missing = <<>>

InitMileage ==
  /\ kind = "mileage"
  /\ list = Diameter
  /\ placed = 0
  /\ missing = <<>>

\* repair_child, phases 1 and 2.
InitRepair ==
  /\ kind = "repair"
  /\ \E p1 \in FirstParents, p2 \in SecondParents, cut \in CutPoints :
       list = Collected(Crossed(p1, p2, cut), {})
  /\ placed = 0
  /\ missing = Collected(InOrder, ToSet(list))

BuildInit ==
  /\ InitGreedy \/ InitMileage \/ InitRepair
  /\ cost = 0
  /\ tour = Unfinished

-----------------------------------------------------------------------------
\* The restricted candidate list: places in the array, ordered by the cost from
\* the current node.  A candidate goes before the first one that costs more, and
\* what no longer fits falls off the end.
DistanceFromStart(j) == Cost[list[1]][list[j]]   \* wrong: the row never moves on
Distance(j) == Cost[list[placed]][list[j]]

\* Wrong: the list is kept in descending order, so the cheapest falls off.
RankedDownwards(rcl, j) ==
  LET after == {k \in 1 .. Len(rcl) : Distance(j) > Distance(rcl[k])}
      grown == InsertAt(rcl, IF after = {} THEN Len(rcl) + 1 ELSE Min(after), j)
  IN  IF Len(grown) > RclSize THEN Front(grown) ELSE grown

Ranked(rcl, j) ==
  LET after == {k \in 1 .. Len(rcl) : Distance(j) < Distance(rcl[k])}
      grown == InsertAt(rcl, IF after = {} THEN Len(rcl) + 1 ELSE Min(after), j)
  IN  IF Len(grown) > RclSize THEN Front(grown) ELSE grown

Rcl ==
  LET upTo[x \in 0 .. NumNodes - placed] ==
        IF x = 0 THEN <<>> ELSE Ranked(upTo[x - 1], placed + x)
  IN  upTo[NumNodes - placed]

\* One node further: any candidate of the list, or its first one.
Extend ==
  /\ kind = "greedy"
  /\ placed < NumNodes
  /\ \E j \in ToSet(Rcl) :
       /\ list' = SwapIn(list, placed + 1, j)
       /\ cost' = cost + Distance(j)
  /\ placed' = placed + 1
  /\ UNCHANGED <<kind, missing, tour>>

CloseOnLast(s) == [x \in Positions |-> s[IF x = NumNodes THEN x ELSE x + 1]]   \* wrong: not closed
Close(s) == [x \in Positions |-> s[(x % NumNodes) + 1]]

CloseGreedy ==
  /\ kind = "greedy"
  /\ placed = NumNodes
  /\ tour = Unfinished
  /\ cost' = cost + Cost[list[NumNodes]][list[1]]
  /\ tour' = Close(list)
  /\ UNCHANGED <<kind, list, placed, missing>>

-----------------------------------------------------------------------------
\* Wrong: the edge that is broken up is not given back.
DetourWithoutGain(s, h, p) == Cost[s[p]][h] + Cost[h][s[(p % Len(s)) + 1]]

\* The extra cost of node h between the p-th node of the list and the next.
Detour(s, h, p) ==
  LET u == s[p]
      v == s[(p % Len(s)) + 1]
  IN  Cost[u][h] + Cost[h][v] - Cost[u][v]

\* The cheapest of the offered insertions; among equals the first one scanned.
CheapestOf(s, offers) ==
  CHOOSE o \in offers : \A q \in offers \ {o} :
    \/ Detour(s, o[1], o[2]) < Detour(s, q[1], q[2])
    \/ Detour(s, o[1], o[2]) = Detour(s, q[1], q[2]) /\ Before(o, q)

Insert(offers) ==
  LET o == CheapestOf(list, offers)
  IN  list' = InsertAt(list, o[2] + 1, o[1])

\* extra_mileage_complete_tour: the cheapest node at its cheapest place.
InsertCheapest ==
  /\ kind = "mileage"
  /\ Len(list) < NumNodes
  /\ Insert((Nodes \ ToSet(list)) \X (1 .. Len(list)))
  /\ UNCHANGED <<kind, placed, missing, cost, tour>>

\* repair_child, phase 3: the next missing node at its cheapest place.
InsertMissing ==
  /\ kind = "repair"
  /\ missing # <<>>
  /\ Insert({Head(missing)} \X (1 .. Len(list)))
  /\ missing' = Tail(missing)
  /\ UNCHANGED <<kind, placed, cost, tour>>

CloseList ==
  /\ \/ kind = "mileage" /\ Len(list) = NumNodes
     \/ kind = "repair" /\ missing = <<>>
  /\ tour = Unfinished
  /\ tour' = Close(list)
  /\ cost' = TourCost(tour')
  /\ UNCHANGED <<kind, list, placed, missing>>

Built == tour # Unfinished /\ UNCHANGED buildVars

BuildNext == Extend \/ CloseGreedy \/ InsertCheapest \/ InsertMissing \/ CloseList \/ Built

BuildSpec == BuildInit /\ [][BuildNext]_buildVars
-----------------------------------------------------------------------------
\* From any starting node, any two parents and any cut, a closed tour comes out.
YieldsATour == tour # Unfinished => IsTour(tour)

\* The cost the greedy builders add up on the way is the cost of their tour.
GreedyCostIsTourCost == tour # Unfinished => cost = TourCost(tour)

\* The bounded list, kept in order with a single pass over the candidates,
\* holds as many as there are room and candidates for, and the cheapest ones.
RclHoldsTheCheapest ==
  kind = "greedy" /\ placed < NumNodes =>
    LET left == placed + 1 .. NumNodes
        in == ToSet(Rcl)
    IN  /\ Cardinality(in) = IF RclSize < Cardinality(left) THEN RclSize ELSE Cardinality(left)
        /\ \A x \in in, y \in left \ in : Distance(x) <= Distance(y)

\* An insertion never lengthens the closed list by more than any other insertion
\* of the same node would have.
CycleCost(s) == Total([x \in 1 .. Len(s) |-> Cost[s[x]][s[(x % Len(s)) + 1]]], Len(s))
InsertionIsCheapest ==
  [][\A h \in ToSet(list') \ ToSet(list), p \in 1 .. Len(list) :
       list' # list => CycleCost(list') <= CycleCost(InsertAt(list, p + 1, h))]_buildVars
=============================================================================
