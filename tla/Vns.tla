-------------------------------- MODULE Vns --------------------------------
(***************************************************************************)
(* tsp_algo_lib/src/algorithm/variable_neighborhood_search.c: one worker's *)
(* run_vns on tours and costs of its own, from the snapshot it takes of    *)
(* the incumbent to the tour it submits.  Other workers are the subject of *)
(* ParallelRun.tla: here the snapshot is a tour with its own cost.         *)
(***************************************************************************)
EXTENDS TspTour

CONSTANTS
  MinK, MaxK,       \* cfg->min_k, cfg->max_k
  KickRepetition,   \* cfg->kick_repetition
  MaxStagnation,    \* cfg->max_stagnation
  TimeLimited       \* can the time limit strike during the run?

\* What validate_options lets through.
ASSUME VnsAssumption ==
  /\ MinK \in Nat \ {0, 1} /\ MaxK \in Nat /\ MinK <= MaxK
  /\ KickRepetition \in Nat \ {0}
  /\ MaxStagnation \in Nat \ {0}
  /\ TimeLimited \in BOOLEAN

VARIABLES
  pc,
  current,  \* current_tour, current_cost
  best,     \* best_tour, best_cost
  k,        \* current_k
  stag,     \* stagnation
  kicks,    \* the kick loop's i
  over,     \* the timer has passed the limit
  sol,      \* the TspSolution
  idle      \* history: rounds since best was last replaced

vars == <<pc, current, best, k, stag, kicks, over, sol, idle>>

Init ==
  /\ \E t \in ToursFromZero : sol = [tour |-> t, cost |-> TourCost(t)]
  /\ pc = "descent"
  /\ current = sol
  /\ best = sol
  /\ k = MinK
  /\ stag = 0
  /\ kicks = 0
  /\ over = FALSE
  /\ idle = 0

\* two_opt, before the loop and after the kicks: improving steps until there is
\* none, or until it finds the time to be over, which it asks for at every i.
Improve ==
  /\ pc \in {"descent", "search"}
  /\ ~over
  /\ Improving(current.tour) # {}
  /\ current' = Descend(current)
  /\ UNCHANGED <<pc, best, k, stag, kicks, over, sol, idle>>

DescentEnds == Improving(current.tour) = {} \/ over

\* best_tour and best_cost start as what the first descent left.
StartSearch ==
  /\ pc = "descent"
  /\ DescentEnds
  /\ best' = current
  /\ pc' = "loop"
  /\ UNCHANGED <<current, k, stag, kicks, over, sol, idle>>

GoesOn == ~over /\ stag < MaxStagnation

Enter ==
  /\ pc = "loop"
  /\ GoesOn
  /\ kicks' = 0
  /\ pc' = "kick"
  /\ UNCHANGED <<current, best, k, stag, over, sol, idle>>

\* vns_kick: k is cut down to the number of nodes, and less than 2 is no kick.
KOpt == IF k > NumNodes THEN NumNodes ELSE k

Kicked(c) ==
  IF KOpt < 2 THEN {c}
  ELSE {[tour |-> NOptMove(c.tour, e), cost |-> c.cost + NOptDelta(c.tour, e)] : e \in Cuts(KOpt)}

Kick ==
  /\ pc = "kick"
  /\ current' \in Kicked(current)
  /\ kicks' = kicks + 1
  /\ pc' = IF kicks' < KickRepetition THEN "kick" ELSE "search"
  /\ UNCHANGED <<best, k, stag, over, sol, idle>>

\* The comparison after the descent: a better tour becomes the best one and the
\* neighbourhood is reset; otherwise the best one is restored and k moves on.
Accept ==
  /\ pc = "search"
  /\ DescentEnds
  /\ current.cost < best.cost - Eps
  /\ best' = current
  /\ k' = MinK
  /\ stag' = 0
  /\ idle' = 0
  /\ pc' = "loop"
  /\ UNCHANGED <<current, kicks, over, sol>>

\* Wrong: the sweep ends before the largest k was tried.
RejectTooEarly ==
  /\ pc = "search"
  /\ DescentEnds
  /\ ~(current.cost < best.cost - Eps)
  /\ current' = best
  /\ k' = IF k + 1 >= MaxK THEN MinK ELSE k + 1
  /\ stag' = IF k + 1 >= MaxK THEN stag + 1 ELSE stag
  /\ idle' = idle + 1
  /\ pc' = "loop"
  /\ UNCHANGED <<best, kicks, over, sol>>

Reject ==
  /\ pc = "search"
  /\ DescentEnds
  /\ ~(current.cost < best.cost - Eps)
  /\ current' = best
  /\ k' = IF k + 1 > MaxK THEN MinK ELSE k + 1
  /\ stag' = IF k + 1 > MaxK THEN stag + 1 ELSE stag
  /\ idle' = idle + 1
  /\ pc' = "loop"
  /\ UNCHANGED <<best, kicks, over, sol>>

\* tsp_solution_update_if_better with the best tour and cost.
Submit ==
  /\ pc = "loop"
  /\ ~GoesOn
  /\ sol' = IF best.cost < sol.cost - Eps THEN best ELSE sol
  /\ pc' = "done"
  /\ UNCHANGED <<current, best, k, stag, kicks, over, idle>>

Expire ==
  /\ TimeLimited
  /\ pc # "done"
  /\ ~over
  /\ over' = TRUE
  /\ UNCHANGED <<pc, current, best, k, stag, kicks, sol, idle>>

Stop == pc = "done" /\ UNCHANGED vars

Run == Improve \/ StartSearch \/ Enter \/ Kick \/ Accept \/ Reject \/ Submit

Next == Run \/ Expire \/ Stop

\* The worker's thread is scheduled; nothing is assumed of the clock.
Spec == Init /\ [][Next]_vars /\ WF_vars(Run)
-----------------------------------------------------------------------------
\* No move computes the cost of a tour: it adds the delta of a kick, of a 2-opt
\* step, or restores a saved pair.  After any sequence of them the cost is
\* still the cost of the tour.
CostTracksTour ==
  \A c \in {current, best, sol} : c.cost = TourCost(c.tour)

\* Unless the time is over, what a descent hands to the search, the first best
\* tour and each tour compared with it, is a local optimum: no reversal of a
\* segment makes it shorter by more than Eps, the one two_opt leaves out and
\* the ones the earlier passes of its scan looked at included.
ComparesLocalOptima ==
  pc \in {"descent", "search"} /\ ~over /\ DescentEnds =>
    \A i, j \in 1 .. NumNodes - 1 : i < j =>
      TourCost(Reversed(current.tour, i, j)) >= TourCost(current.tour) - Eps

\* Stagnation counts whole sweeps of k from MinK to MaxK without a better tour:
\* the search never gives up before it has tried every k MaxStagnation times.
StagnationCountsSweeps == idle = stag * (MaxK - MinK + 1) + (k - MinK)

\* The run ends even with no time limit: accepted tours are finitely many.
Terminates == <>(pc = "done")
=============================================================================
