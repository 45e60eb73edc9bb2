-------------------------------- MODULE Tabu --------------------------------
(***************************************************************************)
(* tsp_algo_lib/src/algorithm/tabu_search.c: one worker's run_tabu, from   *)
(* its snapshot of the incumbent to the tour it submits.                   *)
(***************************************************************************)
EXTENDS TspTour

CONSTANTS
  MinTenure, MaxTenure,  \* cfg->min_tenure, cfg->max_tenure
  MaxStagnation,         \* cfg->max_stagnation
  TimeLimited            \* can the time limit strike during the run?

ASSUME TabuAssumption ==
  /\ MinTenure \in Nat \ {0} /\ MaxTenure \in Nat \ {0}
  /\ MaxStagnation \in Nat \ {0}
  /\ TimeLimited \in BOOLEAN

VARIABLES
  pc,
  current,    \* current_tour, current_cost
  best,       \* best_tour, best_cost
  tabu,       \* tabu_matrix
  iteration,
  noImprov,   \* no_improv
  over,       \* the timer has passed the limit
  sol,        \* the TspSolution
  entered,    \* history: the iteration in which an edge last joined the tour
  previous    \* history: the tour before the last move

history == <<entered, previous>>
vars == <<pc, current, best, tabu, iteration, noImprov, over, sol, history>>

NodePairs == {e \in SUBSET Nodes : \E a, b \in e : a # b /\ e = {a, b}}

Init ==
  /\ \E t \in ToursFromZero : sol = [tour |-> t, cost |-> TourCost(t)]
  /\ pc = "descent"
  /\ current = sol
  /\ best = sol
  /\ tabu = [ab \in Nodes \X Nodes |-> 0]
  /\ iteration = 0
  /\ noImprov = 0
  /\ over = FALSE
  /\ entered = [e \in NodePairs |-> -MinTenure]
  /\ previous = sol

\* two_opt on the starting tour.
Improve ==
  /\ pc = "descent"
  /\ ~over
  /\ Improving(current.tour) # {}
  /\ current' = Descend(current)
  /\ UNCHANGED <<pc, best, tabu, iteration, noImprov, over, sol, history>>

StartSearch ==
  /\ pc = "descent"
  /\ Improving(current.tour) = {} \/ over
  /\ best' = current
  /\ previous' = current
  /\ pc' = "loop"
  /\ UNCHANGED <<current, tabu, iteration, noImprov, over, sol, entered>>

GoesOn == ~over /\ noImprov < MaxStagnation

\* Wrong: the smallest tenure is not added to what was drawn.
TenuresFromZero == 0 .. (MaxTenure - MinTenure)

\* get_random_tenure
Tenures == IF MinTenure >= MaxTenure THEN {MinTenure} ELSE MinTenure .. MaxTenure

\* Wrong: the second edge is not looked up.
IsTabuFirstOnly(t, p, it) == tabu[<<t[p[1] - 1], t[p[2]]>>] > it

\* A move is tabu in iteration it when an edge it would create is frozen.
IsTabu(t, p, it) ==
  \/ tabu[<<t[p[1] - 1], t[p[2]]>>] > it
  \/ tabu[<<t[p[1]], t[p[2] + 1]>>] > it

Aspires(p) == current.cost + TwoOptDelta(current.tour, p[1], p[2]) < best.cost - Eps

\* The scan of the whole neighbourhood: the cheapest move that is not tabu or
\* that gives a new best tour; among equals, the one scanned first.
Allowed(it) == {p \in Pairs : ~IsTabu(current.tour, p, it) \/ Aspires(p)}

BestMove(t, allowed) ==
  CHOOSE p \in allowed : \A q \in allowed \ {p} :
    LET dp == TwoOptDelta(t, p[1], p[2])
        dq == TwoOptDelta(t, q[1], q[2])
    IN  dp < dq \/ (dp = dq /\ Before(p, q))

\* Both edges the move created are frozen, in both directions.
Freeze(t, p, until) ==
  LET a == t[p[1] - 1]
      c == t[p[1]]
      b == t[p[2]]
      d == t[(p[2] + 1) % NumNodes]
  IN  [tabu EXCEPT ![<<a, c>>] = until, ![<<c, a>>] = until, ![<<b, d>>] = until, ![<<d, b>>] = until]

Stamped(edges, it) == [e \in NodePairs |-> IF e \in edges THEN it ELSE entered[e]]

\* Wrong: better than the tour before, not than the best one.
BetterThanLast(c) == c.cost < current.cost - Eps

Better(c) == c.cost < best.cost - Eps

\* One iteration of the loop that finds a move.
Move ==
  /\ pc = "loop"
  /\ GoesOn
  /\ iteration' = iteration + 1
  /\ Allowed(iteration + 1) # {}
  /\ \E p \in {BestMove(current.tour, Allowed(iteration + 1))} :
       /\ current' = [tour |-> NOptMove(current.tour, <<p[1] - 1, p[2]>>),
                      cost |-> current.cost + TwoOptDelta(current.tour, p[1], p[2])]
       /\ \E tenure \in Tenures : tabu' = Freeze(current'.tour, p, iteration' + tenure)
  /\ entered' = Stamped(EdgesOf(current'.tour) \ EdgesOf(current.tour), iteration')
  /\ previous' = current
  /\ IF Better(current')
     THEN best' = current' /\ noImprov' = 0
     ELSE noImprov' = noImprov + 1 /\ UNCHANGED best
  /\ UNCHANGED <<pc, over, sol>>

\* tsp_solution_update_if_better, after the loop or after the break for want of
\* a move.
Submit ==
  /\ pc = "loop"
  /\ GoesOn => Allowed(iteration + 1) = {}
  /\ iteration' = IF GoesOn THEN iteration + 1 ELSE iteration
  /\ sol' = IF best.cost < sol.cost - Eps THEN best ELSE sol
  /\ pc' = "done"
  /\ UNCHANGED <<current, best, tabu, noImprov, over, history>>

Expire ==
  /\ TimeLimited
  /\ pc # "done"
  /\ ~over
  /\ over' = TRUE
  /\ UNCHANGED <<pc, current, best, tabu, iteration, noImprov, sol, history>>

Stop == pc = "done" /\ UNCHANGED vars

Run == Improve \/ StartSearch \/ Move \/ Submit

Next == Run \/ Expire \/ Stop

\* The worker's thread is scheduled; nothing is assumed of the clock.
Spec == Init /\ [][Next]_vars /\ WF_vars(Run)
-----------------------------------------------------------------------------
\* Scan and move go by different routines, the delta of one pays for the other:
\* the cost stays the cost of the tour over any sequence of moves.
CostTracksTour == \A c \in {current, best, sol} : c.cost = TourCost(c.tour)

\* Moves that make the tour worse are accepted, and still the best tour seen is
\* not lost: it is within Eps of every tour the search stands on, and only gets
\* better.
BestIsKept ==
  [][pc = "loop" => best'.cost <= best.cost /\ best'.cost <= current'.cost + Eps]_vars

\* An edge that joined the tour may leave it, but it is not put back while its
\* tenure lasts, unless that gives a new best tour.
FrozenEdgesStayOut ==
  [][\A e \in EdgesOf(current'.tour) \ EdgesOf(current.tour) :
       pc = "loop" => iteration' >= entered[e] + MinTenure \/ best' # best]_vars

\* The scan has a move that only turns the tour round, free at any local optimum. It is not
\* made twice in a row: it freezes the very edges it creates, when they stay frozen for more
\* than the iteration that froze them.
NeverIdlesTwice ==
  [][pc = "loop" /\ MinTenure >= 2 /\ current'.tour # current.tour
       /\ previous.tour # current.tour /\ EdgesOf(previous.tour) = EdgesOf(current.tour)
       => EdgesOf(current'.tour) # EdgesOf(current.tour)]_vars
=============================================================================
