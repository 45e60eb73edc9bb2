------------------------------- MODULE Exact -------------------------------
(***************************************************************************)
(* The algorithms that hand the problem to CPLEX: benders_loop.c,          *)
(* branch_and_cut.c, local_branching.c and hard_fixing.c, over the wrapper *)
(* in exact/.  Each runs alone on its TspSolution (none can be cloned), so *)
(* an operation of that object is one step here.                           *)
(*                                                                         *)
(* CPLEX is external: it comes up with cheaper and cheaper feasible        *)
(* points, hands each to the callback where one is installed, and stops    *)
(* when nothing is more than Gap cheaper, when there is no point at all,   *)
(* at a limit, or with an error.                                           *)
(* The clock may strike wherever the code looks at it.  A solution that    *)
(* CPXgetstat reports is taken to be one CPXgetx can fetch.                *)
(***************************************************************************)
EXTENDS EdgeModel

CONSTANTS
  K,               \* cfg->k of local branching; validation refuses 0 only
  MaxIterations,   \* cfg->max_iterations of the Benders loop
  Gap,             \* the tolerance within which CPLEX calls a point optimal
  WarmStarts,      \* the tours the heuristic of a warm start may leave
  Horizon,         \* bound: CPLEX finds points no longer than this
  MinFixed         \* bound: hard fixing fixes at least so many edges

ASSUME ExactAssumption ==
  /\ K \in Int
  /\ MaxIterations \in Nat \ {0}
  /\ Gap \in Nat /\ Horizon \in Nat /\ MinFixed \in Nat
  /\ WarmStarts # {}
  /\ WarmStarts \subseteq {t \in ToursFromZero : TourCost(t) <= Horizon}

\* The solution a point stands for: its tour, and the objective value.
Extracted(p) == [tour |-> Reconstruct(p.edges), cost |-> p.cost]

VARIABLES
  algo, pc,
  sol,          \* the TspSolution
  current,      \* current_tour and current_cost, or tour and its cost
  lp,           \* the problem: subtour cuts, fixed edges, local branching edges
  incumbent,    \* CPLEX's best point in the current optimisation, or None
  result,       \* what CPXmipopt returned and CPXgetstat says
  xStar,            \* x_star
  it,
  optimalFound,
  interrupted   \* history: a limit or an error cut the algorithm short

vars == <<algo, pc, sol, current, lp, incumbent, result, xStar, it, optimalFound, interrupted>>

WithCost(t) == [tour |-> t, cost |-> TourCost(t)]

\* What grasp_nearest_neighbor_tour may return from node 0.
GreedyTours == {WithCost(t) : t \in ToursFromZero}

\* What CPLEX can come up with: the edges that are 1, and the objective value.
Point(y) == [edges |-> y, cost |-> Length(y)]
Points == {Point(y) : y \in {y \in TwoFactors : Length(y) <= Horizon}}
None == [edges |-> {}, cost |-> 0]

\* The tours among the two-factors.
Tours == {Point(y) : y \in {y \in TwoFactors : IsConnected(y)}}

\* Wrong: one edge of the tour more has to stay.
NearTooTight(y, edges) == edges = {} \/ Cardinality(y \cap edges) > NumNodes - K

\* cplex_solver_add_local_branching_constraint
Near(y, edges) == edges = {} \/ Cardinality(y \cap edges) >= NumNodes - K

Satisfies(y, problem) ==
  /\ problem.fixed \subseteq y
  /\ Near(y, problem.near)
  /\ \A S \in problem.cuts : Sec(S, y)

Feasible(y) == Satisfies(y, lp)

Matheuristic == algo \in {"lb", "hf"}
HasCallback == algo # "benders"
HasSolution == result.status # "none"

Init ==
  /\ algo \in {"benders", "bc", "lb", "hf"}
  /\ pc = "start"
  /\ sol = WithCost([p \in Positions |-> p % NumNodes])
  /\ current = sol
  /\ lp = [cuts |-> {}, fixed |-> {}, near |-> {}]
  /\ incumbent = None
  /\ result = [rc |-> 0, status |-> "none"]
  /\ xStar = {}
  /\ it = 0
  /\ optimalFound = FALSE
  /\ interrupted = FALSE

Submit(c) == sol' = IF c.cost < sol.cost - Eps THEN c ELSE sol

-----------------------------------------------------------------------------
\* matheuristic_run_warm_start, then the tour and its cost are read back.
WarmStart ==
  /\ pc = "start"
  /\ Matheuristic
  /\ \E t \in WarmStarts : sol' = WithCost(t)
  /\ current' = sol'
  /\ pc' = "build"
  /\ UNCHANGED <<algo, lp, incumbent, result, xStar, it, optimalFound, interrupted>>

ColdStart ==
  /\ pc = "start"
  /\ ~Matheuristic
  /\ pc' = "build"
  /\ UNCHANGED <<algo, sol, current, lp, incumbent, result, xStar, it, optimalFound, interrupted>>

\* Wrong: the second end of the edge is taken one position too far.
FixableTooFar(t) == {{t[i], t[(i + 2) % NumNodes]} : i \in Nodes}

\* The edges hard fixing draws from: the consecutive nodes of the tour array.
Fixable(t) == EdgesOf(t)

\* A new context: the base model, what the algorithm adds to it, and the
\* current tour as a MIP start.  CPLEX may decline it, and does where it is no
\* point of the problem (fewer than three nodes, or a negative K).
Build ==
  /\ pc = "build"
  /\ LET tourEdges == EdgesOf(current.tour)
     IN  /\ \E f \in SUBSET Fixable(current.tour) :
              /\ IF algo = "hf" THEN Cardinality(f) >= MinFixed ELSE f = {}
              /\ lp' = [cuts |-> {}, fixed |-> f, near |-> IF algo = "lb" THEN tourEdges ELSE {}]
         /\ incumbent' \in {None} \cup
              {Point(y) : y \in {y \in {tourEdges} \cap TwoFactors : HasCallback /\ Satisfies(y, lp')}}
  /\ result' = [rc |-> 0, status |-> "none"]
  /\ xStar' = {}
  /\ pc' = IF algo = "benders" THEN "loop" ELSE "search"
  /\ UNCHANGED <<algo, sol, current, it, optimalFound, interrupted>>

\* The time is over before an optimisation, or no context can be created.
GiveUp ==
  /\ pc = "build"
  /\ pc' = "done"
  /\ interrupted' = TRUE
  /\ UNCHANGED <<algo, sol, current, lp, incumbent, result, xStar, it, optimalFound>>

-----------------------------------------------------------------------------

\* CPLEX has a new point; lazy_sec_callback rejects it with a cut for each of
\* its components if it is not connected.
Offer ==
  /\ pc = "search"
  /\ \E p \in Points :
       /\ incumbent # None => p.cost < incumbent.cost
       /\ Feasible(p.edges)
       /\ IF HasCallback /\ ~IsConnected(p.edges)
          THEN lp' = [lp EXCEPT !.cuts = @ \cup Components(p.edges)] /\ UNCHANGED incumbent
          ELSE incumbent' = p /\ UNCHANGED lp
  /\ UNCHANGED <<algo, pc, sol, current, result, xStar, it, optimalFound, interrupted>>

\* CPXMIP_OPTIMAL, CPXMIP_OPTIMAL_TOL; or CPXMIP_INFEASIBLE where the problem
\* has no point at all.  CPXmipopt returns 0 for both.
Solve ==
  /\ pc = "search"
  /\ IF incumbent = None
     THEN \A y \in TwoFactors : ~Feasible(y)
     ELSE \A p \in Points : p.cost < incumbent.cost - Gap => ~Feasible(p.edges)
  /\ result' = [rc |-> 0, status |-> IF incumbent = None THEN "none" ELSE "optimal"]
  /\ pc' = "inspect"
  /\ UNCHANGED <<algo, sol, current, lp, incumbent, xStar, it, optimalFound, interrupted>>

\* CPXMIP_TIME_LIM_FEAS, CPXMIP_MEM_LIM_FEAS and their INFEAS counterparts, for
\* which CPXmipopt returns 0 (rc = 0); or it fails (rc = 1) and CPXgetstat may
\* or may not report the point it had.
Stop ==
  /\ pc = "search"
  /\ \E rc \in {0, 1} :
       \/ incumbent # None /\ result' = [rc |-> rc, status |-> "feasible"]
       \/ (incumbent = None \/ rc = 1) /\ result' = [rc |-> rc, status |-> "none"]
  /\ pc' = "inspect"
  /\ interrupted' = TRUE
  /\ UNCHANGED <<algo, sol, current, lp, incumbent, xStar, it, optimalFound>>

-----------------------------------------------------------------------------
BendersIterates ==
  /\ pc = "loop"
  /\ it < MaxIterations
  /\ incumbent' = None
  /\ pc' = "search"
  /\ UNCHANGED <<algo, sol, current, lp, result, xStar, it, optimalFound, interrupted>>

\* Out of time, or of iterations.
BendersLeaves ==
  /\ pc = "loop"
  /\ pc' = "fallback"
  /\ interrupted' = TRUE
  /\ UNCHANGED <<algo, sol, current, lp, incumbent, result, xStar, it, optimalFound>>

\* The point CPLEX stopped with is extracted.  A connected one is submitted and
\* ends the loop; any other is cut off, which may cost CPLEX its solution.
BendersInspects ==
  /\ pc = "inspect"
  /\ algo = "benders"
  /\ result.rc = 0 /\ HasSolution
  /\ xStar' = incumbent.edges
  /\ IF IsConnected(xStar')
     THEN /\ Submit(Extracted(incumbent))
          /\ optimalFound' = TRUE
          /\ pc' = "done"
          /\ UNCHANGED <<lp, result, it>>
     ELSE /\ lp' = [lp EXCEPT !.cuts = @ \cup Components(xStar')]
          /\ result' \in {result, [rc |-> 0, status |-> "none"]}
          /\ it' = it + 1
          /\ pc' = "loop"
          /\ UNCHANGED <<sol, optimalFound>>
  /\ UNCHANGED <<algo, current, incumbent, interrupted>>

BendersBreaks ==
  /\ pc = "inspect"
  /\ algo = "benders"
  /\ ~(result.rc = 0 /\ HasSolution)
  /\ pc' = "fallback"
  /\ UNCHANGED <<algo, sol, current, lp, incumbent, result, xStar, it, optimalFound, interrupted>>

\* The last integer point is patched into a tour, if CPLEX still has one.
Patch ==
  /\ pc = "fallback"
  /\ IF HasSolution
     THEN current' = WithCost(Reconstruct(xStar)) /\ pc' = "refine"
     ELSE pc' = "done" /\ UNCHANGED current
  /\ UNCHANGED <<algo, sol, lp, incumbent, result, xStar, it, optimalFound, interrupted>>

-----------------------------------------------------------------------------
CutInspects ==
  /\ pc = "inspect"
  /\ algo = "bc"
  /\ HasSolution
  /\ xStar' = incumbent.edges
  /\ Submit(Extracted(incumbent))
  /\ pc' = "done"
  /\ UNCHANGED <<algo, current, lp, incumbent, result, it, optimalFound, interrupted>>

\* No solution: after an error a greedy randomised tour takes its place.  x_star
\* is still all zeros, so the costs it is built with are not biased.
CutFallsBack ==
  /\ pc = "inspect"
  /\ algo = "bc"
  /\ ~HasSolution
  /\ IF result.rc # 0
     THEN current' \in GreedyTours /\ pc' = "refine"
     ELSE pc' = "done" /\ UNCHANGED current
  /\ UNCHANGED <<algo, sol, lp, incumbent, result, xStar, it, optimalFound, interrupted>>

\* A step of two_opt on the fallback tour.
Refine ==
  /\ pc = "refine"
  /\ Improving(current.tour) # {}
  /\ current' = Descend(current)
  /\ UNCHANGED <<algo, pc, sol, lp, incumbent, result, xStar, it, optimalFound, interrupted>>

\* A local optimum, or the clock struck.
SubmitRefined ==
  /\ pc = "refine"
  /\ Submit(current)
  /\ pc' = "done"
  /\ UNCHANGED <<algo, current, lp, incumbent, result, xStar, it, optimalFound, interrupted>>

-----------------------------------------------------------------------------
Improved ==
  /\ result.rc = 0
  /\ HasSolution
  /\ incumbent.cost < current.cost - Eps

\* The neighbourhood is centred on the better tour and searched again.
MatheuristicImproves ==
  /\ pc = "inspect"
  /\ Matheuristic
  /\ Improved
  /\ xStar' = incumbent.edges
  /\ current' = Extracted(incumbent)
  /\ Submit(current')
  /\ pc' = "build"
  /\ UNCHANGED <<algo, lp, incumbent, result, it, optimalFound, interrupted>>

\* Local branching ends; hard fixing fixes other edges.
MatheuristicFails ==
  /\ pc = "inspect"
  /\ Matheuristic
  /\ ~Improved
  /\ pc' = IF algo = "lb" THEN "done" ELSE "build"
  /\ UNCHANGED <<algo, sol, current, lp, incumbent, result, xStar, it, optimalFound, interrupted>>

Done ==
  /\ pc = "done"
  /\ UNCHANGED vars

Next ==
  \/ WarmStart \/ ColdStart \/ Build \/ GiveUp
  \/ Offer \/ Solve \/ Stop
  \/ BendersIterates \/ BendersLeaves \/ BendersInspects \/ BendersBreaks \/ Patch
  \/ CutInspects \/ CutFallsBack \/ Refine \/ SubmitRefined
  \/ MatheuristicImproves \/ MatheuristicFails
  \/ Done

Spec == Init /\ [][Next]_vars
-----------------------------------------------------------------------------
\* The objective value CPLEX reports is submitted as the cost of the tour the
\* code reconstructs from the same point: the solution, and the tour the next
\* neighbourhood is centred on, are tours with their own cost.
CostMatchesTour ==
  \A c \in {sol, current} : IsTour(c.tour) /\ c.cost = TourCost(c.tour)

\* A subtour cut never removes a tour, whatever the earlier cuts were
\* (cplex_solver_add_sec, lazy_sec_callback).
ToursAreNeverCut ==
  \A S \in lp.cuts : \A p \in Tours : Sec(S, p.edges)

\* Whatever is fixed, cut or required, the current tour stays a feasible point
\* of a matheuristic's problem, from three nodes on.  The one exception is a
\* negative K, which asks for more edges of the tour than there are: the problem
\* then has no point at all (cplex_solver_add_local_branching_constraint).
CurrentStaysFeasible ==
  Matheuristic /\ pc = "search" =>
    IF NumNodes >= 3 /\ (algo = "lb" => K >= 0)
    THEN EdgesOf(current.tour) \in TwoFactors /\ Feasible(EdgesOf(current.tour))
    ELSE \A y \in TwoFactors : ~Feasible(y)

\* An algorithm nothing interrupted ends optimal, up to the tolerances: Benders
\* and branch and cut over all tours, local branching over the tours that
\* differ from its own in at most K edges (none, where K is negative).
UninterruptedIsOptimal ==
  pc = "done" /\ ~interrupted =>
    \A p \in Tours :
      (algo = "lb" => Cardinality(EdgesOf(sol.tour) \ p.edges) <= K)
        => sol.cost <= p.cost + Gap + Eps

\* What the Benders loop logs as "optimal solution found" is optimal, up to the
\* tolerances (benders_loop.c:68).
ConnectedIsOptimal ==
  optimalFound => \A p \in Tours : sol.cost <= p.cost + Gap + Eps
=============================================================================
