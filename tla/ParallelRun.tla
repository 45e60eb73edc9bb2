----------------------------- MODULE ParallelRun -----------------------------
(***************************************************************************)
(* One run of execute_and_report (tsp_solver/src/algorithm_runner.c): the  *)
(* main thread creates the workers, joins them in order, records and       *)
(* reports the incumbent and frees it; each worker runs one of the         *)
(* algorithms that can be cloned and shares nothing but the TspSolution.   *)
(*                                                                         *)
(* A call of the TspSolution is one step here: TspSolution.tla shows that  *)
(* the mutex makes it so.  What a worker does between two calls is local   *)
(* and is one step too, with the tours it can come up with given by Yield. *)
(***************************************************************************)
EXTENDS Integers

CONSTANTS
  NumThreads,     \* options->num_threads, after validation
  Tours,          \* the closed permutations of the nodes
  Identity,       \* the tour tsp_solution_create starts from
  TrueCost,       \* the cost of a tour
  Eps,            \* EPSILON
  NumNodes,       \* GRASP's bound on its iterations
  MaxStagnation,  \* GRASP's max_stagnation
  Yield,          \* the tours worker w can produce in iteration i, given its seed
  None

Workers == 0 .. NumThreads - 1
Readers == {"vns", "tabu"}                 \* start from the shared incumbent
Builders == {"grasp", "em", "genetic"}     \* construct tours of their own

ASSUME RunAssumption ==
  /\ NumThreads \in Nat \ {0}
  /\ Identity \in Tours
  /\ TrueCost \in [Tours -> Nat]
  /\ Eps \in Nat
  /\ NumNodes \in Nat \ {0}
  /\ MaxStagnation \in Nat \ {0}
  /\ Yield \in [Workers \X (0 .. NumNodes) -> SUBSET Tours]
  /\ None \notin Tours \cup Int

VARIABLES
  algo,      \* which algorithm runs
  sol,       \* the shared TspSolution: its tour and its cost
  freed,     \* tsp_solution_destroy was called
  mainPc,    \* the main thread
  next,      \* its loop variable i
  recorded,  \* what execute_and_report adds to the recorder
  report,    \* the tour it plots and the cost it prints
  pc,        \* each worker
  base,      \* the tour a worker read and searches from
  cur,       \* current_tour, current_cost (best_tour, best_cost at the end)
  iter,      \* GRASP's iter
  stag,      \* GRASP's stagnation_counter
  over       \* time_limiter_is_over

mainVars == <<algo, freed, mainPc, next, recorded, report>>
workVars == <<pc, base, cur, iter, stag, over>>
vars == <<sol, mainVars, workVars>>

Init ==
  /\ algo \in Readers \cup Builders
  /\ sol = [tour |-> Identity, cost |-> TrueCost[Identity]]
  /\ freed = FALSE
  /\ mainPc = "create"
  /\ next = 0
  /\ recorded = None
  /\ report = [tour |-> None, cost |-> None]
  /\ pc = [w \in Workers |-> "absent"]
  /\ base = [w \in Workers |-> None]
  /\ cur = [w \in Workers |-> [tour |-> None, cost |-> None]]
  /\ iter = [w \in Workers |-> 0]
  /\ stag = [w \in Workers |-> 0]
  /\ over = [w \in Workers |-> FALSE]

-----------------------------------------------------------------------------
\* The main thread.  All five algorithms have a clone_config, so they run in
\* threads of their own exactly when there is more than one; otherwise worker 0
\* is the main thread itself inside tsp_algorithm_run.
Parallel == NumThreads > 1

Advance(from, to) ==
  IF next + 1 < NumThreads
  THEN /\ next' = next + 1
       /\ mainPc' = from
  ELSE /\ next' = 0
       /\ mainPc' = to

\* pthread_create: a failure is printed and the loop goes on.
Create ==
  /\ mainPc = "create"
  /\ \/ pc' = [pc EXCEPT ![next] = "start"]
     \/ Parallel /\ UNCHANGED pc
  /\ Advance("create", "join")
  /\ UNCHANGED <<algo, sol, freed, recorded, report, base, cur, iter, stag, over>>

\* Wrong: waits for the first thread only.
JoinFirstOnly ==
  /\ mainPc = "join"
  /\ \/ /\ next > 0 \/ pc[next] \in {"exit", "absent"}
        /\ Advance("join", IF Parallel THEN "record" ELSE "report_tour")
     \/ /\ pc[next] = "absent"
        /\ mainPc' = "undefined"
        /\ UNCHANGED next
  /\ UNCHANGED <<algo, sol, freed, recorded, report, workVars>>

\* pthread_join, on every handle.  The handle of a thread that was not created
\* was never written: joining it returns an error, or crashes or hangs.
Join ==
  /\ mainPc = "join"
  /\ \/ /\ pc[next] \in {"exit", "absent"}
        /\ Advance("join", IF Parallel THEN "record" ELSE "report_tour")
     \/ /\ pc[next] = "absent"
        /\ mainPc' = "undefined"
        /\ UNCHANGED next
  /\ UNCHANGED <<algo, sol, freed, recorded, report, workVars>>

Record ==
  /\ mainPc = "record"
  /\ recorded' = sol.cost
  /\ mainPc' = "report_tour"
  /\ UNCHANGED <<algo, sol, freed, next, report, workVars>>

ReportTour ==
  /\ mainPc = "report_tour"
  /\ report' = [report EXCEPT !.tour = sol.tour]
  /\ mainPc' = "report_cost"
  /\ UNCHANGED <<algo, sol, freed, next, recorded, workVars>>

ReportCost ==
  /\ mainPc = "report_cost"
  /\ report' = [report EXCEPT !.cost = sol.cost]
  /\ mainPc' = "destroy"
  /\ UNCHANGED <<algo, sol, freed, next, recorded, workVars>>

Destroy ==
  /\ mainPc = "destroy"
  /\ freed' = TRUE
  /\ mainPc' = "done"
  /\ UNCHANGED <<algo, sol, next, recorded, report, workVars>>

-----------------------------------------------------------------------------
\* The workers.
Goto(w, label) == pc' = [pc EXCEPT ![w] = label]

\* VNS and Tabu take their starting tour from the incumbent ...
ReadTour(w) ==
  /\ pc[w] = "start"
  /\ algo \in Readers
  /\ base' = [base EXCEPT ![w] = sol.tour]
  /\ Goto(w, "read_cost")
  /\ UNCHANGED <<sol, mainVars, cur, iter, stag, over>>

\* ... and its cost, with a second call.
ReadCost(w) ==
  /\ pc[w] = "read_cost"
  /\ cur' = [cur EXCEPT ![w] = [tour |-> base[w], cost |-> sol.cost]]
  /\ Goto(w, "search")
  /\ UNCHANGED <<sol, mainVars, base, iter, stag, over>>

\* Wrong: of a descent of several steps only one step's worth of gain is kept.
SearchLastStepOnly(w) ==
  /\ pc[w] = "search"
  /\ \E t \in Yield[<<w, 0>>] \cup {base[w]} :
       /\ t = base[w] \/ TrueCost[t] < TrueCost[base[w]] - Eps
       /\ cur' = [cur EXCEPT ![w] = [tour |-> t, cost |-> @.cost - IF t = base[w] THEN 0 ELSE Eps + 1]]
  /\ Goto(w, "submit")
  /\ UNCHANGED <<sol, mainVars, base, iter, stag, over>>

\* Every accepted move of the descent and of the search adds its delta to the
\* cost; the best tour is the starting one or cheaper by more than Eps.
Search(w) ==
  /\ pc[w] = "search"
  /\ \E t \in Yield[<<w, 0>>] \cup {base[w]} :
       /\ t = base[w] \/ TrueCost[t] < TrueCost[base[w]] - Eps
       /\ cur' = [cur EXCEPT ![w] = [tour |-> t, cost |-> @.cost + (TrueCost[t] - TrueCost[base[w]])]]
  /\ Goto(w, "submit")
  /\ UNCHANGED <<sol, mainVars, base, iter, stag, over>>

\* GRASP and Genetic loop; Extra Mileage builds once.
Begin(w) ==
  /\ pc[w] = "start"
  /\ algo \in Builders
  /\ Goto(w, "loop")
  /\ UNCHANGED <<sol, mainVars, base, cur, iter, stag, over>>

GoesOn(w) ==
  CASE algo = "grasp"   -> ~over[w] /\ iter[w] < NumNodes /\ stag[w] < MaxStagnation
    [] algo = "genetic" -> ~over[w]
    [] algo = "em"      -> TRUE

\* A construction followed by two_opt; a generation and its individual 0.
Build(w) ==
  /\ pc[w] = "loop"
  /\ GoesOn(w)
  /\ \E t \in Yield[<<w, iter[w]>>] : cur' = [cur EXCEPT ![w] = [tour |-> t, cost |-> TrueCost[t]]]
  /\ Goto(w, "submit")
  /\ UNCHANGED <<sol, mainVars, base, iter, stag, over>>

LeaveLoop(w) ==
  /\ pc[w] = "loop"
  /\ ~GoesOn(w)
  /\ Goto(w, "exit")
  /\ UNCHANGED <<sol, mainVars, base, cur, iter, stag, over>>

\* tsp_solution_update_if_better with the worker's tour and cost.
Improves(w) == cur[w].cost < sol.cost - Eps

\* Wrong: the new cost is stored without the new tour.
SubmitCostOnly(w) ==
  /\ pc[w] = "submit"
  /\ sol' = IF Improves(w) THEN [sol EXCEPT !.cost = cur[w].cost] ELSE sol
  /\ IF algo = "grasp"
     THEN /\ iter' = [iter EXCEPT ![w] = @ + 1]
          /\ stag' = [stag EXCEPT ![w] = IF Improves(w) THEN 0 ELSE @ + 1]
     ELSE UNCHANGED <<iter, stag>>
  /\ Goto(w, IF algo \in {"grasp", "genetic"} THEN "loop" ELSE "exit")
  /\ UNCHANGED <<mainVars, base, cur, over>>

\* Wrong: neither the iterations nor the stagnation are counted.
SubmitUncounted(w) ==
  /\ pc[w] = "submit"
  /\ sol' = IF Improves(w) THEN cur[w] ELSE sol
  /\ Goto(w, IF algo \in {"grasp", "genetic"} THEN "loop" ELSE "exit")
  /\ UNCHANGED <<mainVars, base, cur, iter, stag, over>>

Submit(w) ==
  /\ pc[w] = "submit"
  /\ sol' = IF Improves(w) THEN cur[w] ELSE sol
  /\ IF algo = "grasp"
     THEN /\ iter' = [iter EXCEPT ![w] = @ + 1]
          /\ stag' = [stag EXCEPT ![w] = IF Improves(w) THEN 0 ELSE @ + 1]
     ELSE UNCHANGED <<iter, stag>>
  /\ Goto(w, IF algo \in {"grasp", "genetic"} THEN "loop" ELSE "exit")
  /\ UNCHANGED <<mainVars, base, cur, over>>

\* The worker's clock passes its time limit.
Expire(w) ==
  /\ pc[w] \notin {"absent", "exit"}
  /\ ~over[w]
  /\ over' = [over EXCEPT ![w] = TRUE]
  /\ UNCHANGED <<sol, mainVars, pc, base, cur, iter, stag>>

-----------------------------------------------------------------------------
Main == Create \/ Join \/ Record \/ ReportTour \/ ReportCost \/ Destroy

Worker(w) ==
  \/ ReadTour(w) \/ ReadCost(w) \/ Search(w)
  \/ Begin(w) \/ Build(w) \/ LeaveLoop(w) \/ Submit(w)

\* The program ends here: with the report, or in undefined behaviour.
Finished == mainPc \in {"done", "undefined"}
Stop == Finished /\ UNCHANGED vars

Next == Main \/ (\E w \in Workers : Worker(w) \/ Expire(w)) \/ Stop

\* The scheduler runs every thread, and Genetic's clock does not stand still.
\* The other algorithms have to end without it.
Fairness ==
  /\ WF_vars(Main)
  /\ \A w \in Workers : WF_vars(Worker(w)) /\ WF_vars(algo = "genetic" /\ Expire(w))

Spec == Init /\ [][Next]_vars /\ Fairness

-----------------------------------------------------------------------------
Pair(C) == [tour : Tours \cup {None}, cost : C]

TypeOK ==
  /\ algo \in Readers \cup Builders
  /\ sol \in [tour : Tours, cost : Int]
  /\ freed \in BOOLEAN
  /\ mainPc \in {"create", "join", "record", "report_tour", "report_cost", "destroy",
                 "done", "undefined"}
  /\ next \in Workers
  /\ recorded \in Int \cup {None}
  /\ report \in Pair(Int \cup {None})
  /\ pc \in [Workers -> {"absent", "start", "read_cost", "search", "loop", "submit", "exit"}]
  /\ base \in [Workers -> Tours \cup {None}]
  /\ cur \in [Workers -> Pair(Int \cup {None})]
  /\ iter \in [Workers -> 0 .. NumNodes]
  /\ stag \in [Workers -> 0 .. NumNodes]
  /\ over \in [Workers -> BOOLEAN]

Running(w) == pc[w] \notin {"absent", "exit"}

\* The solution is destroyed only when nobody can call it any more, whichever
\* thread creations failed and however late the joined workers ended.
NoUseAfterFree == freed => \A w \in Workers : ~Running(w)

\* What is recorded and reported is the incumbent all workers have finished
\* with: two separate reads, but nothing moves between them or after them.
ReportIsFinal ==
  mainPc = "done" =>
    /\ report = sol
    /\ Parallel => recorded = sol.cost
    /\ \A w \in Workers : pc[w] = "exit" /\ cur[w].cost # None => report.cost <= cur[w].cost + Eps

\* The reported cost is never above the cost of the reported tour, not even
\* when a worker pairs the tour it read with the cost of a later incumbent.
NeverOverReported == sol.cost <= TrueCost[sol.tour]

\* tsp_solution_check_feasibility would not answer NON_MATCHING_COST.
CostIsTourCost == sol.cost - TrueCost[sol.tour] \in -Eps .. Eps

\* It is, within one run, when no worker's two reads can straddle somebody
\* else's update: the algorithm does not start from the incumbent, or one
\* worker has it for itself.
Undisturbed == algo \in Builders \/ NumThreads = 1
UndisturbedCostIsExact == Undisturbed => CostIsTourCost

\* The run ends whichever threads could be created: GRASP although its workers
\* reset their stagnation counters on an incumbent they share, Genetic because
\* of the clock.
Terminates == <>Finished
=============================================================================
