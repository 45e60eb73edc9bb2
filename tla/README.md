# Verification of the TSP solver

TLA+ models of the solver in `src/` (a C program that runs heuristic, metaheuristic and exact algorithms for the
travelling salesman problem, with worker threads that share one incumbent solution), the TLC runs that check them on
small instances, and proofs of what they check, for every number of threads, every instance and every input: the
shared incumbent and the parallel run over it, the nearest-neighbour pool, the local searches with the arithmetic of
their moves, the constructions, the genetic algorithm, the exact algorithms and matheuristics around CPLEX, the
allocation tracker, and the program's command line, ini file, options and instance. Every safety property of the runs
that pass is also a theorem; liveness is checked by TLC alone.

Contents: [inventory](#inventory) · [plan](#plan) · [modules and code](#modules-and-code) ·
[runs](#runs) · [fairness](#fairness) · [proofs](#proofs) · [findings and observations](#findings-and-observations) ·
[what is only model-checked](#what-is-only-model-checked) · [what is not modelled](#what-is-not-modelled) ·
[how to run](#how-to-run)

## Inventory

`tsp_algo_lib/`, `tsp_solver/`, `cflaglib/` and `common/` are the program. Below, `A/` stands for
`tsp_algo_lib/src/algorithm/`.

| Component | State | Operations | Interacts with | Hard because | Correct when |
|---|---|---|---|---|---|
| **TspSolution** (`tsp_algo_lib/src/api/tsp_solution.c`) | tour, cost, mutex | create, update_if_better, get_cost, get_tour, check_feasibility, save, load, destroy | every algorithm thread | two fields under one lock, reads by separate calls, a loader that writes in place | snapshots are whole, no better solution is lost, the cost is the tour's |
| **Algorithm runner** (`tsp_solver/src/algorithm_runner.c`) | thread handles, clones of the configuration | create, join, record, report, destroy | TspSolution, the algorithms | threads that are not created, order of joins, free | what is reported is final and true, nothing is used after it is freed, the run ends |
| **Nearest-neighbour pool** (`A/nearest_neighbor.c`) | chunks, one recorder per thread | nn_worker, run_nn | TspSolution, CostRecorder | uneven chunks, failing creation, merging in order | every start tried once, costs recorded in order of the starts |
| **CostRecorder**, **TimeLimiter** (`utility/`) | list of costs; start time and limit | add, merge, destroy; is_over | all algorithms | ownership at the join; time strikes between any two checks | no use after free, order kept |
| **VNS** (`A/variable_neighborhood_search.c`) | current tour and cost, k, stagnation | descent, kick, accept, restore | TspSolution | costs are only ever updated by deltas | cost stays the tour's, local optima are compared, counters agree, it ends |
| **Tabu** (`A/tabu_search.c`) | current, best, tabu matrix, iteration | scan, move, freeze | TspSolution | moves that get worse, tenures by iteration number | best not lost, frozen edges stay out |
| **Genetic** (`A/genetic.c`) | two populations of genes and costs | construct, elitism, crossover, repair, mutate, swap | TspSolution, constructive | arrays swapped and overwritten separately | costs belong to genes, elite survives, the best is submitted |
| **GRASP**, **Extra mileage** (`A/grasp.c`, `A/extra_mileage.c`) | iteration and stagnation counters | construct, descend, submit | TspSolution | stagnation is reset by a shared incumbent | it ends |
| **Constructive heuristics** (`A/heuristic/constructive.c`) | partial tour | nearest neighbour, its randomised form, extra mileage | the algorithms | bounded candidate list, insertion places | a tour, its cost, the cheapest choices |
| **Local search, tours** (`A/heuristic/local_search.c`, `utility/tsp_tour.c`, `utility/tsp_math.c`) | – | two_opt, n-opt delta and move | VNS, Tabu, Genetic, … | delta and move are written separately | delta is what the move changes |
| **Exact solvers** (`A/benders_loop.c`, `A/branch_and_cut.c`) | CPLEX problem, x_star | loop, cuts, fallback | CPLEX, TspSolution | CPLEX stops for many reasons | tours are never cut, an uninterrupted run is optimal |
| **Matheuristics** (`A/local_branching.c`, `A/hard_fixing.c`, `A/exact/matheuristic_utils.c`) | current tour and cost | warm start, neighbourhood, improve | CPLEX, TspSolution, the heuristics | a new problem around each better tour | the current tour stays feasible, cost stays the tour's |
| **CPLEX wrapper, separator** (`A/exact/cplex_solver_wrapper.c`, `subtour_separator.c`) | columns, rows, callback data | model, cuts, callback, components, reconstruct | exact solvers | disconnected points, candidates in any order | components and cuts are right, a tour comes out of any point |
| **Allocation tracker** (`common/src/c_util.c`, debug build) | list of records, total | malloc, calloc, realloc, free, leak report | all code, all threads | allocator and list are updated apart | records are of live blocks, the report is exact |
| **Solution file** (`parser/solution/tsp_parser_sol_v1.c`) | – | validate, parse, save | TspSolution | fails half way | nothing of a failed load is kept |
| **Flag parser** (`cflaglib/`) | definitions, visited marks | add, parse, free | options | values with dashes, repeated and missing ones, strings freed before they are copied | accepts exactly the well-formed command lines |
| **Options, ini reader** (`tsp_solver/src/cmd_option/`, `common/src/ini.c`, vendored) | two option structures and the strings they own; section and previous name | defaults, parse, handle, merge, validate, destroy | flag parser, main, runner | precedence of sources, continued lines, ownership, values stored before they are refused | command line over ini over defaults, one owner per string, valid configurations only |
| **TSPLIB parser, instance** (`parser/instance/tsp_parser_tsplib.c`, `api/tsp_instance.c`) | dimension, nodes | load, draw | main | files that end early, repeat or omit nodes | the instance is what the file lists |
| **Main** (`tsp_solver/src/main.c`) | options, instance | load, create, run, clean up | all of the above | early exits | everything is released once |
| Random, logger, clock, errors, plotting, profiler scripts | | | | | |

How they interact: `main` loads the options (flag parser, then ini reader, merge, validation), reads or draws the
instance and has the runner run each enabled algorithm. The runner creates one
`TspSolution`; if the algorithm's configuration can be cloned (VNS, Tabu, Genetic, GRASP, extra mileage) it starts one
thread per clone, otherwise it runs the algorithm in the main thread. Nearest neighbour makes its own threads; Benders,
branch and cut, local branching and hard fixing are sequential and call CPLEX, the last two after a warm start with one
of the heuristics. Threads share the `TspSolution` and, in debug builds, the allocation tracker, and nothing else.

The hazards, each at its line with the properties that cover it, are the `hazards` of `PROJECT.json`.

## Plan

The order puts what threads share first, then what each algorithm does by itself, then what surrounds them.

1. `Incumbent` (abstract) and `TspSolution` with refinement and proofs — done.
2. `ParallelRun`: the runner with its workers over an atomic `TspSolution`, with proofs — done.
3. `NnPool` and its proofs (chunks cover the starts, nothing is used after free) — done.
4. `TspTour`, `Vns`, `Tabu`, and proofs: the delta formulas are exact, the moves give tours, and the invariants of both
   searches — done.
5. `Genetic`, `Construction`, `MemTracker` and their proofs — done.
6. `EdgeModel`, `Exact`, with the theorems about cuts, components and reconstruction and the inductive invariant that
   carries them over to the algorithms — done.
7. `OptionRegistry`, `FlagParser`, `CmdOptions`, `InstanceFile`, `Solver`: the program around the algorithms, with
   proofs — done.
8. `SolutionFile`: save and load as a round trip — left out, since the program itself never calls them.

Compositions: `TspSolution` implements `Incumbent`; `ParallelRun`, `NnPool` and all others use the incumbent as one
atomic object, which is what that refinement justifies. `Vns`, `Tabu`, `Construction` and `EdgeModel` extend `TspTour`,
`Exact` extends `EdgeModel`. `CmdOptions` extends `FlagParser`, which extends `OptionRegistry`, and `Solver` composes
it with `InstanceFile`. `ParallelRun` abstracts what a worker does between two calls to "any of the tours it can
come up with" (`Yield`); `Vns`, `Tabu`, `Genetic` and `Construction` are those parts in detail.

## Modules and code

`PROJECT.json`'s `map` gives the lines of every definition. Operators whose comment starts with "Wrong:" are
plausible slips of the definition below them; the runs must notice them.

**Incumbent** — what a `TspSolution` promises: `best`, the caller's outstanding request (`asked`) and what it was handed
back (`seen`). A request (`Ask`) takes effect exactly once, in one step: `Offer` replaces `best` when the candidate is
cheaper by more than `EPSILON`, `Observe` reads it, `Reload` replaces it from a file. It is the statement that the
object is linearizable.

**TspSolution** — the fields `cost`, `tour`, `mutex`, and per thread the program counter within an operation. An
operation is `Call`, `Lock`, then a step per access: `Compare` writes the cost and `SetTour` the tour; `CopyTour` and
`ReadCost` for the readers (check_feasibility is both, under one lock); `Parse` and `Recompute` for load, where `Parse`
may stop after overwriting part of the array (`Garbled`); `Unlock`. save reads what check_feasibility reads, under the
same lock, and is not a separate operation. Costs may be off by `Eps`: the algorithms add up deltas in floating point.

**ParallelRun** — `execute_and_report` and `execute_parallel`: `Create` (may fail per thread), `Join`, `Record`,
`ReportTour`, `ReportCost`, `Destroy`; workers of VNS or Tabu (`ReadTour`, `ReadCost`, `Search`, `Submit`) or of
GRASP, extra mileage and genetic (`Begin`, `Build`, `Submit`, `LeaveLoop`). Joining a thread that was never created is
undefined behaviour in C: the join returns at once or the program is in `"undefined"`, from which nothing is claimed.
A worker's random seed is its index, so `Yield` depends on the worker and the iteration.

**NnPool** — `run_nn`: chunks by `StartNode`/`EndNode`, the last thread takes the rest; recorders are merged into the
main one at the join, or destroyed where the thread could not be created.

**TspTour** — tours as the C arrays with the closing entry, the 2-opt scan and step, the n-opt delta and move. `Total`
is a loop that adds up; `TourCost` is `Total` over the `Legs` of the array, in the order of `calculate_tour_cost`.
**Vns**, **Tabu** — the two searches on real tours; history variables in Tabu only record when an edge joined the tour
(`entered`, long ago for the edges no move has made) and the tour before the last move.
**Genetic** — the two populations over opaque tours; a descent ends in a local optimum or, when time is over,
anywhere. **Construction** — the greedy, the extra-mileage and the repair constructions node by node.

**EdgeModel**, **Exact** — points of CPLEX's problem are sets of edges with two at every node. `Build` is the context
with its constraints and, where it is feasible, the warm start as CPLEX's first point; `Offer` is CPLEX coming up with a cheaper feasible point, which the callback may reject with a cut
per component; `Solve` (optimal, or infeasible) and `Stop` (a limit or an error) are the ways CPLEX ends; the `Benders…`, `Cut…` and `Matheuristic…` actions are the
code after it. CPLEX is external: its points come in any order, it is right when it says "optimal" up to a gap, and
may end at a limit or with an error at any time, with or without a point to show. `K` is any integer, since the options
let any but 0 through: a large one bounds nothing, a negative one makes the row of local branching unsatisfiable.

**OptionRegistry** — the options as pairs of a section and a member, with their types and defaults. Decimals are counted
in hundredths; the command-line and ini spellings of an option are other names of the same pair.

**FlagParser** — `flag_parser_parse`, one flag and its value at a step (`Switch`, `TakeNumber`, `TakeString`), and its ways
to end (`ArgsEnd`, `Terminator`, `Unknown`, `Repeated`, `ValueMissing`). `argv` is chosen while it is read. Strings are
blocks of `heap`; a field holds a block, and a copy may fail, which leaves the field of the flag parser on a block
that is gone, as in `flag_parser.c:327-330`. Definitions that cannot be allocated are left out, as there.

**CmdOptions** — `cmd_options_load`: the ini file is read line by line into a second structure (`ReadLine` with
`SectionLine`, `PairLine`, `Continuation`, `Comment`, `Malformed`; a file that cannot be opened is one without lines),
`MergeIni` copies what the command line did not visit and destroys that structure, and `Verdict` is
`validate_options`.

**InstanceFile** — `parse_instance_tsplib` as a recursive function over the words of a file. A coordinate keeps its
word, or is `Unset` when it is never written; `Says` states what a file lists without reading it word by word.

**Solver** — `main` and `run_selected_algorithms`: load, create the instance, `Launch` the enabled algorithms in order
with their parameters (unsigned values cast to int by `AsInt`) and those of a warm start, release everything and
exit. What a launched algorithm does is the subject of `ParallelRun`, `NnPool` and `Exact`. Its `stage` says where main
is; the specification is `ProgramSpec` (likewise `BuildSpec` in `Construction` and `TrackerSpec` in `MemTracker`).

**MemTracker** — the debug wrappers: the allocator's step and the tracker's step of a call are separate, and other
threads run between them. An address is reused as soon as it is free.

## Runs

Times are for two workers. All are exhaustive over the stated instance.

| Run | Instance and bounds | Shows |
|---|---|---|
| `solution` | 2 threads, 3 tours (two equally cheap), 1 garbled array, 5 candidates | `NoTornSnapshot`, `NoLostUpdate`, `OnlyAFailedLoadMismatches`, refinement of `Incumbent` |
| `parallel_run` | 2 workers, all five algorithms, 4 tours, 3 nodes, stagnation 2 | `NoUseAfterFree`, `ReportIsFinal`, `NeverOverReported`, `UndisturbedCostIsExact`, `Terminates` |
| `race_vns` (violated) | the same | an old tour is paired with a new cost |
| `nn_pool` | 3 threads, 5 starting nodes | order, completeness and lifetime of the records, `Terminates` |
| `mem_tracker` | 2 threads, 3 addresses, 2 sizes, 3 calls each | `RecordsAreLive`, `LeakReportExact` |
| `vns` | every starting tour of 5 nodes, kicks of 2–6 cuts | `CostTracksTour`, `ComparesLocalOptima`, `StagnationCountsSweeps`, `Terminates` |
| `tabu` | every starting tour of 5 nodes, tenures 3–5, stagnation 6 | `CostTracksTour`, `BestIsKept`, `FrozenEdgesStayOut`, `NeverIdlesTwice` |
| `genetic` | population 3, elite 2, 4 tours | `CostsMatchGenes`, `BestIsSubmitted`, `ElitesSurvive` |
| `construction` | 5 nodes, RCL 3, every start; 24 × 120 parents, every cut | `YieldsATour`, `GreedyCostIsTourCost`, `RclHoldsTheCheapest`, `InsertionIsCheapest` |
| `exact` | 6 nodes, 70 two-factors of which 39 short enough, 2 warm starts | `CostMatchesTour`, `ToursAreNeverCut`, `CurrentStaysFeasible`, `UninterruptedIsOptimal` |
| `benders_optimal` (violated) | the same | "optimal solution found" for a tour that is not |
| `solver` | 4 words of 15, 5 lines and words together of 14 kinds of line, 1 failing allocation, 105 instance files | `AcceptedIffWellFormed`, `SourcesInOrder`, `OneOwnerPerString`, `OnlyCheckedConfigurationsRun`, `InstanceIsTheFile` |

`NeverIdlesTwice` is about the pair (1, n-1) of the tabu scan, whose move changes no cost and no edge: its edges are
frozen like any others, so it cannot be made twice running; a tenure of 0 would repeat it until the search gives up.
`OneOwnerPerString` names the exception the code has (see the observations) and says that there is no other.
`OnlyCheckedConfigurationsRun` compares every launched parameter with the range it is meant to have: the one the messages
of `validate_options` give, or, for parameters it does not look at, the one the code that uses them needs (an RCL of
zero is refused in `constructive.c:87`). It is not true of everything that is launched, and `Unseen` lists what it does
not ask for: five parameters in no check, a negative `k`, a NaN, an unsigned value beyond int, and a warm start by an
algorithm that is not enabled. What the property does ask for goes through two parsers, a merge and a cast: whatever its source, no other value gets past
validation, and none is changed behind it.

Why the bounds are enough to meet the interesting cases:

- Two threads are enough for every race over one lock and two fields; the theorems lift the result to any number. The
  candidates include one whose cost is off by `Eps` and one that improves by no more than `Eps` and must be refused.
- Five nodes are the fewest for which a kick of three cuts differs from a 2-opt move and for which this cost matrix has
  three different local optima, two of them within `Eps` of each other. `MaxK = 6` exceeds what five nodes allow, so
  the kick's own cap is exercised.
- Three threads over five starts give chunks of one, one and three nodes.
- Six nodes are the fewest with subtours (two triangles); one pair is shorter than the best tour, so the first answer
  of an uncut model is always disconnected. A warm start is a 2-opt local optimum that needs an exchange of three
  edges, so `K = 3` matters; a negative `K` is left to the theorems. `Horizon` bounds the length of the points CPLEX finds, which keeps five of the ten pairs of
  triangles; `MinFixed` bounds how few edges hard fixing fixes. Three Benders iterations are fewer than the pairs, so the
  limit on iterations is met.
- In `solver`, four words (`MaxArgs`) are two flags with values, a flag under both its names, a `--` as a value or a
  value that is missing before another flag. There is a flag of every type (switch, int, unsigned, decimal, string), and
  values that are negative, a path, the name of a heuristic, or too large for an int (only in the ini file; `IntMax` is
  32767, so that such a number stays small). Local branching and the genetic algorithm are enabled by flags or lines:
  `--lb --ga --lb-heuristic ga` is a warm start by an enabled algorithm, `--lb -c file` with two lines sets `k` to 0 or -1.
  A NaN, and a flag with a value against a line of the ini file for the same option, which needs six words and lines,
  are left to the theorems. Five words and lines (`MaxInput`) leave three lines beside `-c file`, enough for a
  section, a name and a line that continues it. One allocation fails (`MaxFailures`), of one option (`Fallible`): its
  default, definition, command-line, ini or merged copy. Instance files have a header with two DIMENSIONs, with and
  without the colon apart, and every body of up to three words or of two whole lines.
- `MaxCalls` is the one bound of `MemTracker`; three calls per thread allow allocate, resize and free by both.

Deadlock is checked in every run but `mem_tracker`, where threads stop after their calls, and `solver`, where the
program exits; everywhere else a finished program is a stuttering step named `Stop` or `Done`.

## Fairness

- `ParallelRun`, `NnPool`: weak fairness of the main thread and of each worker, that is, the scheduler runs every
  thread that is not blocked. The mutex adds nothing: its critical sections are finite (in `TspSolution`) and an
  operation is one step. Only genetic loops until the time limit, so for it the clock (`Expire`) is assumed to strike at
  last; extra mileage makes one pass, and VNS, Tabu and GRASP end by their counters.
- `Vns`: weak fairness of the worker's steps only; the clock may never strike.
- Safety runs need no fairness.

## Proofs

`SharedObjects_proofs`, the incumbent (`TspSolution`) — for any number of threads, any tours and costs.

- `TypeCorrect`, `Exclusion`: inductive invariant `IInv`. Beside the types and `LockInv` (the mutex holds exactly the
  thread whose program counter is in a critical section) it needs `OpInv` (labels that belong to one operation),
  `CopyInv` (a copied tour is still the object's tour, because the copier holds the lock), `LoadInv` and `SeenInv`.
- `SnapshotsAreWhole`: under the assumption `HonestCallers` (a submitted cost is the tour's up to `Eps`), `PairInv` says
  that the abstract pair matches unless a load broke it; the step that hands out a snapshot reads both halves under
  one lock.
- `OnlyLoadsBreak`: the same assumption and a case for every step, `PairAfter`: it leaves the pair alone, leaves a good
  one, or is a parse that fails after it overwrote part of the tour.
- `UpdatesAreNotLost`: `OfferInv`, the incumbent is within `Eps` of each candidate whose call returned.
- `Implements`: the refinement. An update takes effect at `Compare` (the tour is still in the argument), a load when the
  parser is done (the cost is still to be computed), a read when it has all it came for; every other step stutters.
  `AbsAsked` turns the label into the outstanding request, and `AskedUnchanged` and `AskedAnswered` say how a step
  that only moves its own label changes it.

`Program_proofs`, the parallel run (`ParallelRun`) — for any number of workers, every algorithm that can be cloned, any
`Yield`.

- `TypeCorrect`, `FreedLast`: `HoldsInv` (what a worker holds at each label) and `PhaseInv` (workers not yet created are
  absent; those before the join index have ended; past the joins all have).
- `CostsAreNeverTooHigh`: `CostInv`. The race of two reads can make a cost too low, never too high: the incumbent only
  gets cheaper, so a cost read after a tour is at most the tour's, and deltas keep that.
- `ReportedCostIsTrue`: `ExactInv`. With one worker, or with workers that construct their own tours, no such race is
  possible and the cost is exact throughout.
- `ReportHasTheLastWord`: `FinalInv`. What main has copied so far equals the incumbent, which changes no more once the
  joins are over, and every worker past its last submission left an incumbent at least as good as its own tour.

`NnPool_proofs` — for any number of threads, nodes and costs.

- The arithmetic first: the chunks of `StartNode` and `EndNode` are consecutive, and with the rest in the last one they
  cover all starts.
- `Inductive`: `WorkersInv` relates each worker's position to its recorder (`RecordOf`: entry `i` is for the `i`-th node
  of its chunk, and no submitted one is cheaper than the incumbent), `PhaseInv` says whose recorder still exists,
  `MergedInv` that the merged record ascends and lies below the chunk that is joined next. That last bound is what
  makes a merge keep the order.
- `LocalsAreThere`, `MergedInOrder`, `EveryStartRecorded`, `NothingRecordedIsBetter` follow from it.

`TspTour_proofs` — for every number of nodes, every symmetric cost matrix, every tour.

- `TwoOptDeltaExact`, `NOptDeltaExact`: the delta the code computes from a few edges is the difference of two whole sums.
  `CostByParts` turns this into a check of single steps: guess the partial sums of the new tour (those of the old one,
  walked backwards inside a reversed segment, plus the edges paid for so far) and show that each grows by one leg.
- `NOptMoveIsTour`: the segments between the cuts are disjoint, and each is permuted within itself. `NOptDelta` and
  `NOptMove` are separate functions in the code, for any number of cuts.
- `LocalOptimum`: the one pair that the loops of `two_opt` leave out reverses all but one node and changes no edge.
- `OnlyTurn`, for tabu: the only reversal that leaves the edges as they were is the one of the pair (1, n-1).
- `ReconstructIsTour`, `ReconstructKeepsEdges`: `cplex_solver_reconstruct_tour` always gives a tour; from a connected
  point with two edges at every node it never has to jump, because a path whose end has no unvisited neighbour would
  be a component of its own, and its last edge closes the circle.
- `ComponentFacts`, `ComponentsFacts`, `TourSatisfiesSec`, `CutsSpareTours`: `Component` has all that can be reached after
  `NumNodes` rounds and nothing else, a component of an unconnected point is a proper part, and a tour leaves
  every proper part, so the cuts of one point spare all tours.
- `LengthIsTourCost`, `ExtractedCost`, `TourIsPoint`: the objective is the tour's cost, although one sum runs over a set of
  edges and the other over an array; and every tour of three or more nodes is a connected point.

`Vns_proofs`, `Tabu_proofs` — for every instance and every parameter the validation admits.

- `PricedInv` (current, best and incumbent are tours with their own cost) is inductive by the delta theorems, and gives
  `CostIsTourCost` in both. `SweepsAreWhole` says that `stag` and `k` count the kicks, `ComparesOptima` is
  `LocalOptimum` at the comparison.
- Tabu: `BestInv`; `FrozenInv` (an edge's entry in the matrix, in both directions, exceeds the iteration in which it
  joined by the smallest tenure), from which `FrozenStayOut`; `TurnInv` (after a move that only turned the tour round,
  the edges at position 0 are frozen), from which `IdlesOnlyOnce`.

`Genetic_proofs` — for any population, elite and operators.

- `MadeInv` (which individuals of both populations are tours with their own costs at each label), `EliteInv` (the elite
  stands in front of both, cheapest first, from the sort to the swap), `SolInv`. A round of the selection sort is a
  lemma; that all rounds sort the elite is an induction over rounds.
- `NothingBetterIsLost` assumes `EliteCount # 0`, without which the code does submit an arbitrary individual (see the
  observations). `EliteIsKept` counts: copying the elite in front keeps, for each elite cost, as many no dearer.

`Genetic_proofs`, the constructions (`Construction`) — for every number of nodes, every cost matrix, candidate lists of
any size, any two parents and any cut.

- `BuildInv` follows the three constructions: the greedy one permutes the whole array and its cost is that of the way so
  far (`GreedyInv`), the list of extra mileage grows without repetition (`MileageInv`), and in the repair every node is
  either in the child or still to be inserted (`RepairInv`). What a pass over a parent collects, and that an insertion
  adds exactly one node, are lemmas about sequences.
- `ConstructionYieldsATour` and `ConstructionCost` follow. `CandidatesAreCheapest` is an invariant of the loop that fills
  the candidate list: after the nodes looked at so far, the list is sorted and nothing left out is cheaper than its
  last entry. For `CheapestInsertion`, an insertion lengthens the closed list by exactly its detour (`CycleCostGrows`), so
  the least detour gives the shortest list.

`Exact_proofs` — for every number of nodes, every symmetric cost matrix, every configuration and any points CPLEX offers.

- `Inductive`: `PricedInv` (the incumbent and the current tour have their own cost, through `ExtractedCost`), `IncumbentInv`
  (what CPLEX holds is a point of the problem, and a tour where the callback filters), `CutsInv` (only proper subsets
  are cut), `ProblemInv` (a matheuristic's problem is centred on the current tour), `CentreInv` and `ResultInv` (an
  optimisation without a solution was cut short, or its problem has none; one not optimal was cut short).
- `CostIsTourCost` and `CutsAreValid` follow at once, the latter by `TourSatisfiesSec`. `CentreIsFeasible` shows that the
  current tour satisfies what was fixed, cut and bounded. It holds for every `K` and every number of nodes, because the
  property says what happens in the odd cases too: with a negative `K`, and with one or two nodes, which have no point
  with two edges at every node, no point is feasible (`NoPoint`).
  For the same reason CPLEX may answer that there is none: never to Benders or branch and cut, while there are tours
  (`InfeasibleHasNoTours`).
- `EndsOptimal` needs the comparison of two tolerances: CPLEX leaves nothing that is cheaper by more than `Gap`, and a tour
  that is not submitted is not cheaper by more than `Eps`.

`Program_proofs`, the program (`Solver` with `CmdOptions`, `FlagParser` and `InstanceFile`) — for any words, lines and
instance files of any length, any limits of integers and any allocations that fail.

- `ParserDecidesTheGrammar`: `LineInv` says that what was read so far is flags and their values and that the flags are the
  visited ones. The property compares the parser with all readings of the whole line, so the proof needs that there is
  only one (`OneReading`, by induction on the position of the words).
- `StringsHaveOneOwner`: `OptionsInv` gives every value the type of its option, and every string the name of the field it
  was made for and of who made it (command line, ini file, default, merge). Two structures that are live together
  have different makers, hence different strings. `OwnershipInv` adds `Blocks`: what is live is held and what is held is
  live, but for the one string whose copy failed on the command line.
- `ConfigurationsAreChecked`: `LaunchInv`; the options do not change after `validate_options` accepted them, so each
  launched configuration carries what was validated. `ParameterIs` says what a parameter that validation sees is
  (the option's value, uncast, a number), and one lemma per algorithm draws its ranges from the checks of
  `validate_options`.
- `InstanceIsFaithful`: the reader's state after any number of words is described in the terms of the property, the
  section that was found (`Section`) and the whole triples behind it (`InBody`), by induction over the words. At the end
  this description is `Says`.
- `OptionsFollowTheirSources`: `LinesInv` says that the section and the name in hand are those told from the lines so far and
  that the ini structure has of every option the value of its last convertible setting. `SettingsGrow` is the step:
  one more line adds at most one setting. `ArgsInv` says that the visited options are those given on the command line,
  each once, with the value said there, while all others have their defaults. A write changes one option only
  (`OthersStay`), because a string bears the name of its field: this is where `OptionsInv` is needed. `MergedTexts` then
  gives the command line over the ini file over the defaults, and `LoadEnds` what normalisation does to the number
  of threads.

`SharedObjects_proofs`, the tracker (`MemTracker`) — for any number of threads and any finite set of addresses.

- `TrackerInductive`: `OwnerInv`, every allocated block is held by exactly one thread; `RecordInv`, which blocks have a
  record at each stage of a call; `TotalInv`: the total is the sum over the recorded blocks. The order "record gone before the block is
  released or moved" is what makes `RecordInv` inductive. Sums over finite sets are lemmas of this module.
- `NoStaleRecord`, `ReportIsExact` follow from it.

The assumptions are the `ASSUME`s of the modules; TLC evaluates them in the runs. Sizes are positive, costs are naturals
and symmetric (distances are Euclidean in the code), special values are not tours, addresses are finitely many. Of
the program they say that words that name a flag are among those that start with a dash, that the conversions give
integers, that a NaN is told from the decimals 0 to 1 that validation bounds, that no number is a colon or the word
DIMENSION, and that finitely many options may lose an allocation. Of CPLEX, that some warm start exists and lies within
`Horizon`. Nothing is assumed of `K` but that it is an integer.

Three modules of theorems cover two components each: `SharedObjects_proofs` the two objects threads share,
`Program_proofs` the program and its parallel run, `Genetic_proofs` the genetic algorithm and the constructions. Each
theorem names the specification it is about (`Spec`, `TrackerSpec`, `ProgramSpec`, `BuildSpec`), and the components have no
variable in common.

Loops and folds are recursive functions. What they compute for every length is proved by induction from the
well-foundedness of the naturals (`Least`, `Induct`), with the predicate as a set: first that a function with the
recursion's equations exists, which makes the recursive definition one of them, then that any two agree.

## Findings and observations

Shown by runs that are expected to be violated:

- `race_vns`: VNS and Tabu read the starting tour and its cost with two calls (`variable_neighborhood_search.c:78-79`,
  `tabu_search.c:39-40`). The incumbent may change in between, and the search reports costs below the true ones.
- `benders_optimal`: a connected point is called optimal whatever made CPLEX stop (`benders_loop.c:62-69`).

Met while modelling, without a run:

- The result of a parallel GRASP with fixed seeds depends on the schedule: stagnation is counted against the shared
  incumbent (`grasp.c:64-69`), unlike `report/section/4-project-structure.tex:99`.
- `report/section/4-project-structure.tex:121` says that the comparison comes before the lock;
  `tsp_solution.c:156-157` locks first.
- With `elite_count` 0 the sort of the elite does nothing and individual 0, whichever it is, is submitted
  (`genetic.c:247-266`).
- Mutated children are not descended again (`genetic.c:285-287` against `6-metaheuristics.tex:176`).
- The last generation bred is freed unsubmitted when the limit strikes (`genetic.c:242-266` against
  `6-metaheuristics.tex:223`, "Return Best(Pop)").
- The tabu scan contains the pair (1, n-1), whose move reverses the whole tour: delta 0, no new edge, and at a strict
  local optimum the cheapest move (`tabu_search.c:62`; `local_search.c:24` leaves it out).
- `execute_parallel` joins handles of threads that were never created (`algorithm_runner.c:67-73`).
- `CPXmipopt` returns 0 when it stops at the time limit, so the fallback of branch and cut, described as "Time limit
  reached" (`branch_and_cut.c:60`), only runs after an error; its `x_star` is then all zeros and guides nothing.
- Branch and cut, local branching and hard fixing ignore the result of `cplex_solver_extract_solution`.
- What Tabu freezes are the edges a move created, so removing them again is never forbidden
  (`tabu_search.c:73-75, 106-110`) and the next move may return to the local optimum, which
  `6-metaheuristics.tex:123` says the list prevents.
- A string option whose copy fails on the command line keeps a pointer to what was freed (`flag_parser.c:327-330`), and
  cleaning up frees it again; the ini handler clears the field first (`cmd_option_ini.c:16-19`).
- The options of an algorithm that is not enabled are not validated, but a warm start uses them
  (`algorithm_runner.c:126-181`). Not validated at all are the time limit of VNS, the tournament size and the initial
  GRASP parameters of the genetic algorithm.
- `validate_options` refuses a `k` of 0 only, where its message says "k must be > 0" (`cmd_options.c:185-186`), and `k` is a
  signed int: `--lb --lb-k -1` is run. The row of `cplex_solver_wrapper.c:173` then asks for more than n edges of a tour
  of n; CPLEX finds the problem infeasible, and the algorithm ends with its warm start (the second half of
  `CurrentStaysFeasible`). `UninterruptedIsOptimal` says nothing in that case: no tour is within a negative distance.
- A NaN passes every check of `validate_options`; an unsigned above `INT_MAX` is validated as large and cast to a negative
  int. On the command line a negative decimal is refused, in an ini file it is stored first
  (`parsing_util.c:105-116`), so only validation stops it.
- A `--mode` other than 0 and 1 passes validation as "random" and then makes no instance: the program exits with 1 and
  no message (`main.c:24-47, 71-75`). An instance file of one node passes, though random mode asks for two.
- `config.ini:37-38` sets `min-k` and `max-k` of VNS, but the registry calls them `min_k` and `max_k`
  (`cmd_option_base.c:36-37`): unknown keys are ignored on purpose, so the two lines have no effect.
- `--sol-load-file` and `--sol-save-file` are parsed and never used.
- The TSPLIB reader looks at every word of the header: a COMMENT with the word DIMENSION or EOF in it stops or misleads it
  (`tsp_parser_tsplib.c:27-44`). A file that lists fewer nodes than its dimension is accepted, the others staying
  uninitialised (`tsp_parser_tsplib.c:66-77`).

## What is only model-checked

- Liveness: `Terminates` in `parallel_run`, `nn_pool` and `vns`, under the fairness above. The proof system has neither
  the fairness rules nor `ENABLED`.
- The invariants, action properties and the refinement of the passing runs are all proved. `BestIsSubmitted` is proved
  for `EliteCount # 0`, as said above.
- That the models can get anywhere: TLC fires every action in the runs, and the two violated runs give executions.

## What is not modelled

How words, lines and files are cut into characters; the help text, `print_configuration` and the names of output files;
functions of the flag parser that the program does not use; a definition that loses only a
name because the copy of that name fails (`flag_parser.c:139-141`; in the model a definition is there or it is not); the
rounding of decimals to `float` (`parsing_util.c:101`; decimals are hundredths, none of which it brings across a limit); the
spellings of a heuristic's name in other cases (one word stands for all); `n - k` leaving the range of int; the text of solution files and saving them; the buffer growth of the recorder; the
random generator (every choice is nondeterministic); floating point beyond a tolerance `Eps` (costs are integers in a small
unit); time in seconds (a limit may strike anywhere); the internals of CPLEX; `CPXgetx` failing after a reported
solution; plotting, logging and the profiler scripts.

## How to run

    tlc -workers 2 -config solution.cfg MCTspSolution.tla     # and so on, module and cfg as in PROJECT.json
    tlapm SharedObjects_proofs.tla                            # likewise Program, NnPool, TspTour, Vns, Tabu, Genetic
                                                              # and Exact _proofs
