------------------------------ MODULE Genetic ------------------------------
(***************************************************************************)
(* tsp_algo_lib/src/algorithm/genetic.c: one worker's run_genetic, with    *)
(* the two populations it swaps.  Tours are opaque here; how a child is    *)
(* repaired into a tour is the subject of Construction.tla.  Genes and     *)
(* costs are two arrays, as in the code.                                   *)
(***************************************************************************)
EXTENDS Integers, FiniteSets

CONSTANTS
  Tours, TrueCost, Epsilon,
  Optima,          \* the tours two_opt leaves when it is not cut short
  Mutants,         \* the tours an exchange of two cities makes of each tour
  PopulationSize,  \* cfg->population_size
  EliteCount,      \* cfg->elite_count
  Initial,         \* the tour in the TspSolution before the run
  NoTour           \* what population_alloc leaves: zeros

Individuals == 0 .. PopulationSize - 1

\* What validate_options lets through: no elite at all is one of the cases.
ASSUME GeneticAssumption ==
  /\ TrueCost \in [Tours -> Nat]
  /\ Epsilon \in Nat
  /\ Optima \subseteq Tours /\ Optima # {}
  /\ Mutants \in [Tours -> SUBSET Tours]
  /\ Initial \in Tours
  /\ PopulationSize \in Nat \ {0, 1}
  /\ EliteCount \in 0 .. PopulationSize - 1
  /\ NoTour \notin Tours

VARIABLES
  pc,
  genes, costs,          \* current_pop
  nextGenes, nextCosts,  \* next_pop
  i,                     \* the loops' individual
  over,                  \* the timer has passed the limit
  sol                    \* the TspSolution

pop == <<genes, costs>>
nextPop == <<nextGenes, nextCosts>>
vars == <<pc, pop, nextPop, i, over, sol>>

Init ==
  /\ pc = "init"
  /\ genes = [x \in Individuals |-> NoTour]
  /\ costs = [x \in Individuals |-> 0]
  /\ nextGenes = genes
  /\ nextCosts = costs
  /\ i = 0
  /\ over = FALSE
  /\ sol = [tour |-> Initial, cost |-> TrueCost[Initial]]

\* Where two_opt may end: in a local optimum, or anywhere once the time is over.
Descended == IF over THEN Tours ELSE Optima

\* One individual of the first population, constructed or random, then two_opt
\* and its cost.
Initialise ==
  /\ pc = "init"
  /\ \E t \in Descended :
       /\ genes' = [genes EXCEPT ![i] = t]
       /\ costs' = [costs EXCEPT ![i] = TrueCost[t]]
  /\ i' = IF i + 1 < PopulationSize THEN i + 1 ELSE 0
  /\ pc' = IF i + 1 < PopulationSize THEN "init" ELSE "loop"
  /\ UNCHANGED <<nextPop, over, sol>>

\* population_swap
Swapped(f, x, y) == [f EXCEPT ![x] = f[y], ![y] = f[x]]

\* Wrong: the dearest one.
Dearest(c, x) ==
  CHOOSE b \in x .. PopulationSize - 1 :
    \A y \in x .. PopulationSize - 1 : c[b] > c[y] \/ (c[b] = c[y] /\ b <= y)

\* The first of the cheapest individuals from x on.
Cheapest(c, x) ==
  CHOOSE b \in x .. PopulationSize - 1 :
    \A y \in x .. PopulationSize - 1 : c[b] < c[y] \/ (c[b] = c[y] /\ b <= y)

\* Wrong: the costs are moved and the genes are not.
BestFirstCostsOnly(k) ==
  LET sorted[x \in 0 .. k] ==
        IF x = 0 THEN costs
        ELSE Swapped(sorted[x - 1], x - 1, Cheapest(sorted[x - 1], x - 1))
  IN  [genes |-> genes, costs |-> sorted[k]]

\* The arrays after the k best individuals were moved to the front one by one.
BestFirst(k) ==
  LET sorted[x \in 0 .. k] ==
        IF x = 0 THEN [genes |-> genes, costs |-> costs]
        ELSE LET p == sorted[x - 1]
                 b == Cheapest(p.costs, x - 1)
             IN  [genes |-> Swapped(p.genes, x - 1, b), costs |-> Swapped(p.costs, x - 1, b)]
  IN  sorted[k]

\* Wrong: the last of the elite is not copied.
EliteButOne == 0 .. EliteCount - 2

Elite == 0 .. EliteCount - 1

\* Elitism: the best individuals come first, and are copied to the next population.
Elitism ==
  /\ pc = "loop"
  /\ ~over
  /\ LET p == BestFirst(EliteCount)
     IN  /\ genes' = p.genes
         /\ costs' = p.costs
         /\ nextGenes' = [x \in Individuals |-> IF x \in Elite THEN p.genes[x] ELSE nextGenes[x]]
         /\ nextCosts' = [x \in Individuals |-> IF x \in Elite THEN p.costs[x] ELSE nextCosts[x]]
  /\ pc' = "submit"
  /\ UNCHANGED <<i, over, sol>>

\* tsp_solution_update_if_better with individual 0.
Submit ==
  /\ pc = "submit"
  /\ sol' = IF costs[0] < sol.cost - Epsilon THEN [tour |-> genes[0], cost |-> costs[0]] ELSE sol
  /\ i' = EliteCount
  /\ pc' = "offspring"
  /\ UNCHANGED <<pop, nextPop, over>>

\* Tournaments, crossover_operator with its repair and two_opt, then perhaps
\* mutate, and the cost.
Breed ==
  /\ pc = "offspring"
  /\ i < PopulationSize
  /\ \E child \in Descended \cup UNION {Mutants[t] : t \in Descended} :
       /\ nextGenes' = [nextGenes EXCEPT ![i] = child]
       /\ nextCosts' = [nextCosts EXCEPT ![i] = TrueCost[child]]
  /\ i' = i + 1
  /\ UNCHANGED <<pc, pop, over, sol>>

NextGeneration ==
  /\ pc = "offspring"
  /\ i = PopulationSize
  /\ genes' = nextGenes /\ costs' = nextCosts
  /\ nextGenes' = genes /\ nextCosts' = costs
  /\ i' = 0
  /\ pc' = "loop"
  /\ UNCHANGED <<over, sol>>

\* The time is over: the populations are freed and run_genetic returns.
Leave ==
  /\ pc = "loop"
  /\ over
  /\ pc' = "done"
  /\ UNCHANGED <<pop, nextPop, i, over, sol>>

Expire ==
  /\ pc # "done"
  /\ ~over
  /\ over' = TRUE
  /\ UNCHANGED <<pc, pop, nextPop, i, sol>>

Stop == pc = "done" /\ UNCHANGED vars

Run == Initialise \/ Elitism \/ Submit \/ Breed \/ NextGeneration \/ Leave

Next == Run \/ Expire \/ Stop

\* The loop has no other end than the time limit: the clock goes on.
Spec == Init /\ [][Next]_vars /\ WF_vars(Run) /\ WF_vars(Expire)
-----------------------------------------------------------------------------
\* Genes and costs are swapped, copied and overwritten separately, and the two
\* populations change places: an individual never has another one's cost.
CostsMatchGenes ==
  /\ pc # "init" => \A x \in Individuals : costs[x] = TrueCost[genes[x]]
  /\ sol.cost = TrueCost[sol.tour]

\* The EliteCount cheapest individuals are in the next generation as well.
AtMost(f, c) == Cardinality({x \in Individuals : f[x] <= c})
ElitesSurvive ==
  [][pc = "offspring" /\ pc' = "loop" =>
       \A x \in Individuals :
         LET before == AtMost(costs, costs[x])
         IN  AtMost(costs', costs[x]) >= IF before < EliteCount THEN before ELSE EliteCount]_vars

\* genetic.c: "Update solution (index 0 is the best after elitism swap)": once a
\* generation has been submitted, none of it is better than the incumbent.
BestIsSubmitted ==
  pc = "offspring" => \A x \in Individuals : sol.cost <= costs[x] + Epsilon
=============================================================================
