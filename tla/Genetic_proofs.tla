-------------------------- MODULE Genetic_proofs --------------------------
(***************************************************************************)
(* Theorems about Genetic for every set of tours, every cost, every size   *)
(* of the population and of the elite, and any moment at which the time    *)
(* runs out; and, in the second half, about Construction, which builds its *)
(* tours and repairs its children: for every instance, every starting node *)
(* and every two parents.                                                  *)
(***************************************************************************)
EXTENDS Genetic, Construction, TspTour_proofs

Labels == {"init", "loop", "submit", "offspring", "done"}

TypeInv ==
  /\ pc \in Labels
  /\ genes \in [Individuals -> Tours \cup {NoTour}]
  /\ nextGenes \in [Individuals -> Tours \cup {NoTour}]
  /\ costs \in [Individuals -> Nat]
  /\ nextCosts \in [Individuals -> Nat]
  /\ i \in 0 .. PopulationSize
  /\ over \in BOOLEAN

\* The individual is a tour, with its own cost.
IsOne(g, c, x) == g[x] \in Tours /\ c[x] = TrueCost[g[x]]

\* Which individuals have been made: all those of the current population once it is
\* initialised, and of the next one the elite and what was bred up to i.
MadeInv ==
  /\ pc = "init" => i \in Individuals /\ \A x \in 0 .. i - 1 : IsOne(genes, costs, x)
  /\ pc # "init" => \A x \in Individuals : IsOne(genes, costs, x)
  /\ pc = "submit" => \A x \in Elite : IsOne(nextGenes, nextCosts, x)
  /\ pc = "offspring" => EliteCount <= i /\ \A x \in 0 .. i - 1 : IsOne(nextGenes, nextCosts, x)

\* Nobody from x on is cheaper than x.
First(c, x) == \A y \in x .. PopulationSize - 1 : c[x] <= c[y]

\* From elitism to the swap of the populations, the elite stands in front of both.
EliteInv ==
  pc \in {"submit", "offspring"} =>
    \A x \in Elite : First(costs, x) /\ nextCosts[x] = costs[x]

SolInv ==
  /\ sol.tour \in Tours /\ sol.cost = TrueCost[sol.tour]
  /\ pc = "offspring" => sol.cost <= costs[0] + Epsilon

IInv == TypeInv /\ MadeInv /\ EliteInv /\ SolInv

-----------------------------------------------------------------------------
\* The constants' types, for the arithmetic.
LEMMA Sizes ==
  /\ PopulationSize \in Nat /\ EliteCount \in Nat
  /\ 2 <= PopulationSize /\ EliteCount < PopulationSize
  /\ Epsilon \in Nat
BY GeneticAssumption

-----------------------------------------------------------------------------
\* The search for the cheapest individual from x on finds one.
LEMMA CheapestFacts ==
  ASSUME NEW c \in [Individuals -> Nat], NEW x \in Individuals
  PROVE  /\ Cheapest(c, x) \in x .. PopulationSize - 1
         /\ \A y \in x .. PopulationSize - 1 : c[Cheapest(c, x)] <= c[y]
<1> DEFINE R == x .. PopulationSize - 1
           Costs == {c[y] : y \in R}
<1>1. x \in Nat /\ PopulationSize \in Nat /\ x \in R /\ R \in SUBSET Individuals /\ R \in SUBSET Nat
  BY Sizes DEF Individuals
<1>2. PICK m \in Costs : \A n \in Costs : m <= n
  <2>1. Costs \in SUBSET Nat /\ Costs # {}
    BY <1>1
  <2> HIDE DEF Costs
  <2> QED
    BY <2>1, Least
<1> DEFINE Best == {y \in R : c[y] = m}
<1>3. PICK b \in Best : \A y \in Best : b <= y
  <2>1. Best \in SUBSET Nat /\ Best # {}
    BY <1>1, <1>2
  <2> HIDE DEF Best
  <2> QED
    BY <2>1, Least
<1>4. b \in R /\ c[b] = m
  BY <1>3
<1>5. ASSUME NEW y \in R
      PROVE  c[b] < c[y] \/ (c[b] = c[y] /\ b <= y)
  <2>1. c[b] \in Nat /\ c[y] \in Nat /\ c[b] <= c[y]
    BY <1>1, <1>2, <1>4
  <2>2. CASE c[y] = m
    BY <1>3, <1>4, <2>2
  <2>3. CASE c[y] # m
    BY <1>4, <2>1, <2>3
  <2> QED
    BY <2>2, <2>3
<1> DEFINE d == Cheapest(c, x)
<1>6. d \in R /\ \A y \in R : c[d] < c[y] \/ (c[d] = c[y] /\ d <= y)
  BY <1>4, <1>5 DEF Cheapest
<1> HIDE DEF d
<1>7. ASSUME NEW y \in R
      PROVE  c[d] <= c[y]
  <2>1. c[d] \in Nat /\ c[y] \in Nat
    BY <1>1, <1>6
  <2> QED
    BY <1>6, <2>1
<1> QED
  BY <1>6, <1>7 DEF d

\* The arrays p after x rounds: individuals with their costs, the x first ones in order.
Sorted(p, x) ==
  /\ p.genes \in [Individuals -> Tours] /\ p.costs \in [Individuals -> Nat]
  /\ \A y \in Individuals : p.costs[y] = TrueCost[p.genes[y]]
  /\ \A y \in 0 .. x - 1 : First(p.costs, y)

\* One round of population_swap with the cheapest of the rest.
Round(p, x) ==
  [genes |-> Swapped(p.genes, x - 1, Cheapest(p.costs, x - 1)),
   costs |-> Swapped(p.costs, x - 1, Cheapest(p.costs, x - 1))]

\* A round puts one more individual in its place.
LEMMA RoundSorts ==
  ASSUME NEW x \in 1 .. PopulationSize, NEW p, Sorted(p, x - 1)
  PROVE  Sorted(Round(p, x), x)
<1> DEFINE b == Cheapest(p.costs, x - 1)
           g == Swapped(p.genes, x - 1, b)
           c == Swapped(p.costs, x - 1, b)
<1>1. x \in Nat /\ x - 1 \in Individuals /\ PopulationSize \in Nat
  BY Sizes DEF Individuals
<1>2. p.genes \in [Individuals -> Tours] /\ p.costs \in [Individuals -> Nat]
  BY DEF Sorted
<1>3. b \in x - 1 .. PopulationSize - 1 /\ \A y \in x - 1 .. PopulationSize - 1 : p.costs[b] <= p.costs[y]
  BY <1>1, <1>2, CheapestFacts
<1> HIDE DEF b
<1>4. b \in Individuals /\ x - 1 <= b /\ b \in Nat
  BY <1>1, <1>3 DEF Individuals
<1>5. g \in [Individuals -> Tours] /\ c \in [Individuals -> Nat]
  BY <1>1, <1>2, <1>4 DEF Swapped
<1>6. \A y \in Individuals :
        /\ c[y] = IF y = b THEN p.costs[x - 1] ELSE IF y = x - 1 THEN p.costs[b] ELSE p.costs[y]
        /\ g[y] = IF y = b THEN p.genes[x - 1] ELSE IF y = x - 1 THEN p.genes[b] ELSE p.genes[y]
  BY <1>1, <1>2, <1>4 DEF Swapped
<1>7. \A y \in Individuals : c[y] = TrueCost[g[y]]
  BY <1>1, <1>4, <1>6 DEF Sorted
<1>8. ASSUME NEW y \in 0 .. x - 1
      PROVE  First(c, y)
  <2> SUFFICES ASSUME NEW z \in y .. PopulationSize - 1
               PROVE  c[y] <= c[z]
    BY DEF First
  <2>1. y \in Individuals /\ z \in Individuals /\ y \in Nat /\ z \in Nat /\ y <= z /\ y <= x - 1
    BY <1>1 DEF Individuals
  <2>2. CASE y = x - 1
    <3>1. c[y] = p.costs[b]
      BY <1>6, <2>1, <2>2
    <3>2. z \in x - 1 .. PopulationSize - 1 /\ x - 1 \in x - 1 .. PopulationSize - 1
      BY <1>1, <2>1, <2>2 DEF Individuals
    <3>3. c[z] \in {p.costs[x - 1], p.costs[b], p.costs[z]}
      BY <1>6, <2>1
    <3> QED
      BY <1>3, <3>1, <3>2, <3>3
  <2>3. CASE y # x - 1
    <3>1. y \in 0 .. (x - 1) - 1 /\ y # b
      BY <1>1, <1>4, <2>1, <2>3
    <3>2. c[y] = p.costs[y]
      BY <1>6, <2>1, <2>3, <3>1
    <3>3. PICK w \in {x - 1, b, z} : c[z] = p.costs[w]
      BY <1>6, <2>1
    <3>4. w \in y .. PopulationSize - 1
      BY <1>1, <1>4, <2>1, <3>1 DEF Individuals
    <3>5. First(p.costs, y)
      BY <3>1 DEF Sorted
    <3> QED
      BY <3>2, <3>3, <3>4, <3>5 DEF First
  <2> QED
    BY <2>2, <2>3
<1>9. Sorted([genes |-> g, costs |-> c], x)
  <2> HIDE DEF g, c
  <2> QED
    BY <1>5, <1>7, <1>8 DEF Sorted
<1> QED
  BY <1>9 DEF Round, b

\* The loop over the rounds.
Rounds(u, k) ==
  [x \in 0 .. k |-> IF x = 0 THEN [genes |-> genes, costs |-> costs] ELSE Round(u[x - 1], x)]

\* The loop can be run: some function holds the arrays after each of its rounds.
LEMMA RoundsExist ==
  ASSUME NEW k \in Nat
  PROVE  \E u : u = Rounds(u, k)
<1> DEFINE S == {m \in Nat : \E u : u = Rounds(u, m)}
<1>1. 0 \in S
  <2> DEFINE u == [x \in 0 .. 0 |-> [genes |-> genes, costs |-> costs]]
  <2>1. u = Rounds(u, 0)
    BY DEF Rounds
  <2> QED
    BY <2>1
<1>2. ASSUME NEW m \in Nat, m \in S
      PROVE  m + 1 \in S
  <2>1. PICK u : u = Rounds(u, m)
    BY <1>2
  <2> DEFINE v == [x \in 0 .. m + 1 |-> IF x = m + 1 THEN Round(u[m], m + 1) ELSE u[x]]
  <2>2. \A x \in 0 .. m : u[x] = IF x = 0 THEN [genes |-> genes, costs |-> costs] ELSE Round(u[x - 1], x)
    BY <2>1 DEF Rounds
  <2>3. ASSUME NEW x \in 0 .. m + 1
        PROVE  v[x] = IF x = 0 THEN [genes |-> genes, costs |-> costs] ELSE Round(v[x - 1], x)
    <3>1. CASE x = m + 1
      <4>1. x # 0 /\ x - 1 = m /\ m \in 0 .. m + 1 /\ m # m + 1
        BY <3>1
      <4>2. v[m] = u[m]
        BY <4>1
      <4> QED
        BY <3>1, <4>1, <4>2
    <3>2. CASE x # m + 1
      <4>1. x \in 0 .. m
        BY <3>2
      <4>2. CASE x = 0
        BY <2>2, <3>2, <4>1, <4>2
      <4>3. CASE x # 0
        <5>1. x - 1 \in 0 .. m + 1 /\ x - 1 # m + 1
          BY <4>3
        <5>2. v[x - 1] = u[x - 1] /\ v[x] = u[x]
          BY <3>2, <5>1
        <5> QED
          BY <2>2, <4>1, <4>3, <5>2
      <4> QED
        BY <4>2, <4>3
    <3> QED
      BY <3>1, <3>2
  <2>4. v = Rounds(v, m + 1)
    <3>1. v = [x \in 0 .. m + 1 |-> v[x]]
      OBVIOUS
    <3> HIDE DEF v
    <3> QED
      BY <2>3, <3>1 DEF Rounds
  <2> HIDE DEF v
  <2> QED
    BY <2>4
<1>3. Nat \subseteq S
  <2> HIDE DEF S
  <2> QED
    BY <1>1, <1>2, Induct
<1> QED
  BY <1>3

\* What elitism's loop leaves: the k cheapest in front, each with its own cost.
LEMMA BestFirstSorts ==
  ASSUME NEW k \in 0 .. PopulationSize, genes \in [Individuals -> Tours],
         costs \in [Individuals -> Nat], \A x \in Individuals : costs[x] = TrueCost[genes[x]]
  PROVE  Sorted(BestFirst(k), k)
<1> DEFINE w == CHOOSE u : u = Rounds(u, k)
<1>1. BestFirst(k) = w[k]
  BY DEF BestFirst, Rounds, Round
<1>2. k \in Nat /\ k <= PopulationSize /\ PopulationSize \in Nat
  BY Sizes
<1>3. w = Rounds(w, k)
  BY <1>2, RoundsExist
<1> HIDE DEF w
<1>4. \A x \in 0 .. k : w[x] = IF x = 0 THEN [genes |-> genes, costs |-> costs] ELSE Round(w[x - 1], x)
  BY <1>3 DEF Rounds
<1> DEFINE S == {m \in Nat : m <= k => Sorted(w[m], m)}
<1>5. 0 \in S
  <2>1. Sorted([genes |-> genes, costs |-> costs], 0)
    BY DEF Sorted
  <2>2. w[0] = [genes |-> genes, costs |-> costs]
    BY <1>2, <1>4
  <2> QED
    BY <2>1, <2>2
<1>6. ASSUME NEW m \in Nat, m \in S
      PROVE  m + 1 \in S
  <2> SUFFICES ASSUME m + 1 <= k
               PROVE  Sorted(w[m + 1], m + 1)
    OBVIOUS
  <2>1. /\ m + 1 \in 0 .. k /\ m + 1 # 0 /\ (m + 1) - 1 = m
        /\ m + 1 \in 1 .. PopulationSize
    BY <1>2
  <2>2. Sorted(w[m], m)
    BY <1>2, <1>6
  <2>3. w[m + 1] = Round(w[m], m + 1)
    BY <1>4, <2>1
  <2> QED
    BY <2>1, <2>2, <2>3, RoundSorts
<1>7. Nat \subseteq S
  <2> HIDE DEF S
  <2> QED
    BY <1>5, <1>6, Induct
<1> QED
  BY <1>1, <1>2, <1>7
-----------------------------------------------------------------------------
\* two_opt and mutate end in tours.
LEMMA ChildrenAreTours ==
  Descended \cup UNION {Mutants[t] : t \in Descended} \subseteq Tours
BY GeneticAssumption DEF Descended

\* The elite are some of the population.
LEMMA EliteFacts ==
  /\ Elite \subseteq Individuals
  /\ \A x \in Elite : x \in Nat /\ x < EliteCount
  /\ \A x \in Individuals : x \in Nat /\ x < PopulationSize
BY Sizes DEF Elite, Individuals

\* The first individual of the population.
LEMMA InitialiseKeeps == IInv /\ Initialise => IInv'
<1> SUFFICES ASSUME IInv, Initialise
             PROVE  IInv'
  OBVIOUS
<1> USE DEF IInv
<1>1. PICK t \in Descended : genes' = [genes EXCEPT ![i] = t] /\ costs' = [costs EXCEPT ![i] = TrueCost[t]]
  BY DEF Initialise
<1>2. t \in Tours /\ TrueCost[t] \in Nat
  BY ChildrenAreTours, GeneticAssumption
<1>3. i \in Individuals /\ pc = "init" /\ i \in Nat /\ PopulationSize \in Nat /\ i <= PopulationSize - 1
  BY Sizes DEF Initialise, MadeInv, Individuals
<1>4. TypeInv'
  <2>1. i' \in 0 .. PopulationSize /\ pc' \in Labels
    BY <1>3, Sizes DEF Initialise, Labels
  <2>2. genes' \in [Individuals -> Tours \cup {NoTour}] /\ costs' \in [Individuals -> Nat]
    BY <1>1, <1>2 DEF TypeInv
  <2> QED
    BY <2>1, <2>2 DEF TypeInv, Initialise, nextPop
<1>5. \A x \in Individuals : x <= i => IsOne(genes', costs', x)
  <2> SUFFICES ASSUME NEW x \in Individuals, x <= i
               PROVE  IsOne(genes', costs', x)
    OBVIOUS
  <2>1. CASE x = i
    BY <1>1, <1>2, <1>3, <2>1 DEF TypeInv, IsOne
  <2>2. CASE x # i
    <3>1. x \in 0 .. i - 1
      BY <1>3, <2>2 DEF Individuals
    <3>2. IsOne(genes, costs, x)
      BY <1>3, <3>1 DEF MadeInv
    <3> QED
      BY <1>1, <2>2, <3>2 DEF TypeInv, IsOne
  <2> QED
    BY <2>1, <2>2
<1>6. MadeInv'
  <2>1. CASE i + 1 < PopulationSize
    <3>1. pc' = "init" /\ i' = i + 1
      BY <2>1 DEF Initialise
    <3>2. i + 1 \in Individuals /\ \A x \in 0 .. (i + 1) - 1 : x \in Individuals /\ x <= i
      BY <1>3, <2>1 DEF Individuals
    <3> QED
      BY <1>5, <3>1, <3>2 DEF MadeInv
  <2>2. CASE ~(i + 1 < PopulationSize)
    <3>1. pc' = "loop"
      BY <2>2 DEF Initialise
    <3>2. \A x \in Individuals : x <= i
      BY <1>3, <2>2 DEF Individuals
    <3> QED
      BY <1>5, <3>1, <3>2 DEF MadeInv
  <2> QED
    BY <2>1, <2>2
<1>7. EliteInv' /\ SolInv'
  BY <1>3 DEF Initialise, EliteInv, SolInv
<1> QED
  BY <1>4, <1>6, <1>7

\* Elitism brings the best ones to the front of both populations.
LEMMA ElitismKeeps == IInv /\ Elitism => IInv'
<1> SUFFICES ASSUME IInv, Elitism
             PROVE  IInv'
  OBVIOUS
<1> USE DEF IInv
<1> DEFINE p == BestFirst(EliteCount)
<1>1. /\ pc = "loop" /\ pc' = "submit" /\ i' = i /\ over' = over /\ sol' = sol
      /\ genes' = p.genes /\ costs' = p.costs
      /\ nextGenes' = [x \in Individuals |-> IF x \in Elite THEN p.genes[x] ELSE nextGenes[x]]
      /\ nextCosts' = [x \in Individuals |-> IF x \in Elite THEN p.costs[x] ELSE nextCosts[x]]
  BY DEF Elitism
<1>2. \A x \in Individuals : genes[x] \in Tours /\ costs[x] = TrueCost[genes[x]]
  BY <1>1 DEF MadeInv, IsOne
<1>3. genes \in [Individuals -> Tours] /\ costs \in [Individuals -> Nat]
  BY <1>2 DEF TypeInv
<1>4. Sorted(p, EliteCount)
  BY <1>2, <1>3, Sizes, BestFirstSorts
<1> HIDE DEF p
<1>5. p.genes \in [Individuals -> Tours] /\ p.costs \in [Individuals -> Nat]
  BY <1>4 DEF Sorted
<1>6. TypeInv'
  BY <1>1, <1>5, EliteFacts DEF TypeInv, Labels
<1>7. \A x \in Individuals : IsOne(genes', costs', x)
  BY <1>1, <1>4, <1>5 DEF Sorted, IsOne
<1>8. \A x \in Elite : nextGenes'[x] = genes'[x] /\ nextCosts'[x] = costs'[x]
  BY <1>1, EliteFacts
<1>9. MadeInv'
  BY <1>1, <1>7, <1>8, EliteFacts DEF MadeInv, IsOne
<1>10. EliteInv'
  BY <1>1, <1>4, <1>8 DEF Sorted, EliteInv, Elite
<1>11. SolInv'
  BY <1>1 DEF SolInv
<1> QED
  BY <1>6, <1>9, <1>10, <1>11

\* The incumbent takes individual 0 if it is better by more than Epsilon.
LEMMA SubmitKeeps == IInv /\ Submit => IInv'
<1> SUFFICES ASSUME IInv, Submit
             PROVE  IInv'
  OBVIOUS
<1> USE DEF IInv
<1>1. /\ pc = "submit" /\ pc' = "offspring" /\ i' = EliteCount /\ over' = over
      /\ genes' = genes /\ costs' = costs /\ nextGenes' = nextGenes /\ nextCosts' = nextCosts
      /\ sol' = IF costs[0] < sol.cost - Epsilon THEN [tour |-> genes[0], cost |-> costs[0]] ELSE sol
  BY DEF Submit, pop, nextPop
<1>2. 0 \in Individuals /\ costs[0] \in Nat
  BY Sizes DEF Individuals, TypeInv
<1>3. genes[0] \in Tours /\ costs[0] = TrueCost[genes[0]]
  BY <1>1, <1>2 DEF MadeInv, IsOne
<1>4. TypeInv'
  BY <1>1, Sizes DEF TypeInv, Labels
<1>5. MadeInv'
  BY <1>1, Sizes DEF MadeInv, Elite
<1>6. EliteInv'
  BY <1>1 DEF EliteInv
<1>7. sol.tour \in Tours /\ sol.cost \in Nat /\ sol.cost = TrueCost[sol.tour]
  BY GeneticAssumption DEF SolInv
<1>8. SolInv'
  <2>1. CASE costs[0] < sol.cost - Epsilon
    BY <1>1, <1>2, <1>3, <2>1, Sizes DEF SolInv
  <2>2. CASE ~(costs[0] < sol.cost - Epsilon)
    BY <1>1, <1>2, <1>7, <2>2, Sizes DEF SolInv
  <2> QED
    BY <2>1, <2>2
<1> QED
  BY <1>4, <1>5, <1>6, <1>8

\* A child takes a place behind the elite.
LEMMA BreedKeeps == IInv /\ Breed => IInv'
<1> SUFFICES ASSUME IInv, Breed
             PROVE  IInv'
  OBVIOUS
<1> USE DEF IInv
<1>1. PICK child \in Descended \cup UNION {Mutants[t] : t \in Descended} :
        /\ nextGenes' = [nextGenes EXCEPT ![i] = child]
        /\ nextCosts' = [nextCosts EXCEPT ![i] = TrueCost[child]]
  BY DEF Breed
<1>2. /\ pc = "offspring" /\ i < PopulationSize /\ i' = i + 1
      /\ pc' = pc /\ genes' = genes /\ costs' = costs /\ over' = over /\ sol' = sol
  BY DEF Breed, pop
<1>3. child \in Tours /\ TrueCost[child] \in Nat
  BY ChildrenAreTours, GeneticAssumption
<1>4. i \in Individuals /\ i \in Nat /\ EliteCount <= i
  BY <1>2, Sizes DEF TypeInv, MadeInv, Individuals
<1>5. TypeInv'
  BY <1>1, <1>2, <1>3, <1>4, Sizes DEF TypeInv, Labels
<1>6. MadeInv'
  <2>1. ASSUME NEW x \in 0 .. (i + 1) - 1
        PROVE  IsOne(nextGenes', nextCosts', x)
    <3>1. CASE x = i
      BY <1>1, <1>3, <1>4, <3>1 DEF TypeInv, IsOne
    <3>2. CASE x # i
      <4>1. x \in 0 .. i - 1 /\ x \in Individuals
        BY <1>2, <1>4, <3>2, Sizes DEF Individuals
      <4>2. IsOne(nextGenes, nextCosts, x)
        BY <1>2, <4>1 DEF MadeInv
      <4> QED
        BY <1>1, <3>2, <4>1, <4>2 DEF TypeInv, IsOne
    <3> QED
      BY <3>1, <3>2
  <2>2. EliteCount <= i + 1
    BY <1>4, Sizes
  <2> QED
    BY <1>2, <2>1, <2>2 DEF MadeInv
<1>7. EliteInv'
  <2>1. \A x \in Elite : nextCosts'[x] = nextCosts[x]
    BY <1>1, <1>4, EliteFacts, Sizes DEF TypeInv
  <2> QED
    BY <1>2, <2>1 DEF EliteInv
<1>8. SolInv'
  BY <1>2 DEF SolInv
<1> QED
  BY <1>5, <1>6, <1>7, <1>8

\* The populations change places once the next one is complete.
LEMMA NextGenerationKeeps == IInv /\ NextGeneration => IInv'
<1> SUFFICES ASSUME IInv, NextGeneration
             PROVE  IInv'
  OBVIOUS
<1> USE DEF IInv
<1>1. /\ pc = "offspring" /\ i = PopulationSize /\ pc' = "loop" /\ i' = 0
      /\ genes' = nextGenes /\ costs' = nextCosts /\ nextGenes' = genes /\ nextCosts' = costs
      /\ over' = over /\ sol' = sol
  BY DEF NextGeneration
<1>2. TypeInv'
  BY <1>1, Sizes DEF TypeInv, Labels
<1>3. MadeInv'
  BY <1>1 DEF MadeInv, Individuals
<1>4. EliteInv' /\ SolInv'
  BY <1>1 DEF EliteInv, SolInv
<1> QED
  BY <1>2, <1>3, <1>4

\* The steps that leave both populations and the incumbent alone.
LEMMA OtherStepsKeep == IInv /\ (Leave \/ Expire \/ UNCHANGED vars) => IInv'
<1> SUFFICES ASSUME IInv, Leave \/ Expire \/ UNCHANGED vars
             PROVE  IInv'
  OBVIOUS
<1> USE DEF IInv
<1>1. /\ genes' = genes /\ costs' = costs /\ nextGenes' = nextGenes /\ nextCosts' = nextCosts
      /\ i' = i /\ sol' = sol /\ over' \in BOOLEAN
      /\ pc' = pc \/ (pc = "loop" /\ pc' = "done")
  BY DEF Leave, Expire, vars, pop, nextPop, TypeInv
<1>2. TypeInv'
  BY <1>1 DEF TypeInv, Labels
<1>3. MadeInv' /\ EliteInv' /\ SolInv'
  BY <1>1 DEF MadeInv, EliteInv, SolInv
<1> QED
  BY <1>2, <1>3

\* The invariant the others follow from: which individuals have been made, that the elite
\* leads both populations, and that the incumbent was compared with individual 0.
THEOREM Inductive == Spec => []IInv
<1>1. Init => IInv
  <2> SUFFICES ASSUME Init
               PROVE  IInv
    OBVIOUS
  <2> USE DEF Init
  <2>1. 0 \in Individuals /\ 0 \in 0 .. PopulationSize
    BY Sizes DEF Individuals
  <2>2. TypeInv
    BY <2>1 DEF TypeInv, Labels
  <2>3. MadeInv
    BY <2>1 DEF MadeInv
  <2>4. EliteInv /\ SolInv
    BY GeneticAssumption DEF EliteInv, SolInv
  <2> QED
    BY <2>2, <2>3, <2>4 DEF IInv
<1>2. IInv /\ [Next]_vars => IInv'
  BY InitialiseKeeps, ElitismKeeps, SubmitKeeps, BreedKeeps, NextGenerationKeeps, OtherStepsKeep
     DEF Next, Run, Stop
<1> QED
  BY <1>1, <1>2, PTL DEF Spec

\* An individual never has another one's cost, whichever population it is in and however the
\* arrays were swapped, copied and overwritten; nor has the incumbent.
THEOREM CostsFollowTheGenes == Spec => []CostsMatchGenes
<1>1. IInv => CostsMatchGenes
  BY DEF IInv, MadeInv, IsOne, SolInv, CostsMatchGenes
<1> QED
  BY <1>1, Inductive, PTL

\* With at least one elite individual, no one of a submitted generation is better than the
\* incumbent by more than Epsilon.  (Without any, individual 0 is an arbitrary one.)
THEOREM NothingBetterIsLost == EliteCount # 0 => (Spec => []BestIsSubmitted)
<1> SUFFICES ASSUME EliteCount # 0
             PROVE  Spec => []BestIsSubmitted
  OBVIOUS
<1>1. IInv => BestIsSubmitted
  <2> SUFFICES ASSUME IInv, pc = "offspring", NEW x \in Individuals
               PROVE  sol.cost <= costs[x] + Epsilon
    BY DEF BestIsSubmitted
  <2>1. 0 \in Elite /\ 0 \in Individuals /\ x \in 0 .. PopulationSize - 1
    BY Sizes DEF Elite, Individuals
  <2>2. costs[0] <= costs[x]
    BY <2>1 DEF IInv, EliteInv, First
  <2>3. sol.cost <= costs[0] + Epsilon
    BY DEF IInv, SolInv
  <2>4. costs[0] \in Nat /\ costs[x] \in Nat /\ sol.cost \in Nat
    BY <2>1, GeneticAssumption DEF IInv, TypeInv, SolInv
  <2> QED
    BY <2>2, <2>3, <2>4, Sizes
<1> QED
  BY <1>1, Inductive, PTL

\* Counting: a set within a finite one is no larger.
LEMMA Within ==
  ASSUME NEW T \in SUBSET Individuals, NEW S \in SUBSET T
  PROVE  Cardinality(S) \in Nat /\ Cardinality(T) \in Nat /\ Cardinality(S) <= Cardinality(T)
<1>1. IsFiniteSet(Individuals)
  BY Sizes, FS_Interval DEF Individuals
<1>2. IsFiniteSet(T)
  BY <1>1, FS_Subset
<1> QED
  BY <1>2, FS_Subset, FS_CardinalityType

\* The EliteCount cheapest individuals of a generation are in the next one as well: for each
\* cost, as many of them are no dearer than it as before.
THEOREM EliteIsKept == Spec => ElitesSurvive
<1> DEFINE Kept ==
             pc = "offspring" /\ pc' = "loop" =>
               \A x \in Individuals :
                 LET before == AtMost(costs, costs[x])
                 IN  AtMost(costs', costs[x]) >= IF before < EliteCount THEN before ELSE EliteCount
<1>1. IInv /\ [Next]_vars => [Kept]_vars
  <2> SUFFICES ASSUME IInv, Next, pc = "offspring", pc' = "loop", NEW x \in Individuals
               PROVE  AtMost(costs', costs[x]) >=
                        IF AtMost(costs, costs[x]) < EliteCount THEN AtMost(costs, costs[x]) ELSE EliteCount
    OBVIOUS
  <2>1. costs' = nextCosts
    BY DEF Next, Run, Initialise, Elitism, Submit, Breed, NextGeneration, Leave, Expire, Stop, vars
  <2>2. costs \in [Individuals -> Nat] /\ nextCosts \in [Individuals -> Nat] /\ EliteCount \in Nat
    BY Sizes DEF IInv, TypeInv
  <2>3. \A e \in Elite : First(costs, e) /\ nextCosts[e] = costs[e]
    BY DEF IInv, EliteInv
  <2> DEFINE Was == {y \in Individuals : costs[y] <= costs[x]}
             Is == {y \in Individuals : nextCosts[y] <= costs[x]}
  <2>4. AtMost(costs, costs[x]) = Cardinality(Was) /\ AtMost(costs', costs[x]) = Cardinality(Is)
    BY <2>1 DEF AtMost
  <2>5. CASE \A e \in Elite : costs[e] <= costs[x]
    <3>1. Elite \subseteq Is /\ Is \subseteq Individuals
      BY <2>3, <2>5, EliteFacts
    <3>2. Cardinality(Elite) = EliteCount
      BY <2>2, FS_Interval DEF Elite
    <3>3. Cardinality(Was) \in Nat /\ Cardinality(Is) \in Nat /\ EliteCount <= Cardinality(Is)
      BY <3>1, <3>2, Within
    <3> QED
      BY <2>2, <2>4, <3>3
  <2>6. CASE \E e \in Elite : ~(costs[e] <= costs[x])
    <3>1. PICK e \in Elite : ~(costs[e] <= costs[x])
      BY <2>6
    <3>2. ASSUME NEW y \in Was
          PROVE  y \in Elite
      <4>1. y \in Individuals /\ costs[y] <= costs[x] /\ e \in Individuals
        BY EliteFacts
      <4>2. y < e
        <5> SUFFICES ASSUME ~(y < e)
                     PROVE  FALSE
          OBVIOUS
        <5>1. y \in e .. PopulationSize - 1
          BY <4>1, Sizes DEF Individuals
        <5>2. costs[e] <= costs[y]
          BY <2>3, <5>1 DEF First
        <5>3. costs[e] \in Nat /\ costs[y] \in Nat /\ costs[x] \in Nat
          BY <2>2, <4>1
        <5> QED
          BY <3>1, <4>1, <5>2, <5>3
      <4> QED
        BY <4>1, <4>2, Sizes DEF Elite, Individuals
    <3>3. Was \subseteq Is /\ Is \subseteq Individuals
      BY <2>3, <3>2
    <3>4. Cardinality(Was) \in Nat /\ Cardinality(Is) \in Nat /\ Cardinality(Was) <= Cardinality(Is)
      BY <3>3, Within
    <3> QED
      BY <2>2, <2>4, <3>4
  <2> QED
    BY <2>5, <2>6
<1> QED
  BY <1>1, Inductive, PTL DEF Spec, ElitesSurvive

-----------------------------------------------------------------------------
\* The least member of a set of naturals.
LEMMA MinIs ==
  ASSUME NEW S \in SUBSET Nat, S # {}
  PROVE  Min(S) \in S /\ \A y \in S : Min(S) <= y
<1>1. \E m \in S : \A n \in S : m <= n
  BY Least
<1> QED
  BY <1>1 DEF Min

\* The element of a finite set with the least value of f.
LEMMA Argmin ==
  ASSUME NEW S, IsFiniteSet(S), S # {}, NEW f, \A o \in S : f[o] \in Int
  PROVE  \E o \in S : \A q \in S : f[o] <= f[q]
<1> DEFINE Found(T) == \E o \in T : \A q \in T : f[o] <= f[q]
           Counts == {n \in Nat : \A T \in SUBSET S : Cardinality(T) = n + 1 => Found(T)}
<1>1. \A T \in SUBSET S : IsFiniteSet(T)
  BY FS_Subset
<1>2. 0 \in Counts
  <2> SUFFICES ASSUME NEW T \in SUBSET S, Cardinality(T) = 0 + 1
               PROVE  Found(T)
    OBVIOUS
  <2>1. PICK o : T = {o}
    BY <1>1, FS_Singleton
  <2>2. f[o] \in Int
    BY <2>1
  <2> QED
    BY <2>1, <2>2
<1>3. ASSUME NEW n \in Nat, n \in Counts
      PROVE  n + 1 \in Counts
  <2> SUFFICES ASSUME NEW T \in SUBSET S, Cardinality(T) = (n + 1) + 1
               PROVE  Found(T)
    OBVIOUS
  <2>1. PICK a : a \in T
    BY FS_EmptySet
  <2>2. Cardinality(T \ {a}) = n + 1 /\ T \ {a} \in SUBSET S
    <3>1. IsFiniteSet(T) /\ Cardinality(T) \in Nat
      BY <1>1, FS_CardinalityType
    <3>2. Cardinality(T \ {a}) = Cardinality(T) - 1
      BY <2>1, <3>1, FS_RemoveElement
    <3> QED
      BY <3>1, <3>2
  <2>3. Found(T \ {a})
    BY <1>3, <2>2
  <2>4. PICK o \in T \ {a} : \A q \in T \ {a} : f[o] <= f[q]
    BY <2>3
  <2>5. f[a] \in Int /\ f[o] \in Int /\ \A q \in T : f[q] \in Int
    BY <2>1, <2>4
  <2>6. CASE f[o] <= f[a]
    BY <2>4, <2>6
  <2>7. CASE ~(f[o] <= f[a])
    <3>1. \A q \in T : f[a] <= f[q]
      BY <2>4, <2>5, <2>7
    <3> QED
      BY <2>1, <3>1
  <2> QED
    BY <2>6, <2>7
<1>4. Nat \subseteq Counts
  <2> HIDE DEF Counts
  <2> QED
    BY <1>2, <1>3, Induct
<1>5. PICK n \in Nat : Cardinality(S) = n + 1
  <2>1. Cardinality(S) \in Nat /\ Cardinality(S) # 0
    BY FS_CardinalityType, FS_EmptySet
  <2> QED
    BY <2>1, Cardinality(S) - 1 \in Nat, Cardinality(S) = (Cardinality(S) - 1) + 1
<1>6. Found(S)
  BY <1>4, <1>5
<1> QED
  BY <1>6

\* The first of the pairs with the least value of f.
LEMMA FirstOfLeast ==
  ASSUME NEW S \in SUBSET (Nat \X Nat), IsFiniteSet(S), S # {},
         NEW f, \A o \in S : f[o] \in Int
  PROVE  \E o \in S : \A q \in S \ {o} : f[o] < f[q] \/ (f[o] = f[q] /\ Before(o, q))
<1>1. PICK m \in S : \A q \in S : f[m] <= f[q]
  BY Argmin
<1> DEFINE Best == {o \in S : f[o] = f[m]}
<1>2. PICK o \in Best : \A q \in Best \ {o} : Before(o, q)
  <2>1. Best \in SUBSET (Nat \X Nat) /\ Best # {}
    BY <1>1
  <2> HIDE DEF Best
  <2> QED
    BY <2>1, FirstPair
<1>3. o \in S /\ f[o] = f[m] /\ f[m] \in Int
  BY <1>2
<1>4. ASSUME NEW q \in S \ {o}
      PROVE  f[o] < f[q] \/ (f[o] = f[q] /\ Before(o, q))
  <2>1. f[q] \in Int /\ f[m] <= f[q]
    BY <1>1
  <2>2. CASE f[q] = f[m]
    BY <1>2, <1>3, <2>2
  <2>3. CASE f[q] # f[m]
    BY <1>3, <2>1, <2>3
  <2> QED
    BY <2>2, <2>3
<1> QED
  BY <1>3, <1>4

\* A loop that goes on from one state of Q to the next can be gone through.
Passes(u, n, Q, q, step) ==
  /\ u \in [0 .. n -> Q]
  /\ u[0] = q
  /\ \A x \in 1 .. n : u[x] = step[x][u[x - 1]]

LEMMA LoopExists ==
  ASSUME NEW n \in Nat, NEW Q, NEW q, NEW step, q \in Q, step \in [1 .. n -> [Q -> Q]]
  PROVE  \E u : Passes(u, n, Q, q, step)
<1> DEFINE S == {m \in Nat : m <= n => \E u : Passes(u, m, Q, q, step)}
<1>1. 0 \in S
  <2>1. Passes([x \in 0 .. 0 |-> q], 0, Q, q, step)
    BY DEF Passes
  <2> QED
    BY <2>1
<1>2. ASSUME NEW m \in Nat, m \in S
      PROVE  m + 1 \in S
  <2> SUFFICES ASSUME m + 1 <= n
               PROVE  \E u : Passes(u, m + 1, Q, q, step)
    OBVIOUS
  <2>1. PICK u : Passes(u, m, Q, q, step)
    BY <1>2
  <2>2. m + 1 \in 1 .. n /\ u[m] \in Q /\ u \in [0 .. m -> Q] /\ u[0] = q
    BY <2>1 DEF Passes
  <2>3. step[m + 1][u[m]] \in Q
    BY <2>2
  <2> DEFINE v == [x \in 0 .. m + 1 |-> IF x = m + 1 THEN step[m + 1][u[m]] ELSE u[x]]
  <2>4. v \in [0 .. m + 1 -> Q] /\ v[0] = q
    BY <2>2, <2>3
  <2>5. ASSUME NEW x \in 1 .. m + 1
        PROVE  v[x] = step[x][v[x - 1]]
    <3>1. v[x - 1] = u[x - 1]
      OBVIOUS
    <3>2. CASE x = m + 1
      BY <3>1, <3>2
    <3>3. CASE x # m + 1
      <4>1. x \in 1 .. m /\ v[x] = u[x]
        BY <3>3
      <4> QED
        BY <2>1, <3>1, <4>1 DEF Passes
    <3> QED
      BY <3>2, <3>3
  <2> HIDE DEF v
  <2> QED
    BY <2>4, <2>5 DEF Passes
<1>3. Nat \subseteq S
  <2> HIDE DEF S
  <2> QED
    BY <1>1, <1>2, Induct
<1>4. n \in S
  BY <1>3
<1> QED
  BY <1>4

-----------------------------------------------------------------------------
\* Insertion into a sequence, entry by entry.
HasInserted(r, s, k, h) ==
  /\ Len(r) = Len(s) + 1
  /\ \A x \in 1 .. k - 1 : r[x] = s[x]
  /\ r[k] = h
  /\ \A x \in k + 1 .. Len(s) + 1 : r[x] = s[x - 1]

LEMMA InsertIs ==
  ASSUME NEW S, NEW s \in Seq(S), NEW k \in 1 .. Len(s) + 1, NEW h \in S
  PROVE  InsertAt(s, k, h) \in Seq(S) /\ HasInserted(InsertAt(s, k, h), s, k, h)
<1> DEFINE a == SubSeq(s, 1, k - 1)
           b == SubSeq(s, k, Len(s))
           r == (a \o <<h>>) \o b
<1>1. Len(s) \in Nat /\ k \in Nat
  OBVIOUS
<1>2. a \in Seq(S) /\ Len(a) = k - 1 /\ \A x \in 1 .. k - 1 : a[x] = s[x]
  BY <1>1, SubSeqProperties
<1>3. b \in Seq(S) /\ Len(b) = Len(s) - k + 1 /\ \A x \in 1 .. Len(s) - k + 1 : b[x] = s[k + x - 1]
  BY <1>1, SubSeqProperties
<1> HIDE DEF a, b
<1>4. /\ a \o <<h>> \in Seq(S) /\ Len(a \o <<h>>) = k
      /\ \A x \in 1 .. k - 1 : (a \o <<h>>)[x] = s[x]
      /\ (a \o <<h>>)[k] = h
  BY <1>1, <1>2
<1> DEFINE c == a \o <<h>>
<1>5. /\ c \in Seq(S) /\ Len(c) = k /\ c[k] = h
      /\ \A x \in 1 .. k - 1 : c[x] = s[x]
  BY <1>4
<1> HIDE DEF c
<1>6. /\ c \o b \in Seq(S)
      /\ Len(c \o b) = Len(c) + Len(b)
      /\ \A x \in 1 .. Len(c) + Len(b) : (c \o b)[x] = IF x <= Len(c) THEN c[x] ELSE b[x - Len(c)]
  BY <1>3, <1>5, ConcatProperties
<1>7. ASSUME NEW x \in k + 1 .. Len(s) + 1
      PROVE  (c \o b)[x] = s[x - 1]
  <2>1. (c \o b)[x] = b[x - k]
    BY <1>1, <1>3, <1>5, <1>6
  <2>2. x - k \in 1 .. Len(s) - k + 1 /\ k + (x - k) - 1 = x - 1
    BY <1>1
  <2> QED
    BY <1>3, <2>1, <2>2
<1>8. InsertAt(s, k, h) = c \o b
  BY DEF InsertAt, a, b, c
<1>9. Len(c \o b) = Len(s) + 1 /\ \A x \in 1 .. k : (c \o b)[x] = c[x]
  BY <1>1, <1>3, <1>5, <1>6
<1> QED
  BY <1>1, <1>5, <1>6, <1>7, <1>8, <1>9 DEF HasInserted

\* The entries of a sequence.
LEMMA EntriesOf ==
  ASSUME NEW S, NEW s \in Seq(S)
  PROVE  /\ DOMAIN s = 1 .. Len(s) /\ Len(s) \in Nat
         /\ ToSet(s) = {s[x] : x \in 1 .. Len(s)} /\ ToSet(s) \subseteq S
         /\ \A x \in 1 .. Len(s) : s[x] \in ToSet(s)
BY DEF ToSet

\* What an insertion does to the set of the entries.
LEMMA InsertGrows ==
  ASSUME NEW S, NEW s \in Seq(S), NEW k \in 1 .. Len(s) + 1, NEW h \in S
  PROVE  ToSet(InsertAt(s, k, h)) = ToSet(s) \cup {h}
<1> DEFINE r == InsertAt(s, k, h)
<1>0. r \in Seq(S) /\ HasInserted(r, s, k, h)
  BY InsertIs
<1>1. /\ Len(r) = Len(s) + 1
      /\ \A x \in 1 .. k - 1 : r[x] = s[x]
      /\ r[k] = h
      /\ \A x \in k + 1 .. Len(s) + 1 : r[x] = s[x - 1]
  BY <1>0 DEF HasInserted
<1> HIDE DEF r
<1>2. Len(s) \in Nat /\ k \in Nat /\ k \in 1 .. Len(r)
  BY <1>1
<1>3. /\ ToSet(s) = {s[x] : x \in 1 .. Len(s)}
      /\ ToSet(r) = {r[x] : x \in 1 .. Len(r)}
  BY <1>0, EntriesOf
<1>4. ASSUME NEW x \in 1 .. Len(r)
      PROVE  r[x] \in ToSet(s) \cup {h}
  <2>1. CASE x < k
    BY <1>1, <1>2, <1>3, <2>1
  <2>2. CASE x = k
    BY <1>1, <2>2
  <2>3. CASE k < x
    <3>1. x \in k + 1 .. Len(s) + 1 /\ x - 1 \in 1 .. Len(s)
      BY <1>1, <1>2, <2>3
    <3> QED
      BY <1>1, <1>3, <3>1
  <2> QED
    BY <1>2, <2>1, <2>2, <2>3
<1>5. ASSUME NEW x \in 1 .. Len(s)
      PROVE  s[x] \in ToSet(r)
  <2>1. CASE x < k
    <3>1. x \in 1 .. k - 1 /\ x \in 1 .. Len(r)
      BY <1>1, <1>2, <2>1
    <3> QED
      BY <1>1, <1>3, <3>1
  <2>2. CASE ~(x < k)
    <3>1. x + 1 \in k + 1 .. Len(s) + 1 /\ x + 1 \in 1 .. Len(r) /\ (x + 1) - 1 = x
      BY <1>1, <1>2, <2>2
    <3>2. r[x + 1] = s[x]
      BY <1>1, <3>1
    <3> QED
      BY <1>3, <3>1, <3>2
  <2> QED
    BY <2>1, <2>2
<1>6. h \in ToSet(r)
  BY <1>1, <1>2, <1>3
<1> QED
  BY <1>3, <1>4, <1>5, <1>6 DEF r

\* A new element is inserted without repetition.
LEMMA InsertKeepsDistinct ==
  ASSUME NEW S, NEW s \in Seq(S), NEW k \in 1 .. Len(s) + 1, NEW h \in S,
         IsInjective(s), h \notin ToSet(s)
  PROVE  IsInjective(InsertAt(s, k, h))
<1> DEFINE r == InsertAt(s, k, h)
<1>0. r \in Seq(S) /\ HasInserted(r, s, k, h)
  BY InsertIs
<1>1. /\ Len(r) = Len(s) + 1
      /\ \A x \in 1 .. k - 1 : r[x] = s[x]
      /\ r[k] = h
      /\ \A x \in k + 1 .. Len(s) + 1 : r[x] = s[x - 1]
  BY <1>0 DEF HasInserted
<1> HIDE DEF r
<1> DEFINE From(x) == IF x < k THEN x ELSE x - 1
<1>2. Len(s) \in Nat /\ k \in Nat
  OBVIOUS
<1>3. ASSUME NEW x \in 1 .. Len(r), x # k
      PROVE  From(x) \in 1 .. Len(s) /\ r[x] = s[From(x)] /\ r[x] # h
  <2>1. From(x) \in 1 .. Len(s)
    BY <1>1, <1>2, <1>3
  <2>2. r[x] = s[From(x)]
    BY <1>1, <1>2, <1>3
  <2> QED
    BY <2>1, <2>2, EntriesOf
<1>4. \A x, y \in 1 .. Len(s) : s[x] = s[y] => x = y
  BY EntriesOf DEF IsInjective
<1>5. ASSUME NEW x \in 1 .. Len(r), NEW y \in 1 .. Len(r), r[x] = r[y]
      PROVE  x = y
  <2>1. CASE x = k \/ y = k
    BY <1>1, <1>3, <1>5, <2>1
  <2>2. CASE x # k /\ y # k
    <3>1. From(x) = From(y)
      <4> HIDE DEF From
      <4> QED
        BY <1>3, <1>4, <1>5, <2>2
    <3> QED
      BY <1>2, <2>2, <3>1
  <2> QED
    BY <2>1, <2>2
<1>6. IsInjective(r)
  BY <1>0, <1>5, EntriesOf DEF IsInjective
<1> QED
  BY <1>6 DEF r

\* Without repetition there are as many entries as there are places.
LEMMA SizeOf ==
  ASSUME NEW S, NEW s \in Seq(S), IsInjective(s)
  PROVE  IsFiniteSet(ToSet(s)) /\ Cardinality(ToSet(s)) = Len(s)
<1>1. /\ DOMAIN s = 1 .. Len(s) /\ Len(s) \in Nat
      /\ ToSet(s) = {s[x] : x \in 1 .. Len(s)}
  BY EntriesOf
<1>2. s \in Bijection(1 .. Len(s), ToSet(s))
  BY <1>1 DEF Bijection, Injection, Surjection, IsInjective
<1>3. IsFiniteSet(1 .. Len(s)) /\ Cardinality(1 .. Len(s)) = Len(s)
  BY <1>1, FS_Interval
<1>4. ExistsBijection(1 .. Len(s), ToSet(s))
  BY <1>2 DEF ExistsBijection
<1> QED
  BY <1>3, <1>4, FS_Bijection

\* A function on 1 .. NumNodes into the nodes is a sequence of nodes.
LEMMA ArrayIsSeq ==
  ASSUME NEW s \in [1 .. NumNodes -> Nodes]
  PROVE  s \in Seq(Nodes) /\ Len(s) = NumNodes
BY NodesFacts

\* The exchange of two entries.
LEMMA SwapInIs ==
  ASSUME NEW s \in [1 .. NumNodes -> Nodes], NEW x \in 1 .. NumNodes, NEW y \in 1 .. NumNodes,
         IsInjective(s)
  PROVE  /\ SwapIn(s, x, y) \in [1 .. NumNodes -> Nodes] /\ IsInjective(SwapIn(s, x, y))
         /\ SwapIn(s, x, y)[x] = s[y]
         /\ \A z \in 1 .. NumNodes : z # x /\ z # y => SwapIn(s, x, y)[z] = s[z]
         /\ ToSet(SwapIn(s, x, y)) \subseteq ToSet(s)
<1> DEFINE r == SwapIn(s, x, y)
           From(z) == IF z = x THEN y ELSE IF z = y THEN x ELSE z
<1>1. r \in [1 .. NumNodes -> Nodes] /\ \A z \in 1 .. NumNodes : r[z] = s[From(z)]
  BY DEF SwapIn
<1>2. \A z \in 1 .. NumNodes : From(z) \in 1 .. NumNodes
  OBVIOUS
<1>3. \A z, w \in 1 .. NumNodes : From(z) = From(w) => z = w
  OBVIOUS
<1>4. From(x) = y /\ \A z \in 1 .. NumNodes : z # x /\ z # y => From(z) = z
  OBVIOUS
<1>5. DOMAIN s = 1 .. NumNodes /\ DOMAIN r = 1 .. NumNodes
  BY <1>1
<1> HIDE DEF r, From
<1>6. IsInjective(r)
  BY <1>1, <1>2, <1>3, <1>5 DEF IsInjective
<1>7. ToSet(r) \subseteq ToSet(s)
  BY <1>1, <1>2, <1>5 DEF ToSet
<1> QED
  BY <1>1, <1>4, <1>6, <1>7 DEF r

-----------------------------------------------------------------------------
\* What has been collected of the first m entries.
HasCollected(q, s, visited, m) ==
  /\ q \in Seq(Nodes) /\ IsInjective(q)
  /\ ToSet(q) = {s[x] : x \in 1 .. m} \ visited

\* One more entry is collected, unless it is known already.
LEMMA CollectOne ==
  ASSUME NEW s \in [1 .. NumNodes -> Nodes], NEW visited, NEW m \in Nat, m + 1 <= NumNodes,
         NEW q, HasCollected(q, s, visited, m)
  PROVE  HasCollected(IF s[m + 1] \in ToSet(q) \cup visited THEN q ELSE Append(q, s[m + 1]),
                      s, visited, m + 1)
<1> DEFINE a == s[m + 1]
<1>1. m + 1 \in 1 .. NumNodes /\ a \in Nodes /\ 1 .. m + 1 = (1 .. m) \cup {m + 1}
  BY NodesFacts
<1>2. {s[x] : x \in 1 .. m + 1} = {s[x] : x \in 1 .. m} \cup {a}
  BY <1>1
<1>3. q \in Seq(Nodes) /\ IsInjective(q) /\ ToSet(q) = {s[x] : x \in 1 .. m} \ visited
  BY DEF HasCollected
<1> HIDE DEF a
<1>4. CASE a \in ToSet(q) \cup visited
  <2>1. {s[x] : x \in 1 .. m + 1} \ visited = {s[x] : x \in 1 .. m} \ visited
    BY <1>2, <1>3, <1>4
  <2> QED
    BY <1>3, <1>4, <2>1 DEF HasCollected, a
<1>5. CASE a \notin ToSet(q) \cup visited
  <2> DEFINE r == Append(q, a)
  <2>1. /\ r \in Seq(Nodes) /\ Len(r) = Len(q) + 1 /\ r[Len(r)] = a
        /\ \A x \in 1 .. Len(q) : r[x] = q[x]
    BY <1>1, <1>3
  <2> HIDE DEF r
  <2>2. /\ DOMAIN q = 1 .. Len(q) /\ Len(q) \in Nat /\ DOMAIN r = 1 .. Len(r)
        /\ ToSet(q) = {q[x] : x \in 1 .. Len(q)} /\ ToSet(r) = {r[x] : x \in 1 .. Len(r)}
    BY <1>3, <2>1, EntriesOf
  <2>3. \A x \in 1 .. Len(r) : x \in 1 .. Len(q) \/ x = Len(r)
    BY <2>1, <2>2
  <2>4. \A x \in 1 .. Len(q) : x \in 1 .. Len(r)
    BY <2>1, <2>2
  <2>5. Len(r) \in 1 .. Len(r)
    BY <2>1, <2>2
  <2>6. ToSet(r) = ToSet(q) \cup {a}
    BY <2>1, <2>2, <2>3, <2>4, <2>5
  <2>7. IsInjective(r)
    <3>1. \A x \in 1 .. Len(q) : q[x] # a
      BY <1>5, <2>2
    <3>2. \A x, y \in 1 .. Len(q) : q[x] = q[y] => x = y
      BY <1>3, <2>2 DEF IsInjective
    <3> QED
      BY <2>1, <2>2, <2>3, <3>1, <3>2 DEF IsInjective
  <2>8. ToSet(r) = {s[x] : x \in 1 .. m + 1} \ visited
    BY <1>2, <1>3, <1>5, <2>6
  <2>9. HasCollected(r, s, visited, m + 1)
    BY <2>1, <2>7, <2>8 DEF HasCollected
  <2> QED
    BY <1>5, <2>9 DEF a, r
<1> QED
  BY <1>4, <1>5

\* A pass collects every node of the array once, those visited left out.
LEMMA CollectedIs ==
  ASSUME NEW s \in [1 .. NumNodes -> Nodes], NEW visited
  PROVE  HasCollected(Collected(s, visited), s, visited, NumNodes)
<1> DEFINE N == NumNodes
           One(q, x) == IF s[x] \in ToSet(q) \cup visited THEN q ELSE Append(q, s[x])
           Loop(f) == [x \in 0 .. N |-> IF x = 0 THEN <<>> ELSE One(f[x - 1], x)]
           step == [x \in 1 .. N |-> [q \in Seq(Nodes) |-> One(q, x)]]
           w == CHOOSE f : f = Loop(f)
<1>1. Collected(s, visited) = w[N]
  BY DEF Collected
<1>2. N \in Nat /\ <<>> \in Seq(Nodes)
  BY NodesFacts
<1>3. PICK u : Passes(u, N, Seq(Nodes), <<>>, step)
  <2>1. step \in [1 .. N -> [Seq(Nodes) -> Seq(Nodes)]]
    OBVIOUS
  <2> HIDE DEF step
  <2> QED
    BY <1>2, <2>1, LoopExists
<1>4. u = Loop(u)
  <2>1. \A x \in 1 .. N : u[x - 1] \in Seq(Nodes)
    BY <1>2, <1>3 DEF Passes
  <2>2. \A x \in 1 .. N : step[x][u[x - 1]] = One(u[x - 1], x)
    BY <2>1
  <2>3. \A x \in 0 .. N : u[x] = IF x = 0 THEN <<>> ELSE One(u[x - 1], x)
    <3> HIDE DEF One, step
    <3> QED
      BY <1>2, <1>3, <2>2 DEF Passes
  <2> HIDE DEF One
  <2> QED
    BY <1>3, <2>3 DEF Passes
<1>5. w = Loop(w)
  <2> HIDE DEF Loop
  <2> QED
    BY <1>4
<1>6. \A x \in 0 .. N : w[x] = IF x = 0 THEN <<>> ELSE One(w[x - 1], x)
  <2> HIDE DEF w, One
  <2> QED
    BY <1>5
<1> HIDE DEF w
<1> DEFINE S == {m \in Nat : m <= N => HasCollected(w[m], s, visited, m)}
<1>7. 0 \in S
  <2>1. w[0] = <<>>
    BY <1>2, <1>6
  <2>2. ToSet(<<>>) = {} /\ IsInjective(<<>>) /\ {s[x] : x \in 1 .. 0} = {}
    BY DEF ToSet, IsInjective
  <2>3. HasCollected(<<>>, s, visited, 0)
    BY <2>2 DEF HasCollected
  <2> QED
    BY <2>1, <2>3
<1>8. ASSUME NEW m \in Nat, m \in S
      PROVE  m + 1 \in S
  <2> SUFFICES ASSUME m + 1 <= N
               PROVE  HasCollected(w[m + 1], s, visited, m + 1)
    OBVIOUS
  <2>1. m + 1 \in 0 .. N /\ m + 1 # 0 /\ (m + 1) - 1 = m
    BY <1>2
  <2>2. w[m + 1] = One(w[m], m + 1)
    <3> HIDE DEF One
    <3> QED
      BY <1>6, <2>1
  <2>3. HasCollected(w[m], s, visited, m)
    BY <1>2, <1>8
  <2>4. HasCollected(One(w[m], m + 1), s, visited, m + 1)
    BY <2>3, CollectOne
  <2> QED
    BY <2>2, <2>4
<1>9. Nat \subseteq S
  <2> HIDE DEF S
  <2> QED
    BY <1>7, <1>8, Induct
<1> QED
  BY <1>1, <1>2, <1>9

-----------------------------------------------------------------------------
\* The place after the p-th of n, around the end.
After(p, n) == (p % n) + 1

LEMMA AfterIs ==
  ASSUME NEW n \in Nat \ {0}
  PROVE  /\ \A p \in 1 .. n : After(p, n) \in 1 .. n
         /\ \A p \in 1 .. n - 1 : After(p, n) = p + 1
         /\ After(n, n) = 1
<1>1. n % n = 0
  OBVIOUS
<1>2. \A p \in 1 .. n - 1 : p % n = p
  OBVIOUS
<1>3. \A p \in 1 .. n : p \in 1 .. n - 1 \/ p = n
  OBVIOUS
<1> QED
  BY <1>1, <1>2, <1>3 DEF After

\* What an insertion adds is an integer.
LEMMA DetourInt ==
  ASSUME NEW s \in Seq(Nodes), NEW h \in Nodes, NEW p \in 1 .. Len(s)
  PROVE  /\ Detour(s, h, p) \in Int
         /\ Detour(s, h, p) = Cost[s[p]][h] + Cost[h][s[After(p, Len(s))]]
                                 - Cost[s[p]][s[After(p, Len(s))]]
<1>1. Len(s) \in Nat \ {0}
  OBVIOUS
<1>2. s[p] \in Nodes /\ s[After(p, Len(s))] \in Nodes
  <2>1. After(p, Len(s)) \in 1 .. Len(s)
    BY <1>1, AfterIs
  <2> QED
    BY <2>1
<1>3. /\ Cost[s[p]][h] \in Int /\ Cost[h][s[After(p, Len(s))]] \in Int
      /\ Cost[s[p]][s[After(p, Len(s))]] \in Int
  BY <1>2, TourAssumption
<1>4. Detour(s, h, p) = Cost[s[p]][h] + Cost[h][s[After(p, Len(s))]]
                          - Cost[s[p]][s[After(p, Len(s))]]
  BY DEF Detour, After
<1> QED
  BY <1>3, <1>4

\* The search finds an offer, and no other one is cheaper.
LEMMA CheapestOfIs ==
  ASSUME NEW s \in Seq(Nodes), NEW offers \in SUBSET (Nodes \X (1 .. Len(s))), offers # {}
  PROVE  /\ CheapestOf(s, offers) \in offers
         /\ \A q \in offers : Detour(s, CheapestOf(s, offers)[1], CheapestOf(s, offers)[2])
                                <= Detour(s, q[1], q[2])
<1> DEFINE D(q) == Detour(s, q[1], q[2])
           f == [q \in offers |-> D(q)]
           o == CheapestOf(s, offers)
<1>1. \A q \in offers : q[1] \in Nodes /\ q[2] \in 1 .. Len(s)
  OBVIOUS
<1>2. \A q \in offers : D(q) \in Int
  BY <1>1, DetourInt
<1>3. offers \in SUBSET (Nat \X Nat) /\ IsFiniteSet(offers)
  <2>1. Nodes \subseteq Nat /\ 1 .. Len(s) \subseteq Nat
    BY NodesFacts DEF Nodes
  <2>2. IsFiniteSet(1 .. Len(s)) /\ IsFiniteSet(Nodes)
    BY NodesFacts, FS_Interval
  <2>3. IsFiniteSet(Nodes \X (1 .. Len(s)))
    BY <2>2, FS_Product
  <2> QED
    BY <2>1, <2>3, FS_Subset
<1>4. \E b \in offers : \A q \in offers \ {b} : f[b] < f[q] \/ (f[b] = f[q] /\ Before(b, q))
  <2>1. \A q \in offers : f[q] \in Int
    BY <1>2
  <2> HIDE DEF f
  <2> QED
    BY <1>3, <2>1, FirstOfLeast
<1>5. \E b \in offers : \A q \in offers \ {b} : D(b) < D(q) \/ (D(b) = D(q) /\ Before(b, q))
  <2> HIDE DEF D
  <2> QED
    BY <1>4
<1>6. o \in offers /\ \A q \in offers \ {o} : D(o) < D(q) \/ (D(o) = D(q) /\ Before(o, q))
  BY <1>5 DEF CheapestOf
<1> HIDE DEF o, D
<1>7. ASSUME NEW q \in offers
      PROVE  D(o) <= D(q)
  <2>1. D(o) \in Int /\ D(q) \in Int
    BY <1>2, <1>6
  <2>2. CASE q = o
    BY <2>1, <2>2
  <2>3. CASE q # o
    BY <1>6, <2>1, <2>3
  <2> QED
    BY <2>2, <2>3
<1> QED
  BY <1>6, <1>7 DEF o, D

\* The farthest pair is a pair of different nodes.
LEMMA DiameterIs ==
  \E a, b \in Nodes : a < b /\ Diameter = <<a, b>>
<1> DEFINE pairs == {p \in Nodes \X Nodes : p[1] < p[2]}
           C(p) == Cost[p[1]][p[2]]
           f == [p \in pairs |-> -C(p)]
           d == Diameter
<1>1. \A p \in pairs : C(p) \in Nat
  BY TourAssumption
<1>2. pairs \in SUBSET (Nat \X Nat) /\ IsFiniteSet(pairs)
  <2>1. Nodes \subseteq Nat
    BY NodesFacts DEF Nodes
  <2>2. IsFiniteSet(Nodes \X Nodes)
    BY NodesFacts, FS_Product
  <2>3. pairs \subseteq Nodes \X Nodes
    OBVIOUS
  <2> QED
    BY <2>1, <2>2, <2>3, FS_Subset
<1>3. pairs # {}
  <2>1. <<0, 1>> \in pairs
    BY NodesFacts, ConstructionAssumption DEF Nodes
  <2> QED
    BY <2>1
<1>4. \E p \in pairs : \A q \in pairs \ {p} : f[p] < f[q] \/ (f[p] = f[q] /\ Before(p, q))
  <2>1. \A q \in pairs : f[q] \in Int
    BY <1>1
  <2> HIDE DEF f, pairs
  <2> QED
    BY <1>2, <1>3, <2>1, FirstOfLeast
<1>5. \E p \in pairs : \A q \in pairs \ {p} : C(p) > C(q) \/ (C(p) = C(q) /\ Before(p, q))
  <2>1. PICK p \in pairs : \A q \in pairs \ {p} : f[p] < f[q] \/ (f[p] = f[q] /\ Before(p, q))
    BY <1>4
  <2>2. ASSUME NEW q \in pairs \ {p}
        PROVE  C(p) > C(q) \/ (C(p) = C(q) /\ Before(p, q))
    <3>1. f[p] = -C(p) /\ f[q] = -C(q) /\ C(p) \in Nat /\ C(q) \in Nat
      BY <1>1
    <3> HIDE DEF f, C, pairs
    <3> QED
      BY <2>1, <3>1
  <2> HIDE DEF C, pairs
  <2> QED
    BY <2>2
<1>6. d \in pairs
  BY <1>5 DEF Diameter
<1> QED
  BY <1>6 DEF d

-----------------------------------------------------------------------------
\* The legs of a list that is closed to a cycle.
Around(s) == [x \in 1 .. Len(s) |-> Cost[s[x]][s[After(x, Len(s))]]]

\* They are integers, and they add up to the cost of the cycle.
LEMMA AroundIs ==
  ASSUME NEW s \in Seq(Nodes), Len(s) # 0
  PROVE  /\ CycleCost(s) = Total(Around(s), Len(s))
         /\ \A x \in 1 .. Len(s) : Around(s)[x] \in Int
<1>1. CycleCost(s) = Total(Around(s), Len(s))
  BY DEF CycleCost, Around, After
<1>2. Len(s) \in Nat \ {0}
  OBVIOUS
<1>3. ASSUME NEW x \in 1 .. Len(s)
      PROVE  Around(s)[x] \in Int
  <2>1. s[x] \in Nodes /\ s[After(x, Len(s))] \in Nodes
    <3>1. After(x, Len(s)) \in 1 .. Len(s)
      BY <1>2, AfterIs
    <3> QED
      BY <3>1
  <2>2. Cost[s[x]][s[After(x, Len(s))]] \in Int
    BY <2>1, TourAssumption
  <2> QED
    BY <2>2 DEF Around
<1> QED
  BY <1>1, <1>3

\* An insertion replaces the p-th leg by two.
LEMMA LegsAfterInsertion ==
  ASSUME NEW s \in Seq(Nodes), NEW h \in Nodes, NEW p \in 1 .. Len(s),
         NEW r \in Seq(Nodes), HasInserted(r, s, p + 1, h)
  PROVE  /\ \A x \in 1 .. p - 1 : Around(r)[x] = Around(s)[x]
         /\ Around(r)[p] = Cost[s[p]][h]
         /\ Around(r)[p + 1] = Cost[h][s[After(p, Len(s))]]
         /\ \A x \in p + 2 .. Len(s) + 1 : Around(r)[x] = Around(s)[x - 1]
<1> DEFINE n == Len(s)
<1>1. n \in Nat \ {0} /\ p \in 1 .. n /\ p \in Nat /\ n + 1 \in Nat \ {0} /\ (n + 1) - 1 = n
  OBVIOUS
<1> HIDE DEF n
<1>2. /\ Len(r) = n + 1 /\ r[p + 1] = h
      /\ \A x \in 1 .. p : r[x] = s[x]
      /\ \A x \in p + 2 .. n + 1 : r[x] = s[x - 1]
  BY <1>1 DEF HasInserted, n
<1>3. /\ \A x \in 1 .. n : Around(s)[x] = Cost[s[x]][s[After(x, n)]]
      /\ \A x \in 1 .. n + 1 : Around(r)[x] = Cost[r[x]][r[After(x, n + 1)]]
  BY <1>2 DEF Around, n
<1>4. /\ \A x \in 1 .. n - 1 : After(x, n) = x + 1
      /\ After(n, n) = 1
      /\ \A x \in 1 .. n : After(x, n + 1) = x + 1
      /\ After(n + 1, n + 1) = 1
  BY <1>1, AfterIs
<1>5. r[1] = s[1]
  BY <1>1, <1>2
<1>6. ASSUME NEW x \in 1 .. p - 1
      PROVE  Around(r)[x] = Around(s)[x]
  <2>1. x \in 1 .. n - 1 /\ x \in 1 .. n /\ x \in 1 .. n + 1 /\ x + 1 \in 1 .. p /\ x \in 1 .. p
    BY <1>1
  <2>2. r[x] = s[x] /\ r[x + 1] = s[x + 1]
    BY <1>2, <2>1
  <2> QED
    BY <1>3, <1>4, <2>1, <2>2
<1>7. Around(r)[p] = Cost[s[p]][h]
  <2>1. p \in 1 .. n + 1 /\ r[p] = s[p] /\ p \in 1 .. p
    BY <1>1, <1>2
  <2> QED
    BY <1>1, <1>2, <1>3, <1>4, <2>1
<1>8. Around(r)[p + 1] = Cost[h][s[After(p, n)]]
  <2>1. p + 1 \in 1 .. n + 1
    BY <1>1
  <2>2. r[After(p + 1, n + 1)] = s[After(p, n)]
    <3>1. CASE p = n
      BY <1>4, <1>5, <3>1
    <3>2. CASE p # n
      <4>1. p + 2 \in p + 2 .. n + 1 /\ (p + 2) - 1 = p + 1 /\ (p + 1) + 1 = p + 2
            /\ p + 1 \in 1 .. n /\ p \in 1 .. n - 1
        BY <1>1, <3>2
      <4>2. r[p + 2] = s[p + 1]
        BY <1>2, <4>1
      <4> QED
        BY <1>4, <4>1, <4>2
    <3> QED
      BY <3>1, <3>2
  <2> QED
    BY <1>2, <1>3, <2>1, <2>2
<1>9. ASSUME NEW x \in p + 2 .. n + 1
      PROVE  Around(r)[x] = Around(s)[x - 1]
  <2>1. x \in 1 .. n + 1 /\ x - 1 \in 1 .. n
    BY <1>1
  <2>2. r[x] = s[x - 1]
    BY <1>2
  <2>3. r[After(x, n + 1)] = s[After(x - 1, n)]
    <3>1. CASE x = n + 1
      BY <1>1, <1>4, <1>5, <3>1
    <3>2. CASE x # n + 1
      <4>1. x + 1 \in p + 2 .. n + 1 /\ (x + 1) - 1 = x /\ x \in 1 .. n
            /\ x - 1 \in 1 .. n - 1 /\ (x - 1) + 1 = x
        BY <1>1, <3>2
      <4>2. r[x + 1] = s[x]
        BY <1>2, <4>1
      <4> QED
        BY <1>4, <4>1, <4>2
    <3> QED
      BY <3>1, <3>2
  <2> QED
    BY <1>3, <2>1, <2>2, <2>3
<1> QED
  BY <1>6, <1>7, <1>8, <1>9 DEF n

\* A sum in which one term is replaced by two.
SplitAt(p, n, f, g, a, b, d) ==
  /\ \A x \in 1 .. n : f[x] \in Int
  /\ \A x \in 1 .. p - 1 : g[x] = f[x]
  /\ g[p] = a /\ g[p + 1] = b /\ d = a + b - f[p]
  /\ \A x \in p + 2 .. n + 1 : g[x] = f[x - 1]

LEMMA TotalOfSplit ==
  ASSUME NEW n \in Nat, NEW f, NEW g, NEW p \in 1 .. n, NEW a \in Int, NEW b \in Int,
         NEW d \in Int, SplitAt(p, n, f, g, a, b, d)
  PROVE  Total(f, n) \in Int /\ Total(g, n + 1) = Total(f, n) + d
<1>0. /\ \A x \in 1 .. n : f[x] \in Int
      /\ \A x \in 1 .. p - 1 : g[x] = f[x]
      /\ g[p] = a /\ g[p + 1] = b /\ d = a + b - f[p]
      /\ \A x \in p + 2 .. n + 1 : g[x] = f[x - 1]
  BY DEF SplitAt
<1>1. p \in Nat
  OBVIOUS
<1>2. PICK u : AddsUp(u, f, n)
  BY <1>0, SumExists
<1>3. /\ \A x \in 0 .. n : u[x] \in Int
      /\ u[0] = 0 /\ \A x \in 1 .. n : u[x] = u[x - 1] + f[x]
  BY <1>2 DEF AddsUp
<1> DEFINE w == [x \in 0 .. n + 1 |-> IF x < p THEN u[x]
                                     ELSE IF x = p THEN u[p - 1] + a ELSE u[x - 1] + d]
<1>4. ASSUME NEW x \in 0 .. n + 1
      PROVE  w[x] \in Int
  <2>1. CASE x < p
    BY <1>1, <1>3, <2>1
  <2>2. CASE x = p
    <3>1. u[p - 1] \in Int
      BY <1>1, <1>3
    <3> QED
      BY <2>2, <3>1
  <2>3. CASE p < x
    <3>1. u[x - 1] \in Int
      BY <1>1, <1>3, <2>3
    <3>2. w[x] = u[x - 1] + d
      BY <1>1, <2>3
    <3> HIDE DEF w
    <3> QED
      BY <1>1, <3>1, <3>2
  <2> QED
    BY <1>1, <2>1, <2>2, <2>3
<1>5. w \in [0 .. n + 1 -> Int] /\ w[0] = 0
  <2>1. w[0] = 0
    BY <1>1, <1>3
  <2>2. w = [x \in 0 .. n + 1 |-> w[x]]
    OBVIOUS
  <2> HIDE DEF w
  <2> QED
    BY <1>4, <2>1, <2>2
<1>6. ASSUME NEW x \in 1 .. n + 1
      PROVE  w[x] = w[x - 1] + g[x]
  <2>1. CASE x < p
    <3>1. x \in 1 .. p - 1 /\ x \in 1 .. n
      BY <1>1, <2>1
    <3>2. w[x] = u[x] /\ w[x - 1] = u[x - 1]
      BY <1>1, <2>1
    <3> QED
      BY <1>0, <1>3, <3>1, <3>2
  <2>2. CASE x = p
    <3>1. w[p] = u[p - 1] + a /\ w[p - 1] = u[p - 1]
      BY <1>1
    <3> QED
      BY <1>0, <2>2, <3>1
  <2>3. CASE x = p + 1
    <3>1. w[x] = u[p] + d /\ w[x - 1] = u[p - 1] + a /\ g[x] = b
      BY <1>0, <1>1, <2>3
    <3>2. u[p] = u[p - 1] + f[p] /\ u[p - 1] \in Int /\ f[p] \in Int
      BY <1>0, <1>1, <1>3
    <3> HIDE DEF w
    <3> QED
      BY <1>0, <3>1, <3>2
  <2>4. CASE p + 1 < x
    <3>1. x \in p + 2 .. n + 1 /\ x - 1 \in 1 .. n /\ (x - 1) - 1 \in 0 .. n
      BY <1>1, <2>4
    <3>2. w[x] = u[x - 1] + d /\ w[x - 1] = u[(x - 1) - 1] + d
      BY <1>1, <2>4
    <3>3. u[x - 1] = u[(x - 1) - 1] + f[x - 1] /\ f[x - 1] \in Int /\ u[(x - 1) - 1] \in Int
      BY <1>0, <1>3, <3>1
    <3>4. g[x] = f[x - 1]
      BY <1>0, <3>1
    <3> HIDE DEF w
    <3> QED
      BY <1>1, <3>2, <3>3, <3>4
  <2> QED
    BY <1>1, <2>1, <2>2, <2>3, <2>4
<1>7. w[n + 1] = u[n] + d
  BY <1>1
<1> HIDE DEF w
<1>8. AddsUp(w, g, n + 1)
  BY <1>5, <1>6 DEF AddsUp
<1>9. Total(f, n) = u[n] /\ Total(g, n + 1) = w[n + 1]
  BY <1>2, <1>8, TotalIs
<1>10. u[n] \in Int
  BY <1>3
<1> QED
  BY <1>7, <1>9, <1>10

\* An insertion lengthens the closed list by the detour.
LEMMA CycleCostGrows ==
  ASSUME NEW s \in Seq(Nodes), NEW h \in Nodes, NEW p \in 1 .. Len(s)
  PROVE  /\ CycleCost(s) \in Int
         /\ CycleCost(InsertAt(s, p + 1, h)) = CycleCost(s) + Detour(s, h, p)
<1> DEFINE n == Len(s)
           r == InsertAt(s, p + 1, h)
           a == Cost[s[p]][h]
           b == Cost[h][s[After(p, n)]]
<1>1. n \in Nat \ {0} /\ p \in 1 .. n
  OBVIOUS
<1>2. r \in Seq(Nodes) /\ HasInserted(r, s, p + 1, h)
  BY InsertIs
<1>3. Len(r) = n + 1
  BY <1>2 DEF HasInserted
<1> HIDE DEF r
<1>4. a \in Int /\ b \in Int
  <2>1. s[p] \in Nodes /\ s[After(p, n)] \in Nodes
    <3>1. After(p, n) \in 1 .. n
      BY <1>1, AfterIs
    <3> QED
      BY <3>1
  <2> QED
    BY <2>1, TourAssumption
<1>5. /\ \A x \in 1 .. p - 1 : Around(r)[x] = Around(s)[x]
      /\ Around(r)[p] = a
      /\ Around(r)[p + 1] = b
      /\ \A x \in p + 2 .. n + 1 : Around(r)[x] = Around(s)[x - 1]
  BY <1>2, LegsAfterInsertion
<1>6. CycleCost(s) = Total(Around(s), n) /\ \A x \in 1 .. n : Around(s)[x] \in Int
  BY <1>1, AroundIs
<1>6a. CycleCost(r) = Total(Around(r), n + 1)
  <2>1. Len(r) # 0
    BY <1>1, <1>3
  <2> QED
    BY <1>2, <1>3, <2>1, AroundIs
<1> DEFINE d == Detour(s, h, p)
<1>7. d \in Int /\ d = a + b - Around(s)[p]
  BY DetourInt DEF Around
<1>8. Total(Around(s), n) \in Int /\ Total(Around(r), n + 1) = Total(Around(s), n) + d
  <2>1. n \in Nat /\ p \in 1 .. n
    BY <1>1
  <2> HIDE DEF n, a, b, d
  <2>2. SplitAt(p, n, Around(s), Around(r), a, b, d)
    BY <1>5, <1>6, <1>7 DEF SplitAt
  <2> QED
    BY <1>4, <1>7, <2>1, <2>2, TotalOfSplit
<1> HIDE DEF n
<1> QED
  BY <1>6, <1>6a, <1>8 DEF r

-----------------------------------------------------------------------------
\* An array that holds every node once is closed to a tour.
LEMMA CloseIs ==
  ASSUME NEW s \in [1 .. NumNodes -> Nodes], IsInjective(s)
  PROVE  /\ Close(s) \in Arrays /\ IsTour(Close(s)) /\ Close(s) # Unfinished
         /\ \A x \in Nodes : Close(s)[x] = s[x + 1]
         /\ Close(s)[NumNodes] = s[1]
<1> DEFINE t == Close(s)
<1>1. NumNodes \in Nat \ {0} /\ \A x \in Nodes : x \in Nat /\ x + 1 \in 1 .. NumNodes
  BY NodesFacts DEF Nodes
<1>2. /\ t \in [Positions -> Nodes]
      /\ \A x \in Nodes : t[x] = s[x + 1]
      /\ t[NumNodes] = s[1]
  <2> DEFINE r == [p \in Positions |-> s[(p % NumNodes) + 1]]
  <2>1. /\ r \in [Positions -> Nodes]
        /\ \A x \in Nodes : r[x] = s[x + 1]
        /\ r[NumNodes] = s[1]
    BY ReconstructAt
  <2>2. t = r
    BY DEF Close
  <2> HIDE DEF r, t
  <2> QED
    BY <2>1, <2>2
<1> HIDE DEF t
<1>3. \A x, y \in 1 .. NumNodes : s[x] = s[y] => x = y
  BY DEF IsInjective
<1>4. \A x, y \in Nodes : t[x] = t[y] => x = y
  BY <1>1, <1>2, <1>3
<1>5. t[NumNodes] = t[0]
  BY <1>2, NodesFacts
<1>6. t # <<>>
  <2>1. DOMAIN t = Positions /\ 0 \in Positions
    BY <1>1, <1>2 DEF Positions
  <2>2. DOMAIN <<>> = {}
    OBVIOUS
  <2> QED
    BY <2>1, <2>2
<1> QED
  BY <1>2, <1>4, <1>5, <1>6 DEF IsTour, Arrays, Unfinished, t

\* What is travelled along the array, and how it grows.
Along(s) == [x \in 1 .. NumNodes - 1 |-> Cost[s[x]][s[x + 1]]]

LEMMA AlongFacts ==
  ASSUME NEW s \in [1 .. NumNodes -> Nodes]
  PROVE  /\ Total(Along(s), 0) = 0
         /\ \A x \in 0 .. NumNodes - 1 : Total(Along(s), x) \in Int
         /\ \A x \in 1 .. NumNodes - 1 :
              Total(Along(s), x) = Total(Along(s), x - 1) + Cost[s[x]][s[x + 1]]
<1>1. NumNodes \in Nat \ {0} /\ NumNodes - 1 \in Nat
  BY NodesFacts
<1>2. ASSUME NEW x \in 1 .. NumNodes - 1
      PROVE  Along(s)[x] \in Int /\ Along(s)[x] = Cost[s[x]][s[x + 1]]
  <2>1. x \in 1 .. NumNodes /\ x + 1 \in 1 .. NumNodes
    BY <1>1
  <2>2. s[x] \in Nodes /\ s[x + 1] \in Nodes
    BY <2>1
  <2> QED
    BY <2>2, TourAssumption DEF Along
<1>3. /\ Total(Along(s), 0) = 0
      /\ \A x \in 0 .. NumNodes - 1 : Total(Along(s), x) \in Int
      /\ \A x \in 1 .. NumNodes - 1 :
           Total(Along(s), x) = Total(Along(s), x - 1) + Along(s)[x]
  BY <1>1, <1>2, TotalStep
<1> QED
  BY <1>2, <1>3

\* The way along the array and the step back to its first node are the tour.
LEMMA ClosedCost ==
  ASSUME NEW s \in [1 .. NumNodes -> Nodes], IsInjective(s)
  PROVE  TourCost(Close(s)) = Total(Along(s), NumNodes - 1) + Cost[s[NumNodes]][s[1]]
<1> DEFINE N == NumNodes
           t == Close(s)
           back == Cost[s[N]][s[1]]
           A(x) == Total(Along(s), x)
           u == [x \in Positions |-> IF x = N THEN A(N - 1) + back ELSE A(x)]
<1>1. N \in Nat \ {0} /\ Positions = 0 .. N
  BY NodesFacts DEF Positions
<1>2. /\ t \in Arrays
      /\ \A x \in Nodes : t[x] = s[x + 1]
      /\ t[N] = s[1]
  BY CloseIs
<1>3. /\ A(0) = 0 /\ \A x \in 0 .. N - 1 : A(x) \in Int
      /\ \A x \in 1 .. N - 1 : A(x) = A(x - 1) + Cost[s[x]][s[x + 1]]
  BY AlongFacts
<1>4. back \in Int
  <2>1. s[N] \in Nodes /\ s[1] \in Nodes
    BY <1>1
  <2> QED
    BY <2>1, TourAssumption
<1> HIDE DEF t, A
<1>5. u \in [Positions -> Int]
  <2> SUFFICES ASSUME NEW x \in Positions
               PROVE  u[x] \in Int
    OBVIOUS
  <2>1. CASE x = N
    <3>1. A(N - 1) \in Int
      BY <1>1, <1>3
    <3> HIDE DEF back
    <3> QED
      BY <1>4, <2>1, <3>1
  <2>2. CASE x # N
    BY <1>1, <1>3, <2>2
  <2> QED
    BY <2>1, <2>2
<1>6. u[0] = 0
  BY <1>1, <1>3
<1>7. ASSUME NEW x \in 1 .. N
      PROVE  u[x] = u[x - 1] + Cost[t[x - 1]][t[x]]
  <2>1. x \in Positions /\ x - 1 \in Positions /\ x - 1 \in Nodes /\ x - 1 # N /\ (x - 1) + 1 = x
    BY <1>1 DEF Nodes
  <2>2. u[x - 1] = A(x - 1) /\ t[x - 1] = s[x]
    BY <1>2, <2>1
  <2>3. CASE x = N
    BY <1>2, <2>1, <2>2, <2>3
  <2>4. CASE x # N
    <3>1. x \in Nodes /\ x \in 1 .. N - 1
      BY <1>1, <2>4 DEF Nodes
    <3>2. u[x] = A(x) /\ t[x] = s[x + 1]
      BY <1>2, <2>1, <2>4, <3>1
    <3> QED
      BY <1>3, <2>2, <3>1, <3>2
  <2> QED
    BY <2>3, <2>4
<1>8. u[N] = A(N - 1) + back
  BY <1>1
<1> HIDE DEF u
<1>9. TourCost(t) = u[N]
  BY <1>2, <1>5, <1>6, <1>7, CostByParts
<1> QED
  BY <1>8, <1>9 DEF t, A

\* The next node in the array adds its distance to the way.
LEMMA AlongGrows ==
  ASSUME NEW s \in [1 .. NumNodes -> Nodes], NEW r \in [1 .. NumNodes -> Nodes],
         NEW n \in 1 .. NumNodes - 1, \A x \in 1 .. n : r[x] = s[x]
  PROVE  Total(Along(r), n) = Total(Along(s), n - 1) + Cost[s[n]][r[n + 1]]
<1>1. NumNodes \in Nat \ {0} /\ n \in Nat
  BY NodesFacts
<1> DEFINE S == {m \in Nat : m <= n - 1 => Total(Along(r), m) = Total(Along(s), m)}
<1>2. 0 \in S
  BY AlongFacts
<1>3. ASSUME NEW m \in Nat, m \in S
      PROVE  m + 1 \in S
  <2> SUFFICES ASSUME m + 1 <= n - 1
               PROVE  Total(Along(r), m + 1) = Total(Along(s), m + 1)
    OBVIOUS
  <2>1. /\ m + 1 \in 1 .. NumNodes - 1 /\ (m + 1) - 1 = m
        /\ m + 1 \in 1 .. n /\ (m + 1) + 1 \in 1 .. n
    BY <1>1
  <2>2. Total(Along(r), m) = Total(Along(s), m)
    BY <1>1, <1>3
  <2>3. /\ Total(Along(r), m + 1) = Total(Along(r), m) + Cost[r[m + 1]][r[(m + 1) + 1]]
        /\ Total(Along(s), m + 1) = Total(Along(s), m) + Cost[s[m + 1]][s[(m + 1) + 1]]
    BY <2>1, AlongFacts
  <2>4. r[m + 1] = s[m + 1] /\ r[(m + 1) + 1] = s[(m + 1) + 1]
    BY <2>1
  <2> QED
    BY <2>2, <2>3, <2>4
<1>4. Nat \subseteq S
  <2> HIDE DEF S
  <2> QED
    BY <1>2, <1>3, Induct
<1>5. Total(Along(r), n - 1) = Total(Along(s), n - 1)
  <2>1. n - 1 \in S
    BY <1>1, <1>4
  <2> QED
    BY <1>1, <2>1
<1>6. Total(Along(r), n) = Total(Along(r), n - 1) + Cost[r[n]][r[n + 1]]
  BY AlongFacts
<1>7. r[n] = s[n]
  BY <1>1
<1> QED
  BY <1>5, <1>6, <1>7

-----------------------------------------------------------------------------
\* The restricted candidate list.  A sequence without its last entry.
LEMMA FrontIs ==
  ASSUME NEW S, NEW s \in Seq(S), Len(s) # 0
  PROVE  /\ Front(s) \in Seq(S) /\ Len(Front(s)) = Len(s) - 1
         /\ \A x \in 1 .. Len(s) - 1 : Front(s)[x] = s[x]
<1>1. Len(s) \in Nat \ {0} /\ \A x \in 1 .. Len(s) - 1 : s[x] \in S
  OBVIOUS
<1> DEFINE n == Len(s) - 1
<1>2. n \in Nat /\ \A x \in 1 .. n : s[x] \in S
  BY <1>1
<1> HIDE DEF n
<1>3. SubSeq(s, 1, n) \in Seq(S) /\ Len(SubSeq(s, 1, n)) = n
  BY <1>2, SubSeqProperties
<1>4. \A x \in 1 .. n : SubSeq(s, 1, n)[x] = s[x]
  BY <1>2, SubSeqProperties
<1> QED
  BY <1>3, <1>4 DEF Front, n

\* The array of the greedy builders while the list is made.
Greedy == list \in [1 .. NumNodes -> Nodes] /\ placed \in 1 .. NumNodes

LEMMA DistanceInt ==
  ASSUME Greedy
  PROVE  \A j \in 1 .. NumNodes : Distance(j) \in Int
<1>1. list[placed] \in Nodes /\ \A j \in 1 .. NumNodes : list[j] \in Nodes
  BY DEF Greedy
<1> QED
  BY <1>1, TourAssumption DEF Distance

\* Where candidate j goes: before the first one that costs more.
Place(q, j) ==
  LET after == {k \in 1 .. Len(q) : Distance(j) < Distance(q[k])}
  IN  IF after = {} THEN Len(q) + 1 ELSE Min(after)

IsPlace(k, q, j) ==
  /\ k \in 1 .. Len(q) + 1
  /\ \A l \in 1 .. Len(q) : l < k => ~(Distance(j) < Distance(q[l]))
  /\ k <= Len(q) => Distance(j) < Distance(q[k])

LEMMA PlaceIs ==
  ASSUME NEW q \in Seq(1 .. NumNodes), NEW j
  PROVE  IsPlace(Place(q, j), q, j)
<1> DEFINE after == {k \in 1 .. Len(q) : Distance(j) < Distance(q[k])}
<1>1. Len(q) \in Nat /\ after \in SUBSET (1 .. Len(q)) /\ after \in SUBSET Nat
  OBVIOUS
<1>2. CASE after = {}
  <2>1. Place(q, j) = Len(q) + 1
    BY <1>2 DEF Place
  <2> QED
    BY <1>1, <1>2, <2>1 DEF IsPlace
<1>3. CASE after # {}
  <2>1. Place(q, j) = Min(after)
    BY <1>3 DEF Place
  <2>2. Min(after) \in after /\ \A y \in after : Min(after) <= y
    <3> HIDE DEF after
    <3> QED
      BY <1>1, <1>3, MinIs
  <2> DEFINE m == Min(after)
  <2> HIDE DEF m
  <2>3. m \in after /\ \A y \in after : m <= y
    BY <2>2 DEF m
  <2>4. \A l \in 1 .. Len(q) : l < m => l \notin after
    BY <1>1, <2>3
  <2> QED
    BY <1>1, <2>1, <2>3, <2>4 DEF m, IsPlace
<1> QED
  BY <1>2, <1>3

\* The list after x candidates.
IsRcl(q, x) ==
  /\ q \in Seq(1 .. NumNodes) /\ IsInjective(q)
  /\ ToSet(q) \subseteq placed + 1 .. placed + x
  /\ x <= RclSize => Len(q) = x /\ ToSet(q) = placed + 1 .. placed + x
  /\ RclSize <= x => Len(q) = RclSize
  /\ \A k, l \in 1 .. Len(q) : k < l => Distance(q[k]) <= Distance(q[l])
  /\ \A y \in (placed + 1 .. placed + x) \ ToSet(q) :
       \A k \in 1 .. Len(q) : Distance(q[k]) <= Distance(y)

\* The candidate inserted, and nothing dropped yet: the list is in order, and all but its last
\* entry are at most as dear as what has been left out before.
LEMMA GrownIs ==
  ASSUME Greedy, NEW x \in Nat, placed + x + 1 <= NumNodes, NEW q, IsRcl(q, x)
  PROVE  LET j == placed + x + 1
             g == InsertAt(q, Place(q, j), j)
         IN  /\ g \in Seq(1 .. NumNodes) /\ Len(g) = Len(q) + 1 /\ IsInjective(g)
             /\ ToSet(g) = ToSet(q) \cup {j}
             /\ \A a, b \in 1 .. Len(g) : a < b => Distance(g[a]) <= Distance(g[b])
             /\ \A y \in (placed + 1 .. placed + x) \ ToSet(q) :
                  \A a \in 1 .. Len(g) - 1 : Distance(g[a]) <= Distance(y)
<1> DEFINE j == placed + x + 1
           k == Place(q, j)
           g == InsertAt(q, k, j)
           n == Len(q)
           D(y) == Distance(y)
<1>1. /\ q \in Seq(1 .. NumNodes) /\ IsInjective(q)
      /\ ToSet(q) \subseteq placed + 1 .. placed + x
  BY DEF IsRcl
<1>2. /\ placed \in Nat /\ NumNodes \in Nat /\ n \in Nat /\ j \in 1 .. NumNodes
      /\ placed + x < j
  BY <1>1, NodesFacts DEF Greedy
<1>3. j \notin ToSet(q)
  BY <1>1, <1>2
<1>4. \A y \in 1 .. NumNodes : D(y) \in Int
  BY DistanceInt
<1>5. /\ k \in 1 .. n + 1
      /\ \A l \in 1 .. n : l < k => ~(D(j) < D(q[l]))
      /\ k <= n => D(j) < D(q[k])
  <2>1. IsPlace(k, q, j)
    BY <1>1, PlaceIs
  <2> HIDE DEF j, k
  <2> QED
    BY <2>1 DEF IsPlace
<1>6. \A l \in 1 .. n : q[l] \in 1 .. NumNodes
  BY <1>1, EntriesOf
<1> HIDE DEF j, k, n
<1>7. g \in Seq(1 .. NumNodes) /\ HasInserted(g, q, k, j)
  BY <1>1, <1>2, <1>5, InsertIs DEF n
<1>8. IsInjective(g) /\ ToSet(g) = ToSet(q) \cup {j}
  BY <1>1, <1>2, <1>3, <1>5, InsertGrows, InsertKeepsDistinct DEF n
<1> HIDE DEF g, D
<1>9. /\ Len(g) = n + 1 /\ g[k] = j
      /\ \A a \in 1 .. k - 1 : g[a] = q[a]
      /\ \A a \in k + 1 .. n + 1 : g[a] = q[a - 1]
  BY <1>7 DEF HasInserted, n
<1>10. \A l, m \in 1 .. n : l < m => D(q[l]) <= D(q[m])
  BY DEF IsRcl, n, D
<1>11. \A l \in 1 .. n : l < k => D(q[l]) <= D(j)
  BY <1>2, <1>4, <1>5, <1>6
<1>12. ASSUME NEW l \in 1 .. n, k <= l
       PROVE  D(j) <= D(q[l])
  <2>1. k \in 1 .. n /\ D(j) < D(q[k])
    BY <1>2, <1>5, <1>12
  <2>2. D(q[k]) <= D(q[l])
    <3>1. D(q[k]) \in Int /\ D(q[l]) \in Int
      BY <1>4, <1>6, <2>1
    <3>2. k = l \/ k < l
      BY <1>2, <1>5, <1>12
    <3> QED
      BY <1>10, <2>1, <3>1, <3>2
  <2>3. D(j) \in Int /\ D(q[k]) \in Int /\ D(q[l]) \in Int
    BY <1>2, <1>4, <1>6, <2>1
  <2> QED
    BY <2>1, <2>2, <2>3
<1>13. ASSUME NEW a \in 1 .. n + 1, NEW b \in 1 .. n + 1, a < b
       PROVE  D(g[a]) <= D(g[b])
  <2>1. CASE b < k
    <3>1. a \in 1 .. k - 1 /\ b \in 1 .. k - 1 /\ a \in 1 .. n /\ b \in 1 .. n
      BY <1>2, <1>5, <1>13, <2>1
    <3> QED
      BY <1>9, <1>10, <1>13, <3>1
  <2>2. CASE b = k
    <3>1. a \in 1 .. k - 1 /\ a \in 1 .. n /\ a < k
      BY <1>2, <1>5, <1>13, <2>2
    <3> QED
      BY <1>9, <1>11, <2>2, <3>1
  <2>3. CASE a < k /\ k < b
    <3>1. /\ a \in 1 .. k - 1 /\ a \in 1 .. n
          /\ b \in k + 1 .. n + 1 /\ b - 1 \in 1 .. n /\ a < b - 1
      BY <1>2, <1>5, <2>3
    <3> QED
      BY <1>9, <1>10, <3>1
  <2>4. CASE a = k
    <3>1. b \in k + 1 .. n + 1 /\ b - 1 \in 1 .. n /\ k <= b - 1
      BY <1>2, <1>5, <1>13, <2>4
    <3> QED
      BY <1>9, <1>12, <2>4, <3>1
  <2>5. CASE k < a
    <3>1. /\ a \in k + 1 .. n + 1 /\ a - 1 \in 1 .. n
          /\ b \in k + 1 .. n + 1 /\ b - 1 \in 1 .. n /\ a - 1 < b - 1
      BY <1>2, <1>5, <1>13, <2>5
    <3> QED
      BY <1>9, <1>10, <3>1
  <2> QED
    BY <1>2, <1>5, <1>13, <2>1, <2>2, <2>3, <2>4, <2>5
<1>14. ASSUME NEW y \in (placed + 1 .. placed + x) \ ToSet(q), NEW a \in 1 .. n
       PROVE  D(g[a]) <= D(y)
  <2>1. \A l \in 1 .. n : D(q[l]) <= D(y)
    BY DEF IsRcl, n, D
  <2>2. CASE a < k
    <3>1. a \in 1 .. k - 1
      BY <1>2, <1>5, <2>2
    <3> QED
      BY <1>9, <2>1, <3>1
  <2>3. CASE a = k
    <3>1. D(j) <= D(q[k]) /\ D(q[k]) <= D(y)
      BY <1>5, <1>12, <2>1, <2>3
    <3>2. D(j) \in Int /\ D(q[k]) \in Int /\ D(y) \in Int
      <4>1. y \in 1 .. NumNodes
        BY <1>2
      <4> QED
        BY <1>2, <1>4, <1>6, <2>3, <4>1
    <3> QED
      BY <1>9, <2>3, <3>1, <3>2
  <2>4. CASE k < a
    <3>1. a \in k + 1 .. n + 1 /\ a - 1 \in 1 .. n
      BY <1>2, <1>5, <2>4
    <3> QED
      BY <1>9, <2>1, <3>1
  <2> QED
    BY <1>2, <1>5, <2>2, <2>3, <2>4
<1>15. Len(g) - 1 = n
  BY <1>2, <1>9
<1>16. /\ \A a, b \in 1 .. Len(g) : a < b => Distance(g[a]) <= Distance(g[b])
       /\ \A y \in (placed + 1 .. placed + x) \ ToSet(q) :
            \A a \in 1 .. Len(g) - 1 : Distance(g[a]) <= Distance(y)
  BY <1>9, <1>13, <1>14, <1>15 DEF D
<1> QED
  BY <1>7, <1>8, <1>9, <1>16 DEF g, j, k, n

\* One more candidate is ranked.
LEMMA RankOne ==
  ASSUME Greedy, NEW x \in Nat, placed + x + 1 <= NumNodes, NEW q, IsRcl(q, x)
  PROVE  IsRcl(Ranked(q, placed + x + 1), x + 1)
<1> DEFINE j == placed + x + 1
           g == InsertAt(q, Place(q, j), j)
           f == Front(g)
           r == Ranked(q, j)
           R(y) == placed + 1 .. placed + y
<1>1. /\ g \in Seq(1 .. NumNodes) /\ Len(g) = Len(q) + 1 /\ IsInjective(g)
      /\ ToSet(g) = ToSet(q) \cup {j}
      /\ \A a, b \in 1 .. Len(g) : a < b => Distance(g[a]) <= Distance(g[b])
      /\ \A y \in R(x) \ ToSet(q) : \A a \in 1 .. Len(g) - 1 : Distance(g[a]) <= Distance(y)
  BY GrownIs
<1>2. r = IF Len(g) > RclSize THEN f ELSE g
  BY DEF Ranked, Place
<1>3. /\ q \in Seq(1 .. NumNodes) /\ ToSet(q) \subseteq R(x)
      /\ x <= RclSize => Len(q) = x /\ ToSet(q) = R(x)
      /\ RclSize <= x => Len(q) = RclSize
  BY DEF IsRcl
<1>4. /\ placed \in Nat /\ NumNodes \in Nat /\ RclSize \in Nat \ {0}
      /\ R(x + 1) = R(x) \cup {j} /\ j \notin R(x)
  BY NodesFacts, ConstructionAssumption DEF Greedy
<1> HIDE DEF j, g, f, r, R
<1>5. Len(q) \in Nat
  BY <1>3, EntriesOf
<1>6. R(x + 1) = placed + 1 .. placed + (x + 1)
  BY DEF R
<1>7. CASE x + 1 <= RclSize
  <2>1. Len(q) = x /\ ToSet(q) = R(x)
    BY <1>3, <1>4, <1>7
  <2>2. r = g /\ Len(g) = x + 1 /\ ToSet(g) = R(x + 1)
    BY <1>1, <1>2, <1>4, <1>7, <2>1
  <2>3. RclSize <= x + 1 => Len(g) = RclSize
    BY <1>4, <1>7, <2>2
  <2>4. /\ ToSet(g) \subseteq R(x + 1)
        /\ \A y \in R(x + 1) \ ToSet(g) : \A k \in 1 .. Len(g) : Distance(g[k]) <= Distance(y)
    BY <2>2
  <2>5. IsRcl(g, x + 1)
    BY <1>1, <1>6, <2>2, <2>3, <2>4 DEF IsRcl
  <2> QED
    BY <2>2, <2>5 DEF r, j
<1>8. CASE RclSize <= x
  <2>1. Len(q) = RclSize /\ Len(g) = RclSize + 1 /\ r = f
    BY <1>1, <1>2, <1>3, <1>4, <1>8
  <2>2. /\ f \in Seq(1 .. NumNodes) /\ Len(f) = RclSize
        /\ \A a \in 1 .. RclSize : f[a] = g[a]
    <3>1. Len(g) # 0 /\ Len(g) - 1 = RclSize
      BY <1>4, <2>1
    <3> QED
      BY <1>1, <3>1, FrontIs DEF f
  <2>3. /\ DOMAIN f = 1 .. RclSize /\ DOMAIN g = 1 .. RclSize + 1
        /\ ToSet(f) = {f[a] : a \in 1 .. RclSize}
        /\ ToSet(g) = {g[a] : a \in 1 .. RclSize + 1}
    BY <1>1, <2>1, <2>2, EntriesOf
  <2>4. \A a \in 1 .. RclSize : a \in 1 .. RclSize + 1 /\ a < RclSize + 1
    BY <1>4
  <2>5. RclSize + 1 \in 1 .. RclSize + 1
        /\ \A a \in 1 .. RclSize + 1 : a \in 1 .. RclSize \/ a = RclSize + 1
    BY <1>4
  <2>6. IsInjective(f)
    BY <1>1, <2>2, <2>3, <2>4 DEF IsInjective
  <2>7. ToSet(f) \subseteq R(x + 1)
    BY <1>1, <1>3, <1>4, <2>2, <2>3, <2>4
  <2>8. \A k, l \in 1 .. RclSize : k < l => Distance(f[k]) <= Distance(f[l])
    BY <1>1, <2>1, <2>2, <2>4
  <2>9. ASSUME NEW y \in R(x + 1) \ ToSet(f), NEW k \in 1 .. RclSize
        PROVE  Distance(f[k]) <= Distance(y)
    <3>1. f[k] = g[k] /\ k \in 1 .. Len(g) - 1 /\ k \in 1 .. Len(g) /\ k < Len(g)
      BY <1>4, <2>1, <2>2
    <3>2. CASE y \in ToSet(g)
      <4>1. y = g[RclSize + 1]
        BY <2>2, <2>3, <2>5, <3>2
      <4> QED
        BY <1>1, <2>1, <2>5, <3>1, <4>1
    <3>3. CASE y \notin ToSet(g)
      <4>1. y \in R(x) \ ToSet(q)
        BY <1>1, <1>4, <3>3
      <4> QED
        BY <1>1, <3>1, <4>1
    <3> QED
      BY <3>2, <3>3
  <2>10. ~(x + 1 <= RclSize)
    BY <1>4, <1>8
  <2>11. IsRcl(f, x + 1)
    BY <1>6, <2>2, <2>6, <2>7, <2>8, <2>9, <2>10 DEF IsRcl
  <2> QED
    BY <2>1, <2>11 DEF r, j
<1> QED
  BY <1>4, <1>7, <1>8

\* The list is the one of all the candidates.
LEMMA RclIs ==
  ASSUME Greedy
  PROVE  IsRcl(Rcl, NumNodes - placed)
<1> DEFINE n == NumNodes - placed
           Q == Seq(1 .. NumNodes)
           One(q, x) == Ranked(q, placed + x)
           Loop(u) == [x \in 0 .. n |-> IF x = 0 THEN <<>> ELSE One(u[x - 1], x)]
           step == [x \in 1 .. n |-> [q \in Q |-> One(q, x)]]
           w == CHOOSE u : u = Loop(u)
<1>1. Rcl = w[n]
  BY DEF Rcl
<1>2. n \in Nat /\ placed \in Nat /\ NumNodes \in Nat /\ n = NumNodes - placed /\ <<>> \in Q
  BY NodesFacts DEF Greedy
<1>3. ASSUME NEW x \in 1 .. n, NEW q \in Q
      PROVE  One(q, x) \in Q
  <2> DEFINE j == placed + x
             g == InsertAt(q, Place(q, j), j)
  <2>1. One(q, x) = IF Len(g) > RclSize THEN Front(g) ELSE g
    BY DEF Ranked, Place
  <2>2. j \in 1 .. NumNodes
    BY <1>2
  <2> HIDE DEF j, n
  <2>3. g \in Q /\ Len(g) = Len(q) + 1
    <3>1. Place(q, j) \in 1 .. Len(q) + 1
      BY PlaceIs DEF IsPlace
    <3>2. g \in Seq(1 .. NumNodes) /\ HasInserted(g, q, Place(q, j), j)
      BY <2>2, <3>1, InsertIs
    <3> QED
      BY <3>2 DEF HasInserted
  <2> HIDE DEF g
  <2>4. Len(g) # 0
    BY <2>3
  <2>5. Front(g) \in Q
    BY <2>3, <2>4, FrontIs
  <2> QED
    BY <2>1, <2>3, <2>5
<1>4. PICK u : Passes(u, n, Q, <<>>, step)
  <2>1. step \in [1 .. n -> [Q -> Q]]
    <3> HIDE DEF One, n, Q
    <3> QED
      BY <1>3
  <2> HIDE DEF step, n, Q
  <2> QED
    BY <1>2, <2>1, LoopExists
<1>5. u = Loop(u)
  <2> HIDE DEF n, Q
  <2>1. \A x \in 1 .. n : u[x - 1] \in Q
    BY <1>2, <1>4 DEF Passes
  <2>2. \A x \in 1 .. n : step[x][u[x - 1]] = One(u[x - 1], x)
    BY <2>1
  <2>3. \A x \in 0 .. n : u[x] = IF x = 0 THEN <<>> ELSE One(u[x - 1], x)
    <3> HIDE DEF One, step
    <3> QED
      BY <1>2, <1>4, <2>2 DEF Passes
  <2> HIDE DEF One
  <2> QED
    BY <1>4, <2>3 DEF Passes
<1>6. w = Loop(w)
  <2> HIDE DEF Loop
  <2> QED
    BY <1>5
<1>7. \A x \in 0 .. n : w[x] = IF x = 0 THEN <<>> ELSE One(w[x - 1], x)
  <2> HIDE DEF w, One, n
  <2> QED
    BY <1>6
<1> HIDE DEF w, n
<1> DEFINE S == {m \in Nat : m <= n => IsRcl(w[m], m)}
<1>8. 0 \in S
  <2>1. w[0] = <<>>
    BY <1>2, <1>7
  <2>2. <<>> \in Seq(1 .. NumNodes) /\ Len(<<>>) = 0 /\ ToSet(<<>>) = {} /\ IsInjective(<<>>)
    BY DEF ToSet, IsInjective
  <2>3. placed + 1 .. placed + 0 = {} /\ RclSize \in Nat \ {0}
    BY <1>2, ConstructionAssumption
  <2>4. IsRcl(<<>>, 0)
    <3> DEFINE none == <<>>
    <3> HIDE DEF none
    <3>1. none \in Seq(1 .. NumNodes) /\ Len(none) = 0 /\ ToSet(none) = {} /\ IsInjective(none)
      BY <2>2 DEF none
    <3>2. IsRcl(none, 0)
      BY <2>3, <3>1 DEF IsRcl
    <3> QED
      BY <3>2 DEF none
  <2> QED
    BY <2>1, <2>4
<1>9. ASSUME NEW m \in Nat, m \in S
      PROVE  m + 1 \in S
  <2> SUFFICES ASSUME m + 1 <= n
               PROVE  IsRcl(w[m + 1], m + 1)
    OBVIOUS
  <2>1. m + 1 \in 0 .. n /\ m + 1 # 0 /\ (m + 1) - 1 = m /\ placed + (m + 1) = placed + m + 1
    BY <1>2
  <2>2. w[m + 1] = Ranked(w[m], placed + (m + 1))
    BY <1>7, <2>1
  <2>3. placed + m + 1 <= NumNodes
    BY <1>2
  <2>4. IsRcl(w[m], m)
    BY <1>2, <1>9
  <2>5. IsRcl(Ranked(w[m], placed + m + 1), m + 1)
    BY <2>3, <2>4, RankOne
  <2> QED
    BY <2>1, <2>2, <2>5
<1>10. Nat \subseteq S
  <2> HIDE DEF S
  <2> QED
    BY <1>8, <1>9, Induct
<1>11. IsRcl(w[n], n)
  BY <1>2, <1>10
<1> QED
  BY <1>1, <1>11 DEF n

-----------------------------------------------------------------------------
\* The inductive invariant.
BuildTypeInv ==
  /\ kind \in {"greedy", "mileage", "repair"}
  /\ list \in Seq(Nodes) /\ IsInjective(list)
  /\ missing \in Seq(Nodes) /\ IsInjective(missing)

\* The array holds every node, and until it is closed the cost is that of the way so far.
GreedyInv ==
  kind = "greedy" =>
    /\ Len(list) = NumNodes
    /\ placed \in 1 .. NumNodes
    /\ IF tour = Unfinished THEN cost = Total(Along(list), placed - 1) ELSE placed = NumNodes

\* The list is closed when it is full.
MileageInv ==
  kind = "mileage" => Len(list) \in 2 .. NumNodes /\ (tour # Unfinished => Len(list) = NumNodes)

\* Every node is either in the child or still to be inserted into it.
RepairInv ==
  kind = "repair" =>
    /\ Len(list) # 0
    /\ ToSet(list) \cap ToSet(missing) = {}
    /\ ToSet(list) \cup ToSet(missing) = Nodes
    /\ tour # Unfinished => missing = <<>>

ClosedInv == tour # Unfinished => IsTour(tour) /\ cost = TourCost(tour)

BuildInv == BuildTypeInv /\ GreedyInv /\ MileageInv /\ RepairInv /\ ClosedInv

\* A list of all the nodes is an array.
LEMMA FullIsArray ==
  ASSUME NEW s \in Seq(Nodes), Len(s) = NumNodes
  PROVE  s \in [1 .. NumNodes -> Nodes]
BY EntriesOf

\* A list without repetition is full when it holds every node, and otherwise lacks one.
LEMMA FullOrNot ==
  ASSUME NEW s \in Seq(Nodes), IsInjective(s)
  PROVE  /\ Len(s) <= NumNodes
         /\ ToSet(s) = Nodes <=> Len(s) = NumNodes
<1>1. IsFiniteSet(ToSet(s)) /\ Cardinality(ToSet(s)) = Len(s) /\ ToSet(s) \subseteq Nodes
  BY SizeOf, EntriesOf
<1>2. IsFiniteSet(Nodes) /\ Cardinality(Nodes) = NumNodes
  BY NodesFacts
<1>3. Len(s) <= NumNodes /\ (Len(s) = NumNodes => ToSet(s) = Nodes)
  BY <1>1, <1>2, FS_Subset
<1> QED
  BY <1>1, <1>2, <1>3

\* The rest of a sequence without repetition.
LEMMA TailIs ==
  ASSUME NEW s \in Seq(Nodes), IsInjective(s), s # <<>>
  PROVE  /\ Head(s) \in Nodes /\ Head(s) \in ToSet(s)
         /\ Tail(s) \in Seq(Nodes) /\ IsInjective(Tail(s))
         /\ ToSet(Tail(s)) = ToSet(s) \ {Head(s)}
<1> DEFINE n == Len(s)
           r == Tail(s)
<1>1. /\ n \in Nat \ {0} /\ Head(s) = s[1]
      /\ r \in Seq(Nodes) /\ Len(r) = n - 1
      /\ \A x \in 1 .. n - 1 : r[x] = s[x + 1]
  BY HeadTailProperties
<1>2. /\ DOMAIN s = 1 .. n /\ ToSet(s) = {s[x] : x \in 1 .. n}
      /\ ToSet(s) \subseteq Nodes
  BY EntriesOf
<1> HIDE DEF n, r
<1>3. DOMAIN r = 1 .. n - 1 /\ ToSet(r) = {r[x] : x \in 1 .. n - 1}
  BY <1>1, EntriesOf
<1>4. \A x, y \in 1 .. n : s[x] = s[y] => x = y
  BY <1>2 DEF IsInjective
<1>5. 1 \in 1 .. n /\ \A x \in 1 .. n - 1 : x + 1 \in 1 .. n /\ x + 1 # 1
  BY <1>1
<1>6. Head(s) \in ToSet(s) /\ Head(s) \in Nodes
  BY <1>1, <1>2, <1>5
<1>7. IsInjective(r)
  <2> SUFFICES ASSUME NEW x \in 1 .. n - 1, NEW y \in 1 .. n - 1, r[x] = r[y]
               PROVE  x = y
    BY <1>3 DEF IsInjective
  <2>1. x + 1 = y + 1
    BY <1>1, <1>4, <1>5
  <2> QED
    BY <2>1
<1>8. ToSet(r) = ToSet(s) \ {Head(s)}
  <2>1. ASSUME NEW x \in 1 .. n - 1
        PROVE  r[x] \in ToSet(s) \ {Head(s)}
    BY <1>1, <1>2, <1>4, <1>5
  <2>2. ASSUME NEW x \in 1 .. n, s[x] # Head(s)
        PROVE  s[x] \in ToSet(r)
    <3>1. x - 1 \in 1 .. n - 1 /\ (x - 1) + 1 = x
      BY <1>1, <2>2
    <3>2. r[x - 1] = s[x]
      BY <1>1, <3>1
    <3> QED
      BY <1>3, <3>1, <3>2
  <2> QED
    BY <1>2, <1>3, <2>1, <2>2
<1> QED
  BY <1>1, <1>6, <1>7, <1>8 DEF r

-----------------------------------------------------------------------------
\* The nodes in order are an array of all of them.
LEMMA InOrderIs ==
  /\ InOrder \in [1 .. NumNodes -> Nodes] /\ IsInjective(InOrder)
  /\ {InOrder[x] : x \in 1 .. NumNodes} = Nodes
<1>1. NumNodes \in Nat \ {0}
  BY NodesFacts
<1>2. /\ \A x \in 1 .. NumNodes : x - 1 \in Nodes /\ InOrder[x] = x - 1
      /\ \A a \in Nodes : a + 1 \in 1 .. NumNodes /\ (a + 1) - 1 = a
  BY <1>1 DEF Nodes, InOrder
<1>3. InOrder \in [1 .. NumNodes -> Nodes]
  BY <1>2 DEF InOrder
<1>4. \A a \in Nodes : InOrder[a + 1] = a
  BY <1>2
<1>5. {InOrder[x] : x \in 1 .. NumNodes} = Nodes
  BY <1>2, <1>3, <1>4
<1>6. \A x, y \in 1 .. NumNodes : InOrder[x] = InOrder[y] => x = y
  BY <1>1, <1>2
<1> QED
  BY <1>3, <1>5, <1>6 DEF IsInjective

\* It holds at the beginning.
LEMMA BuildInvInit ==
  ASSUME BuildInit
  PROVE  BuildInv
<1>1. NumNodes \in Nat \ {0} /\ NumNodes >= 2
  BY NodesFacts, ConstructionAssumption
<1>2. tour = Unfinished /\ cost = 0
  BY DEF BuildInit
<1>3. ClosedInv
  BY <1>2 DEF ClosedInv
<1>4. <<>> \in Seq(Nodes) /\ IsInjective(<<>>)
  BY DEF IsInjective
<1>5. CASE InitGreedy
  <2>1. PICK start \in Nodes : list = SwapIn(InOrder, 1, start + 1)
    BY <1>5 DEF InitGreedy
  <2>2. kind = "greedy" /\ placed = 1 /\ missing = <<>>
    BY <1>5 DEF InitGreedy
  <2>3. 1 \in 1 .. NumNodes /\ start + 1 \in 1 .. NumNodes
    BY <1>1 DEF Nodes
  <2>4. list \in [1 .. NumNodes -> Nodes] /\ IsInjective(list)
    BY <2>1, <2>3, InOrderIs, SwapInIs
  <2>5. list \in Seq(Nodes) /\ Len(list) = NumNodes
    BY <2>4, ArrayIsSeq
  <2>6. cost = Total(Along(list), placed - 1)
    BY <1>2, <2>2, <2>4, AlongFacts
  <2>7. BuildTypeInv
    BY <1>4, <2>2, <2>4, <2>5 DEF BuildTypeInv
  <2>8. GreedyInv /\ MileageInv /\ RepairInv
    BY <1>2, <2>2, <2>3, <2>5, <2>6 DEF GreedyInv, MileageInv, RepairInv
  <2> QED
    BY <1>3, <2>7, <2>8 DEF BuildInv
<1>6. CASE InitMileage
  <2>1. kind = "mileage" /\ list = Diameter /\ missing = <<>>
    BY <1>6 DEF InitMileage
  <2>2. PICK a \in Nodes, b \in Nodes : a < b /\ Diameter = <<a, b>>
    BY DiameterIs
  <2>3. a # b
    BY <2>2 DEF Nodes
  <2>4. <<a, b>> \in Seq(Nodes) /\ Len(<<a, b>>) = 2 /\ IsInjective(<<a, b>>)
    BY <2>3 DEF IsInjective
  <2>5. list \in Seq(Nodes) /\ Len(list) = 2 /\ IsInjective(list)
    BY <2>1, <2>2, <2>4
  <2>6. BuildTypeInv
    BY <1>4, <2>1, <2>5 DEF BuildTypeInv
  <2>7. GreedyInv /\ MileageInv /\ RepairInv
    BY <1>1, <1>2, <2>1, <2>5 DEF GreedyInv, MileageInv, RepairInv
  <2> QED
    BY <1>3, <2>6, <2>7 DEF BuildInv
<1>7. CASE InitRepair
  <2>1. PICK p1 \in FirstParents, p2 \in SecondParents, cut \in CutPoints :
          list = Collected(Crossed(p1, p2, cut), {})
    BY <1>7 DEF InitRepair
  <2>2. kind = "repair" /\ missing = Collected(InOrder, ToSet(list))
    BY <1>7 DEF InitRepair
  <2> DEFINE c == Crossed(p1, p2, cut)
  <2>3. c \in [1 .. NumNodes -> Nodes]
    <3>1. p1 \in [Positions -> Nodes] /\ p2 \in [Positions -> Nodes]
      BY ConstructionAssumption DEF IsTour
    <3>2. \A x \in 1 .. NumNodes : x - 1 \in Positions
      BY <1>1 DEF Positions
    <3> QED
      BY <3>1, <3>2 DEF Crossed
  <2> HIDE DEF c
  <2>4. /\ list \in Seq(Nodes) /\ IsInjective(list)
        /\ ToSet(list) = {c[x] : x \in 1 .. NumNodes}
    <3>1. HasCollected(Collected(c, {}), c, {}, NumNodes)
      BY <2>3, CollectedIs
    <3> QED
      BY <2>1, <3>1 DEF HasCollected, c
  <2>5. /\ missing \in Seq(Nodes) /\ IsInjective(missing)
        /\ ToSet(missing) = Nodes \ ToSet(list)
    <3>1. HasCollected(missing, InOrder, ToSet(list), NumNodes)
      BY <2>2, InOrderIs, CollectedIs
    <3> QED
      BY <3>1, InOrderIs DEF HasCollected
  <2>6. ToSet(list) \subseteq Nodes
    BY <2>4, EntriesOf
  <2>7. Len(list) # 0
    <3>1. c[1] \in ToSet(list)
      BY <1>1, <2>4
    <3>2. ToSet(list) = {list[x] : x \in 1 .. Len(list)}
      BY <2>4, EntriesOf
    <3> QED
      BY <3>1, <3>2
  <2>8. BuildTypeInv
    BY <2>2, <2>4, <2>5 DEF BuildTypeInv
  <2>9. GreedyInv /\ MileageInv /\ RepairInv
    BY <1>2, <2>2, <2>5, <2>6, <2>7 DEF GreedyInv, MileageInv, RepairInv
  <2> QED
    BY <1>3, <2>8, <2>9 DEF BuildInv
<1> QED
  BY <1>5, <1>6, <1>7 DEF BuildInit

\* What the invariant says of the greedy builders.
LEMMA GreedyFacts ==
  ASSUME BuildInv, kind = "greedy"
  PROVE  Greedy /\ IsInjective(list)
<1>1. list \in Seq(Nodes) /\ IsInjective(list) /\ Len(list) = NumNodes /\ placed \in 1 .. NumNodes
  BY DEF BuildInv, BuildTypeInv, GreedyInv
<1>2. list \in [1 .. NumNodes -> Nodes]
  BY <1>1, FullIsArray
<1> QED
  BY <1>1, <1>2 DEF Greedy

\* The candidates on the list are places after the ones already filled.
LEMMA CandidatesAhead ==
  ASSUME Greedy, NEW j \in ToSet(Rcl)
  PROVE  j \in placed + 1 .. NumNodes
<1>1. ToSet(Rcl) \subseteq placed + 1 .. placed + (NumNodes - placed)
  BY RclIs DEF IsRcl
<1>2. placed + (NumNodes - placed) = NumNodes
  BY NodesFacts DEF Greedy
<1> QED
  BY <1>1, <1>2

LEMMA ExtendKeeps ==
  ASSUME BuildInv, Extend
  PROVE  BuildInv' /\ ToSet(list') \subseteq ToSet(list)
<1>1. /\ kind = "greedy" /\ placed < NumNodes /\ placed' = placed + 1
      /\ kind' = kind /\ missing' = missing /\ tour' = tour
  BY DEF Extend
<1>2. PICK j \in ToSet(Rcl) : list' = SwapIn(list, placed + 1, j) /\ cost' = cost + Distance(j)
  BY DEF Extend
<1>3. Greedy /\ IsInjective(list)
  BY <1>1, GreedyFacts
<1>4. /\ list \in [1 .. NumNodes -> Nodes] /\ placed \in Nat /\ NumNodes \in Nat \ {0}
      /\ placed \in 1 .. NumNodes - 1
      /\ placed + 1 \in 1 .. NumNodes /\ j \in placed + 1 .. NumNodes /\ j \in 1 .. NumNodes
  BY <1>1, <1>3, CandidatesAhead, NodesFacts DEF Greedy
<1>5. /\ list' \in [1 .. NumNodes -> Nodes] /\ IsInjective(list')
      /\ list'[placed + 1] = list[j]
      /\ \A z \in 1 .. NumNodes : z # placed + 1 /\ z # j => list'[z] = list[z]
      /\ ToSet(list') \subseteq ToSet(list)
  BY <1>2, <1>3, <1>4, SwapInIs
<1>6. \A x \in 1 .. placed : list'[x] = list[x]
  BY <1>4, <1>5
<1>7. Total(Along(list'), placed) = Total(Along(list), placed - 1) + Cost[list[placed]][list[j]]
  BY <1>4, <1>5, <1>6, AlongGrows
<1>8. tour = Unfinished /\ cost = Total(Along(list), placed - 1)
  BY <1>1, <1>4 DEF BuildInv, GreedyInv
<1>9. cost' = Total(Along(list'), placed' - 1)
  <2>1. placed' - 1 = placed
    BY <1>1, <1>4
  <2> QED
    BY <1>2, <1>7, <1>8, <2>1 DEF Distance
<1>10. list' \in Seq(Nodes) /\ Len(list') = NumNodes
  BY <1>5, ArrayIsSeq
<1>11. BuildTypeInv'
  BY <1>1, <1>5, <1>10 DEF BuildInv, BuildTypeInv
<1>12. GreedyInv'
  BY <1>1, <1>4, <1>8, <1>9, <1>10 DEF GreedyInv
<1>13. MileageInv' /\ RepairInv' /\ ClosedInv'
  BY <1>1, <1>8 DEF MileageInv, RepairInv, ClosedInv
<1> QED
  BY <1>5, <1>11, <1>12, <1>13 DEF BuildInv

LEMMA CloseGreedyKeeps ==
  ASSUME BuildInv, CloseGreedy
  PROVE  BuildInv'
<1>1. /\ kind = "greedy" /\ placed = NumNodes /\ tour = Unfinished
      /\ cost' = cost + Cost[list[NumNodes]][list[1]] /\ tour' = Close(list)
      /\ kind' = kind /\ list' = list /\ placed' = placed /\ missing' = missing
  BY DEF CloseGreedy
<1>2. list \in [1 .. NumNodes -> Nodes] /\ IsInjective(list)
  BY <1>1, GreedyFacts DEF Greedy
<1>3. IsTour(tour') /\ tour' # Unfinished
  BY <1>1, <1>2, CloseIs
<1>4. cost' = TourCost(tour')
  <2>1. cost = Total(Along(list), NumNodes - 1)
    BY <1>1 DEF BuildInv, GreedyInv
  <2> QED
    BY <1>1, <1>2, <2>1, ClosedCost
<1>5. BuildTypeInv'
  BY <1>1 DEF BuildInv, BuildTypeInv
<1>6. GreedyInv' /\ MileageInv' /\ RepairInv'
  BY <1>1, <1>3 DEF BuildInv, GreedyInv, MileageInv, RepairInv
<1>7. ClosedInv'
  BY <1>3, <1>4 DEF ClosedInv
<1> QED
  BY <1>5, <1>6, <1>7 DEF BuildInv

\* An insertion takes the cheapest of the offers, whatever they are.
LEMMA InsertTakes ==
  ASSUME list \in Seq(Nodes), IsInjective(list), Len(list) # 0,
         NEW F \in SUBSET (Nodes \ ToSet(list)), F # {}, Insert(F \X (1 .. Len(list)))
  PROVE  \E h \in F, p \in 1 .. Len(list) :
           /\ list' = InsertAt(list, p + 1, h)
           /\ \A q \in 1 .. Len(list) : Detour(list, h, p) <= Detour(list, h, q)
           /\ list' \in Seq(Nodes) /\ IsInjective(list')
           /\ Len(list') = Len(list) + 1 /\ ToSet(list') = ToSet(list) \cup {h}
<1> DEFINE n == Len(list)
           offers == F \X (1 .. n)
           o == CheapestOf(list, offers)
<1>1. n \in Nat /\ 1 \in 1 .. n /\ F \subseteq Nodes
  OBVIOUS
<1>2. offers \in SUBSET (Nodes \X (1 .. n)) /\ offers # {}
  <2>1. PICK h \in F : <<h, 1>> \in offers
    BY <1>1
  <2> QED
    BY <1>1, <2>1
<1>3. list' = InsertAt(list, o[2] + 1, o[1])
  BY DEF Insert
<1>4. /\ o \in offers
      /\ \A q \in offers : Detour(list, o[1], o[2]) <= Detour(list, q[1], q[2])
  <2> HIDE DEF offers, n
  <2> QED
    BY <1>2, CheapestOfIs DEF n
<1> HIDE DEF o
<1>5. PICK h \in F, p \in 1 .. n : o[1] = h /\ o[2] = p
  BY <1>4
<1>6. ASSUME NEW q \in 1 .. n
      PROVE  Detour(list, h, p) <= Detour(list, h, q)
  <2>1. <<h, q>> \in offers /\ <<h, q>>[1] = h /\ <<h, q>>[2] = q
    OBVIOUS
  <2> HIDE DEF offers
  <2> QED
    BY <1>4, <1>5, <2>1
<1>7. h \in Nodes /\ h \notin ToSet(list) /\ p + 1 \in 1 .. n + 1
  BY <1>1
<1> DEFINE r == InsertAt(list, p + 1, h)
<1>8. r \in Seq(Nodes) /\ Len(r) = n + 1
  <2>1. r \in Seq(Nodes) /\ HasInserted(r, list, p + 1, h)
    BY <1>7, InsertIs
  <2> QED
    BY <2>1 DEF HasInserted
<1>9. IsInjective(r) /\ ToSet(r) = ToSet(list) \cup {h}
  BY <1>7, InsertGrows, InsertKeepsDistinct
<1>10. list' = r
  BY <1>3, <1>5
<1> HIDE DEF r
<1>11. /\ list' \in Seq(Nodes) /\ IsInjective(list')
       /\ Len(list') = n + 1 /\ ToSet(list') = ToSet(list) \cup {h}
  BY <1>8, <1>9, <1>10
<1> QED
  BY <1>6, <1>10, <1>11 DEF r

\* A cheapest insertion is what either step makes.
Cheaply(h, p) ==
  /\ h \in Nodes /\ p \in 1 .. Len(list)
  /\ list' = InsertAt(list, p + 1, h) /\ ToSet(list') = ToSet(list) \cup {h}
  /\ \A q \in 1 .. Len(list) : Detour(list, h, p) <= Detour(list, h, q)

LEMMA InsertCheapestKeeps ==
  ASSUME BuildInv, InsertCheapest
  PROVE  BuildInv' /\ \E h, p : Cheaply(h, p)
<1> DEFINE F == Nodes \ ToSet(list)
<1>1. /\ kind = "mileage" /\ Len(list) < NumNodes /\ Insert(F \X (1 .. Len(list)))
      /\ kind' = kind /\ placed' = placed /\ missing' = missing /\ cost' = cost /\ tour' = tour
  BY DEF InsertCheapest
<1>2. list \in Seq(Nodes) /\ IsInjective(list) /\ Len(list) \in 2 .. NumNodes
  BY <1>1 DEF BuildInv, BuildTypeInv, MileageInv
<1>3. F \in SUBSET (Nodes \ ToSet(list)) /\ F # {}
  <2>1. ToSet(list) \subseteq Nodes /\ ToSet(list) # Nodes
    BY <1>1, <1>2, FullOrNot, EntriesOf
  <2> QED
    BY <2>1
<1> HIDE DEF F
<1>4. PICK h \in F, p \in 1 .. Len(list) :
        /\ list' = InsertAt(list, p + 1, h)
        /\ \A q \in 1 .. Len(list) : Detour(list, h, p) <= Detour(list, h, q)
        /\ list' \in Seq(Nodes) /\ IsInjective(list')
        /\ Len(list') = Len(list) + 1 /\ ToSet(list') = ToSet(list) \cup {h}
  <2>1. Len(list) # 0
    BY <1>2
  <2> QED
    BY <1>1, <1>2, <1>3, <2>1, InsertTakes
<1>5. Len(list') \in 2 .. NumNodes
  BY <1>1, <1>2, <1>4, NodesFacts
<1>6. tour = Unfinished
  BY <1>1, <1>2, NodesFacts DEF BuildInv, MileageInv
<1>7. BuildTypeInv'
  BY <1>1, <1>4 DEF BuildInv, BuildTypeInv
<1>8. GreedyInv' /\ MileageInv' /\ RepairInv' /\ ClosedInv'
  BY <1>1, <1>5, <1>6 DEF GreedyInv, MileageInv, RepairInv, ClosedInv
<1>9. Cheaply(h, p)
  BY <1>3, <1>4 DEF Cheaply
<1> QED
  BY <1>7, <1>8, <1>9 DEF BuildInv

LEMMA InsertMissingKeeps ==
  ASSUME BuildInv, InsertMissing
  PROVE  BuildInv' /\ \E h, p : Cheaply(h, p)
<1> DEFINE F == {Head(missing)}
<1>1. /\ kind = "repair" /\ missing # <<>> /\ Insert(F \X (1 .. Len(list)))
      /\ missing' = Tail(missing)
      /\ kind' = kind /\ placed' = placed /\ cost' = cost /\ tour' = tour
  BY DEF InsertMissing
<1>2. /\ list \in Seq(Nodes) /\ IsInjective(list) /\ Len(list) # 0
      /\ missing \in Seq(Nodes) /\ IsInjective(missing)
      /\ ToSet(list) \cap ToSet(missing) = {} /\ ToSet(list) \cup ToSet(missing) = Nodes
      /\ tour = Unfinished
  BY <1>1 DEF BuildInv, BuildTypeInv, RepairInv
<1>3. /\ Head(missing) \in Nodes /\ Head(missing) \in ToSet(missing)
      /\ missing' \in Seq(Nodes) /\ IsInjective(missing')
      /\ ToSet(missing') = ToSet(missing) \ {Head(missing)}
  BY <1>1, <1>2, TailIs
<1>4. F \in SUBSET (Nodes \ ToSet(list)) /\ F # {}
  BY <1>2, <1>3
<1>5. PICK h \in F, p \in 1 .. Len(list) :
        /\ list' = InsertAt(list, p + 1, h)
        /\ \A q \in 1 .. Len(list) : Detour(list, h, p) <= Detour(list, h, q)
        /\ list' \in Seq(Nodes) /\ IsInjective(list')
        /\ Len(list') = Len(list) + 1 /\ ToSet(list') = ToSet(list) \cup {h}
  <2> HIDE DEF F
  <2> QED
    BY <1>1, <1>2, <1>4, InsertTakes
<1>6. h = Head(missing) /\ Len(list') # 0
  BY <1>2, <1>5
<1>7. ToSet(list') \cap ToSet(missing') = {} /\ ToSet(list') \cup ToSet(missing') = Nodes
  BY <1>2, <1>3, <1>5, <1>6
<1>8. BuildTypeInv'
  BY <1>1, <1>3, <1>5 DEF BuildInv, BuildTypeInv
<1>9. GreedyInv' /\ MileageInv' /\ RepairInv' /\ ClosedInv'
  BY <1>1, <1>2, <1>6, <1>7 DEF GreedyInv, MileageInv, RepairInv, ClosedInv
<1>10. Cheaply(h, p)
  BY <1>4, <1>5 DEF Cheaply
<1> QED
  BY <1>8, <1>9, <1>10 DEF BuildInv

LEMMA CloseListKeeps ==
  ASSUME BuildInv, CloseList
  PROVE  BuildInv'
<1>1. /\ (kind = "mileage" /\ Len(list) = NumNodes) \/ (kind = "repair" /\ missing = <<>>)
      /\ tour' = Close(list) /\ cost' = TourCost(tour')
      /\ kind' = kind /\ list' = list /\ placed' = placed /\ missing' = missing
  BY DEF CloseList
<1>2. list \in Seq(Nodes) /\ IsInjective(list)
  BY DEF BuildInv, BuildTypeInv
<1>3. Len(list) = NumNodes
  <2> SUFFICES ASSUME kind = "repair", missing = <<>>
               PROVE  Len(list) = NumNodes
    BY <1>1
  <2>1. ToSet(missing) = {}
    BY DEF ToSet
  <2>2. ToSet(list) = Nodes
    BY <2>1 DEF BuildInv, RepairInv
  <2> QED
    BY <1>2, <2>2, FullOrNot
<1>4. IsTour(tour')
  BY <1>1, <1>2, <1>3, FullIsArray, CloseIs
<1>5. BuildTypeInv'
  BY <1>1 DEF BuildInv, BuildTypeInv
<1>6. GreedyInv' /\ MileageInv' /\ RepairInv'
  BY <1>1, <1>3 DEF BuildInv, GreedyInv, MileageInv, RepairInv
<1>7. ClosedInv'
  BY <1>1, <1>4 DEF ClosedInv
<1> QED
  BY <1>5, <1>6, <1>7 DEF BuildInv

\* Every step keeps it.
LEMMA BuildInvStep ==
  ASSUME BuildInv, [BuildNext]_buildVars
  PROVE  BuildInv'
<1>1. CASE Extend
  BY <1>1, ExtendKeeps
<1>2. CASE CloseGreedy
  BY <1>2, CloseGreedyKeeps
<1>3. CASE InsertCheapest
  BY <1>3, InsertCheapestKeeps
<1>4. CASE InsertMissing
  BY <1>4, InsertMissingKeeps
<1>5. CASE CloseList
  BY <1>5, CloseListKeeps
<1>6. CASE UNCHANGED buildVars
  BY <1>6 DEF buildVars, BuildInv, BuildTypeInv, GreedyInv, MileageInv, RepairInv, ClosedInv
<1>7. CASE Built
  BY <1>6, <1>7 DEF Built
<1> QED
  BY <1>1, <1>2, <1>3, <1>4, <1>5, <1>6, <1>7 DEF BuildNext

THEOREM BuildInductive == BuildSpec => []BuildInv
<1>1. BuildInit => BuildInv
  BY BuildInvInit
<1>2. BuildInv /\ [BuildNext]_buildVars => BuildInv'
  BY BuildInvStep
<1> QED
  BY <1>1, <1>2, PTL DEF BuildSpec

\* Nearest neighbour, GRASP's construction, extra mileage and repair_child all end in a closed
\* tour: from every start, every pair of parents and every cut, with a candidate list of any size.
THEOREM ConstructionYieldsATour == BuildSpec => []YieldsATour
<1>1. BuildInv => YieldsATour
  BY DEF BuildInv, ClosedInv, YieldsATour
<1> QED
  BY <1>1, BuildInductive, PTL

\* total_cost, added up one distance at a time, is the cost of the tour that comes out.
THEOREM ConstructionCost == BuildSpec => []GreedyCostIsTourCost
<1>1. BuildInv => GreedyCostIsTourCost
  BY DEF BuildInv, ClosedInv, GreedyCostIsTourCost
<1> QED
  BY <1>1, BuildInductive, PTL

\* A single pass over the candidates leaves the cheapest ones on the bounded list.
THEOREM CandidatesAreCheapest == BuildSpec => []RclHoldsTheCheapest
<1>1. ASSUME BuildInv
      PROVE  RclHoldsTheCheapest
  <2> SUFFICES ASSUME kind = "greedy", placed < NumNodes
               PROVE  LET left == placed + 1 .. NumNodes
                          in == ToSet(Rcl)
                      IN  /\ Cardinality(in) = IF RclSize < Cardinality(left) THEN RclSize
                                               ELSE Cardinality(left)
                          /\ \A x \in in, y \in left \ in : Distance(x) <= Distance(y)
    BY DEF RclHoldsTheCheapest
  <2> DEFINE n == NumNodes - placed
             left == placed + 1 .. NumNodes
  <2>1. Greedy
    BY <1>1, GreedyFacts
  <2>2. IsRcl(Rcl, n)
    BY <2>1, RclIs
  <2>3. placed \in Nat /\ NumNodes \in Nat /\ RclSize \in Nat /\ placed + n = NumNodes /\ n \in Nat
    BY <2>1, NodesFacts, ConstructionAssumption DEF Greedy
  <2>4. Cardinality(left) = n
    <3>1. Cardinality(placed + 1 .. NumNodes) = NumNodes - (placed + 1) + 1
      BY <2>3, FS_Interval
    <3> QED
      BY <2>3, <3>1
  <2>5. Rcl \in Seq(1 .. NumNodes) /\ IsInjective(Rcl)
    BY <2>2 DEF IsRcl
  <2>6. Cardinality(ToSet(Rcl)) = Len(Rcl) /\ ToSet(Rcl) = {Rcl[k] : k \in 1 .. Len(Rcl)}
    BY <2>5, SizeOf, EntriesOf
  <2> HIDE DEF n
  <2>7. Len(Rcl) = IF RclSize < n THEN RclSize ELSE n
    BY <2>2, <2>3 DEF IsRcl
  <2>8. ASSUME NEW x \in ToSet(Rcl), NEW y \in left \ ToSet(Rcl)
        PROVE  Distance(x) <= Distance(y)
    <3>1. PICK k \in 1 .. Len(Rcl) : x = Rcl[k]
      BY <2>6
    <3>2. y \in (placed + 1 .. placed + n) \ ToSet(Rcl)
      BY <2>3
    <3> QED
      BY <2>2, <3>1, <3>2 DEF IsRcl
  <2> QED
    BY <2>4, <2>6, <2>7, <2>8
<1>2. BuildInv => RclHoldsTheCheapest
  BY <1>1
<1> QED
  BY <1>2, BuildInductive, PTL

\* What one insertion makes of the list is as short as any other insertion of the same node.
LEMMA CheaplyIsCheapest ==
  ASSUME BuildInv, NEW h, NEW p, Cheaply(h, p)
  PROVE  \A g \in ToSet(list') \ ToSet(list) :
           \A q \in 1 .. Len(list) : CycleCost(list') <= CycleCost(InsertAt(list, q + 1, g))
<1> SUFFICES ASSUME NEW q \in 1 .. Len(list)
             PROVE  CycleCost(list') <= CycleCost(InsertAt(list, q + 1, h))
  BY DEF Cheaply
<1>1. list \in Seq(Nodes)
  BY DEF BuildInv, BuildTypeInv
<1>2. /\ h \in Nodes /\ p \in 1 .. Len(list) /\ list' = InsertAt(list, p + 1, h)
      /\ Detour(list, h, p) <= Detour(list, h, q)
  BY DEF Cheaply
<1>3. /\ CycleCost(list) \in Int
      /\ CycleCost(list') = CycleCost(list) + Detour(list, h, p)
      /\ CycleCost(InsertAt(list, q + 1, h)) = CycleCost(list) + Detour(list, h, q)
  BY <1>1, <1>2, CycleCostGrows
<1>4. Detour(list, h, p) \in Int /\ Detour(list, h, q) \in Int
  BY <1>1, <1>2, DetourInt
<1> QED
  BY <1>2, <1>3, <1>4

\* Extra mileage and the repair of a child put a node where it lengthens the closed list least.
THEOREM CheapestInsertion == BuildSpec => InsertionIsCheapest
<1> DEFINE Best == \A h \in ToSet(list') \ ToSet(list), p \in 1 .. Len(list) :
                     list' # list => CycleCost(list') <= CycleCost(InsertAt(list, p + 1, h))
<1>1. ASSUME BuildInv, BuildNext
      PROVE  Best
  <2>1. CASE Extend
    BY <1>1, <2>1, ExtendKeeps
  <2>2. CASE InsertCheapest
    <3>1. PICK h, p : Cheaply(h, p)
      BY <1>1, <2>2, InsertCheapestKeeps
    <3> QED
      BY <1>1, <3>1, CheaplyIsCheapest
  <2>3. CASE InsertMissing
    <3>1. PICK h, p : Cheaply(h, p)
      BY <1>1, <2>3, InsertMissingKeeps
    <3> QED
      BY <1>1, <3>1, CheaplyIsCheapest
  <2>4. CASE CloseGreedy \/ CloseList \/ Built
    <3>1. list' = list
      BY <2>4 DEF CloseGreedy, CloseList, Built, buildVars
    <3> QED
      BY <3>1
  <2> QED
    BY <1>1, <2>1, <2>2, <2>3, <2>4 DEF BuildNext
<1>2. BuildInv /\ [BuildNext]_buildVars => [Best]_buildVars
  <2> HIDE DEF Best
  <2> QED
    BY <1>1
<1> QED
  BY <1>2, BuildInductive, PTL DEF BuildSpec, InsertionIsCheapest
=============================================================================
