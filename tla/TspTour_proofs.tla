--------------------------- MODULE TspTour_proofs ---------------------------
(***************************************************************************)
(* Lemmas about tours and moves, for every number of nodes, every          *)
(* symmetric cost matrix and every set of cuts: the moves yield tours, and *)
(* the deltas that two_opt, the tabu scan and compute_n_opt_cost compute   *)
(* from a few edges are the exact change of calculate_tour_cost's sum.     *)
(* Then about the integer program of the exact solvers: subtour cuts spare *)
(* every tour, and a connected point, its reconstructed tour and their     *)
(* costs are one and the same.                                             *)
(***************************************************************************)
EXTENDS EdgeModel, TLAPS, SequenceTheorems, WellFoundedInduction, FiniteSetTheorems

-----------------------------------------------------------------------------
\* Induction, from the well-foundedness of the naturals.
Below == {p \in Nat \X Nat : p[1] < p[2]}

\* A set of naturals has a least member.
LEMMA Least ==
  ASSUME NEW S \in SUBSET Nat, S # {}
  PROVE  \E m \in S : \A n \in S : m <= n
<1>1. OpToRel(<, Nat) = Below
  BY DEF OpToRel, Below
<1>2. IsWellFoundedOn(Below, Nat)
  BY <1>1, NatLessThanWellFounded
<1>3. \E m \in S : \A n \in S : <<n, m>> \notin Below
  BY <1>2, WFMin
<1>4. \A n, m \in Nat : n < m => <<n, m>> \in Below
  BY DEF Below
<1>5. \A n, m \in Nat : ~(n < m) => m <= n
  OBVIOUS
<1> QED
  BY <1>3, <1>4, <1>5

\* Induction over the naturals, with the predicate as a set.
LEMMA Induct ==
  ASSUME NEW S, 0 \in S, \A n \in Nat : n \in S => n + 1 \in S
  PROVE  Nat \subseteq S
<1> SUFFICES ASSUME ~(Nat \subseteq S)
             PROVE  FALSE
  OBVIOUS
<1>1. PICK m \in Nat \ S : \A n \in Nat \ S : m <= n
  BY Least
<1>2. m - 1 \in Nat /\ m - 1 \notin S
  BY <1>1
<1> QED
  BY <1>1, <1>2

-----------------------------------------------------------------------------
\* Sums.  AddsUp(u, f, n): u holds what the loop over f has added up, for 0 .. n.
AddsUp(u, f, n) ==
  /\ u \in [0 .. n -> Int]
  /\ u[0] = 0
  /\ \A x \in 1 .. n : u[x] = u[x - 1] + f[x]

\* A loop over n integers does add them up.
LEMMA SumExists ==
  ASSUME NEW n \in Nat, NEW f, \A x \in 1 .. n : f[x] \in Int
  PROVE  \E u : AddsUp(u, f, n)
<1> DEFINE S == {m \in Nat : m <= n => \E u : AddsUp(u, f, m)}
<1>1. 0 \in S
  <2>1. AddsUp([x \in 0 .. 0 |-> 0], f, 0)
    BY DEF AddsUp
  <2> QED
    BY <2>1
<1>2. ASSUME NEW m \in Nat, m \in S
      PROVE  m + 1 \in S
  <2> SUFFICES ASSUME m + 1 <= n
               PROVE  \E u : AddsUp(u, f, m + 1)
    OBVIOUS
  <2>1. PICK u : AddsUp(u, f, m)
    BY <1>2
  <2> DEFINE v == [x \in 0 .. m + 1 |-> IF x = m + 1 THEN u[m] + f[m + 1] ELSE u[x]]
  <2>2. u \in [0 .. m -> Int] /\ f[m + 1] \in Int
    BY <2>1 DEF AddsUp
  <2>3. v \in [0 .. m + 1 -> Int] /\ v[0] = 0
    BY <2>1, <2>2 DEF AddsUp
  <2>4. ASSUME NEW x \in 1 .. m + 1
        PROVE  v[x] = v[x - 1] + f[x]
    <3>1. CASE x = m + 1
      BY <3>1
    <3>2. CASE x # m + 1
      <4>1. x \in 1 .. m /\ x - 1 \in 0 .. m
        BY <3>2
      <4>2. v[x] = u[x] /\ v[x - 1] = u[x - 1]
        BY <4>1
      <4> QED
        BY <2>1, <4>1, <4>2 DEF AddsUp
    <3> QED
      BY <3>1, <3>2
  <2>5. AddsUp(v, f, m + 1)
    BY <2>3, <2>4 DEF AddsUp
  <2> QED
    BY <2>5
<1>3. Nat \subseteq S
  <2> HIDE DEF S
  <2> QED
    BY <1>1, <1>2, Induct
<1> QED
  BY <1>3

\* Total is the last of the partial sums, whichever way they were found.
LEMMA TotalIs ==
  ASSUME NEW n \in Nat, NEW f, NEW u, AddsUp(u, f, n)
  PROVE  Total(f, n) = u[n]
<1> DEFINE Loop(v) == [x \in 0 .. n |-> IF x = 0 THEN 0 ELSE v[x - 1] + f[x]]
           w == CHOOSE v : v = Loop(v)
<1>1. Total(f, n) = w[n]
  BY DEF Total
<1>2. u = Loop(u)
  BY DEF AddsUp
<1>3. w = Loop(w)
  <2> HIDE DEF Loop
  <2> QED
    BY <1>2
<1> DEFINE S == {m \in Nat : m <= n => w[m] = u[m]}
<1>4. \A x \in 0 .. n : w[x] = IF x = 0 THEN 0 ELSE w[x - 1] + f[x]
  <2> HIDE DEF w
  <2> QED
    BY <1>3
<1>5. 0 \in S
  <2> HIDE DEF w
  <2> QED
    BY <1>4 DEF AddsUp
<1>6. ASSUME NEW m \in Nat, m \in S
      PROVE  m + 1 \in S
  <2> HIDE DEF w
  <2> SUFFICES ASSUME m + 1 <= n
               PROVE  w[m + 1] = u[m + 1]
    OBVIOUS
  <2>1. w[m] = u[m] /\ m + 1 \in 1 .. n /\ m + 1 \in 0 .. n /\ (m + 1) - 1 = m /\ m + 1 # 0
    BY <1>6
  <2> QED
    BY <2>1, <1>4 DEF AddsUp
<1>7. Nat \subseteq S
  <2> HIDE DEF S, w
  <2> QED
    BY <1>5, <1>6, Induct
<1> HIDE DEF w
<1> QED
  BY <1>1, <1>7

\* Total, as a function of where the loop stops, holds the partial sums.
LEMMA TotalAddsUp ==
  ASSUME NEW n \in Nat, NEW f, \A x \in 1 .. n : f[x] \in Int
  PROVE  AddsUp([x \in 0 .. n |-> Total(f, x)], f, n)
<1>1. PICK u : AddsUp(u, f, n)
  BY SumExists
<1>2. ASSUME NEW x \in 0 .. n
      PROVE  Total(f, x) = u[x]
  <2> DEFINE v == [y \in 0 .. x |-> u[y]]
  <2>1. AddsUp(v, f, x)
    BY <1>1 DEF AddsUp
  <2>2. Total(f, x) = v[x]
    BY <2>1, TotalIs
  <2> QED
    BY <2>2
<1>3. [x \in 0 .. n |-> Total(f, x)] = u
  BY <1>1, <1>2 DEF AddsUp
<1> QED
  BY <1>1, <1>3

\* How Total goes on from one number to the next.
LEMMA TotalStep ==
  ASSUME NEW n \in Nat, NEW f, \A x \in 1 .. n : f[x] \in Int
  PROVE  /\ Total(f, 0) = 0
         /\ \A x \in 0 .. n : Total(f, x) \in Int
         /\ \A x \in 1 .. n : Total(f, x) = Total(f, x - 1) + f[x]
<1> DEFINE u == [x \in 0 .. n |-> Total(f, x)]
<1>1. \A x \in 1 .. n : x \in 0 .. n /\ x - 1 \in 0 .. n
  OBVIOUS
<1>2. \A x \in 0 .. n : u[x] = Total(f, x)
  OBVIOUS
<1>3. AddsUp(u, f, n)
  BY TotalAddsUp
<1> HIDE DEF u
<1>4. \A x \in 0 .. n : u[x] \in Int
  BY <1>3 DEF AddsUp
<1>5. \A x \in 1 .. n : u[x] = u[x - 1] + f[x]
  BY <1>3 DEF AddsUp
<1>6. u[0] = 0 /\ 0 \in 0 .. n
  BY <1>3 DEF AddsUp
<1> QED
  BY <1>1, <1>2, <1>4, <1>5, <1>6

\* A sum of naturals is a natural.
LEMMA TotalNat ==
  ASSUME NEW n \in Nat, NEW f, \A x \in 1 .. n : f[x] \in Nat
  PROVE  Total(f, n) \in Nat
<1> DEFINE S == {m \in Nat : m <= n => Total(f, m) \in Nat}
<1>1. 0 \in S
  BY TotalStep
<1>2. ASSUME NEW m \in Nat, m \in S
      PROVE  m + 1 \in S
  <2>1. CASE m + 1 <= n
    <3>1. m + 1 \in 1 .. n /\ (m + 1) - 1 = m /\ Total(f, m) \in Nat
      BY <1>2, <2>1
    <3>2. Total(f, m + 1) = Total(f, m) + f[m + 1]
      BY <3>1, TotalStep
    <3> QED
      BY <3>1, <3>2
  <2> QED
    BY <2>1
<1>3. Nat \subseteq S
  <2> HIDE DEF S
  <2> QED
    BY <1>1, <1>2, Induct
<1> QED
  BY <1>3

-----------------------------------------------------------------------------
\* Tours.  What the array of a tour is, apart from visiting every node once.
Arrays == [Positions -> Nodes]

\* The legs of a tour are distances, and its cost is a natural.
LEMMA TourFacts ==
  ASSUME NEW t \in Arrays
  PROVE  /\ NumNodes \in Nat \ {0}
         /\ Legs(t) \in [1 .. NumNodes -> Nat]
         /\ \A x \in 1 .. NumNodes : Legs(t)[x] = Cost[t[x - 1]][t[x]]
         /\ TourCost(t) \in Nat
<1>1. NumNodes \in Nat \ {0}
  BY TourAssumption
<1>2. \A x \in 1 .. NumNodes : x \in Positions /\ x - 1 \in Positions
  BY <1>1 DEF Positions
<1>3. \A x \in 1 .. NumNodes : Cost[t[x - 1]][t[x]] \in Nat
  BY <1>2, TourAssumption DEF Arrays
<1>4. Legs(t) \in [1 .. NumNodes -> Nat]
  BY <1>3 DEF Legs
<1>5. TourCost(t) \in Nat
  BY <1>1, <1>4, TotalNat DEF TourCost
<1> QED
  BY <1>1, <1>4, <1>5 DEF Legs

\* The cost of the first x legs of a tour.
Upto(t, x) == Total(Legs(t), x)

\* Along a tour the cost grows by one leg at a time.
LEMMA UptoFacts ==
  ASSUME NEW t \in Arrays
  PROVE  /\ Upto(t, 0) = 0
         /\ \A x \in Positions : Upto(t, x) \in Int
         /\ \A x \in 1 .. NumNodes : Upto(t, x) = Upto(t, x - 1) + Cost[t[x - 1]][t[x]]
         /\ TourCost(t) = Upto(t, NumNodes)
<1>1. NumNodes \in Nat /\ \A x \in 1 .. NumNodes : Legs(t)[x] \in Int
  BY TourFacts
<1>2. /\ Total(Legs(t), 0) = 0
      /\ \A x \in 0 .. NumNodes : Total(Legs(t), x) \in Int
      /\ \A x \in 1 .. NumNodes : Total(Legs(t), x) = Total(Legs(t), x - 1) + Legs(t)[x]
  BY <1>1, TotalStep
<1> QED
  BY <1>2, TourFacts DEF Upto, TourCost, Positions

\* A way to find the cost of a tour: guess its partial sums and check the steps.
LEMMA CostByParts ==
  ASSUME NEW t \in Arrays, NEW u \in [Positions -> Int], u[0] = 0,
         \A x \in 1 .. NumNodes : u[x] = u[x - 1] + Cost[t[x - 1]][t[x]]
  PROVE  TourCost(t) = u[NumNodes]
<1>1. AddsUp(u, Legs(t), NumNodes)
  BY TourFacts DEF AddsUp, Positions
<1> QED
  BY <1>1, TourFacts, TotalIs DEF TourCost

\* reverse_array_int inside a tour leaves a tour.
LEMMA ReversedIsTour ==
  ASSUME NEW t, IsTour(t), NEW i \in 1 .. NumNodes - 1, NEW j \in 1 .. NumNodes - 1
  PROVE  IsTour(Reversed(t, i, j))
<1> DEFINE r == Reversed(t, i, j)
           From(x) == IF i <= x /\ x <= j THEN i + j - x ELSE x
<1>1. NumNodes \in Nat \ {0} /\ t \in [Positions -> Nodes] /\ t[NumNodes] = t[0]
  BY TourAssumption DEF IsTour
<1>2. \A x \in Positions : From(x) \in Positions
  BY <1>1 DEF Positions
<1>3. \A x \in Nodes : From(x) \in Nodes /\ x \in Positions
  BY <1>1 DEF Positions, Nodes
<1>4. \A x, y \in Nodes : From(x) = From(y) => x = y
  BY <1>1 DEF Nodes
<1>5. \A x \in Positions : r[x] = t[From(x)]
  BY DEF Reversed
<1>6. r \in [Positions -> Nodes]
  BY <1>1, <1>2 DEF Reversed
<1>7. r[NumNodes] = r[0]
  BY <1>1, <1>5 DEF Positions
<1> HIDE DEF r, From
<1>8. ASSUME NEW x \in Nodes, NEW y \in Nodes, r[x] = r[y]
      PROVE  x = y
  BY <1>3, <1>4, <1>5, <1>8 DEF IsTour
<1>9. IsTour(r)
  BY <1>6, <1>7, <1>8 DEF IsTour
<1> QED
  BY <1>9 DEF r

\* What the reversal of i .. j does to the edges: the prefix i - 1 stays, the segment is walked
\* backwards, and the rest stays.
LEMMA ReversedEdges ==
  ASSUME NEW t, IsTour(t), NEW i \in 1 .. NumNodes - 1, NEW j \in 1 .. NumNodes - 1, i < j
  PROVE  /\ Reversed(t, i, j) \in Arrays
         /\ \A x \in 0 .. i - 1 : Reversed(t, i, j)[x] = t[x]
         /\ \A x \in i .. j : Reversed(t, i, j)[x] = t[i + j - x]
         /\ \A x \in j + 1 .. NumNodes : Reversed(t, i, j)[x] = t[x]
<1>1. NumNodes \in Nat \ {0}
  BY TourAssumption
<1>2. IsTour(Reversed(t, i, j))
  BY ReversedIsTour
<1>3. i - 1 < i /\ i <= j /\ j < j + 1 /\ i \in Int /\ j \in Int /\ 1 <= i /\ j <= NumNodes - 1
  BY <1>1
<1>4. /\ 0 .. i - 1 \subseteq Positions /\ i .. j \subseteq Positions
      /\ j + 1 .. NumNodes \subseteq Positions
  BY <1>1, <1>3 DEF Positions
<1>5. \A x \in Positions : Reversed(t, i, j)[x] = IF i <= x /\ x <= j THEN t[i + j - x] ELSE t[x]
  BY DEF Reversed
<1>6. \A x \in 0 .. i - 1 : ~(i <= x)
  BY <1>3
<1>7. \A x \in j + 1 .. NumNodes : ~(x <= j)
  BY <1>3
<1> QED
  BY <1>2, <1>4, <1>5, <1>6, <1>7 DEF IsTour, Arrays

\* The delta of two_opt and of the tabu scan is the change of the whole tour's cost: the other
\* edges of the segment are the same edges walked backwards, and distances are symmetric.
THEOREM TwoOptDeltaExact ==
  ASSUME NEW t, IsTour(t), NEW i \in 1 .. NumNodes - 1, NEW j \in 1 .. NumNodes - 1, i < j
  PROVE  TourCost(Reversed(t, i, j)) = TourCost(t) + TwoOptDelta(t, i, j)
<1> DEFINE r == Reversed(t, i, j)
           N == NumNodes
           P(x) == Upto(t, x)
           C(x, y) == Cost[t[x]][t[y]]
           D == TwoOptDelta(t, i, j)
           u == [x \in Positions |->
                   IF x < i THEN P(x)
                   ELSE IF x <= j THEN P(i - 1) + C(i - 1, j) + P(j) - P(i + j - x)
                   ELSE P(x) + D]
<1>1. /\ N \in Nat \ {0} /\ i \in Int /\ j \in Int /\ 1 <= i /\ j <= N - 1
      /\ t \in Arrays
  BY TourAssumption DEF IsTour, Arrays
<1>2. /\ P(0) = 0
      /\ \A x \in 0 .. N : P(x) \in Int
      /\ \A x \in 1 .. N : P(x) = P(x - 1) + C(x - 1, x)
      /\ TourCost(t) = P(N)
  BY <1>1, UptoFacts DEF Positions
<1>3. \A x, y \in 0 .. N : C(x, y) \in Nat /\ C(x, y) = C(y, x)
  BY <1>1, TourAssumption DEF Arrays, Positions
<1>4. /\ r \in Arrays
      /\ \A x \in 0 .. i - 1 : r[x] = t[x]
      /\ \A x \in i .. j : r[x] = t[i + j - x]
      /\ \A x \in j + 1 .. N : r[x] = t[x]
  BY ReversedEdges
<1>5. D = C(i - 1, j) + C(i, j + 1) - (C(i - 1, i) + C(j, j + 1))
  BY DEF TwoOptDelta
<1> DEFINE R(x, y) == Cost[r[x]][r[y]]
<1>6. D \in Int /\ C(i - 1, j) \in Int
  <2>1. {i - 1, i, j, j + 1} \subseteq 0 .. N
    BY <1>1
  <2> QED
    BY <2>1, <1>3, <1>5
<1> HIDE DEF r, P, D
<1>7. u \in [Positions -> Int]
  <2> SUFFICES ASSUME NEW x \in 0 .. N
               PROVE  u[x] \in Int
    BY DEF Positions
  <2>1. CASE x < i
    BY <2>1, <1>1, <1>2 DEF Positions
  <2>2. CASE i <= x /\ x <= j
    <3>1. {i - 1, j, i + j - x} \subseteq 0 .. N
      BY <2>2, <1>1
    <3> QED
      BY <2>2, <3>1, <1>1, <1>2, <1>6 DEF Positions
  <2>3. CASE j < x
    BY <2>3, <1>1, <1>2, <1>6 DEF Positions
  <2> QED
    BY <2>1, <2>2, <2>3, <1>1
<1>8. u[0] = 0 /\ u[N] = P(N) + D
  BY <1>1, <1>2 DEF Positions
<1>9. ASSUME NEW x \in 1 .. N
      PROVE  u[x] = u[x - 1] + R(x - 1, x)
  <2>0. x \in Positions /\ x - 1 \in Positions /\ x \in 0 .. N /\ x - 1 \in 0 .. N
    BY <1>1 DEF Positions
  <2>1. CASE x < i
    <3>1. u[x] = P(x) /\ u[x - 1] = P(x - 1)
      BY <2>0, <2>1, <1>1
    <3>2. R(x - 1, x) = C(x - 1, x)
      BY <2>1, <1>1, <1>4
    <3> QED
      BY <3>1, <3>2, <1>2
  <2>2. CASE x = i
    <3>1. u[x - 1] = P(i - 1) /\ u[x] = P(i - 1) + C(i - 1, j) + P(j) - P(j)
      <4>1. i + j - x = j
        BY <2>2, <1>1
      <4> QED
        BY <2>0, <2>2, <1>1, <4>1
    <3>2. R(x - 1, x) = C(i - 1, j)
      <4>1. x - 1 \in 0 .. i - 1 /\ x \in i .. j /\ i + j - x = j /\ x - 1 = i - 1
        BY <2>2, <1>1
      <4> QED
        BY <4>1, <1>4
    <3>3. P(i - 1) \in Int /\ P(j) \in Int
      BY <1>1, <1>2
    <3> QED
      BY <3>1, <3>2, <3>3, <1>6
  <2>3. CASE i < x /\ x <= j
    <3> DEFINE y == i + j - x
    <3>1. y \in 0 .. N - 1 /\ y + 1 \in 1 .. N /\ i + j - (x - 1) = y + 1 /\ (y + 1) - 1 = y
      BY <2>3, <1>1
    <3>2. u[x - 1] = P(i - 1) + C(i - 1, j) + P(j) - P(y + 1)
      BY <2>0, <2>3, <1>1, <3>1
    <3>3. u[x] = P(i - 1) + C(i - 1, j) + P(j) - P(y)
      BY <2>0, <2>3, <1>1
    <3>4. r[x - 1] = t[y + 1] /\ r[x] = t[y]
      <4>1. x - 1 \in i .. j /\ x \in i .. j
        BY <2>3, <1>1
      <4> QED
        BY <4>1, <3>1, <1>4
    <3>5. R(x - 1, x) = C(y, y + 1)
      <4>1. y \in 0 .. N /\ y + 1 \in 0 .. N
        BY <3>1, <1>1
      <4> QED
        BY <4>1, <3>4, <1>3
    <3>6. P(y + 1) = P(y) + C(y, y + 1)
      BY <3>1, <1>2
    <3>7. P(i - 1) \in Int /\ P(j) \in Int /\ P(y) \in Int /\ C(y, y + 1) \in Int
      BY <1>1, <1>2, <1>3, <3>1
    <3> HIDE DEF y, u
    <3> QED
      BY <3>2, <3>3, <3>5, <3>6, <3>7, <1>6
  <2>4. CASE x = j + 1
    <3>1. u[x - 1] = P(i - 1) + C(i - 1, j) + P(j) - P(i) /\ u[x] = P(j + 1) + D
      <4>1. i + j - (x - 1) = i
        BY <2>4, <1>1
      <4> QED
        BY <2>0, <2>4, <1>1, <4>1
    <3>2. R(x - 1, x) = C(i, j + 1)
      <4>1. x - 1 \in i .. j /\ x \in j + 1 .. N /\ i + j - (x - 1) = i
        BY <2>4, <1>1
      <4> QED
        BY <4>1, <2>4, <1>4
    <3>3. P(i) = P(i - 1) + C(i - 1, i) /\ P(j + 1) = P(j) + C(j, j + 1)
      <4>1. j + 1 \in 1 .. N /\ (j + 1) - 1 = j
        BY <1>1
      <4> QED
        BY <4>1, <1>1, <1>2
    <3>4. /\ P(i - 1) \in Int /\ P(j) \in Int
          /\ C(i - 1, i) \in Int /\ C(j, j + 1) \in Int /\ C(i, j + 1) \in Int
      <4>1. {i - 1, i, j, j + 1} \subseteq 0 .. N
        BY <1>1
      <4> QED
        BY <4>1, <1>2, <1>3
    <3> HIDE DEF u
    <3> QED
      BY <3>1, <3>2, <3>3, <3>4, <1>5, <1>6
  <2>5. CASE j + 1 < x
    <3>1. u[x] = P(x) + D /\ u[x - 1] = P(x - 1) + D
      BY <2>0, <2>5, <1>1
    <3>2. R(x - 1, x) = C(x - 1, x)
      <4>1. x - 1 \in j + 1 .. N /\ x \in j + 1 .. N
        BY <2>5, <1>1
      <4> QED
        BY <4>1, <1>4
    <3> QED
      BY <3>1, <3>2, <2>0, <1>2, <1>3, <1>6
  <2> QED
    BY <2>1, <2>2, <2>3, <2>4, <2>5, <1>1
<1>10. TourCost(r) = u[N]
  <2> HIDE DEF u
  <2> QED
    BY <1>4, <1>7, <1>8, <1>9, CostByParts
<1>11. TourCost(r) = TourCost(t) + D
  BY <1>2, <1>8, <1>10
<1> QED
  BY <1>11 DEF r, D

-----------------------------------------------------------------------------
\* What a set of cuts is: at least two positions of nodes, in increasing order.
AreCuts(e, k) ==
  /\ k \in Nat \ {0, 1}
  /\ Len(e) = k
  /\ \A m \in 1 .. k : e[m] \in 0 .. NumNodes - 1
  /\ \A l, m \in 1 .. k : l < m => e[l] < e[m]

\* The members of Cuts(k) are cuts.
LEMMA CutsFacts ==
  ASSUME NEW k \in Nat \ {0, 1}, NEW e \in Cuts(k)
  PROVE  AreCuts(e, k)
<1>1. e \in [1 .. k -> Nodes] /\ \A l, m \in 1 .. k : l < m => e[l] < e[m]
  BY DEF Cuts
<1>2. e \in Seq(Nodes)
  BY <1>1, SeqDef
<1>3. DOMAIN e = 1 .. k /\ DOMAIN e = 1 .. Len(e) /\ Len(e) \in Nat
  BY <1>1, <1>2, LenProperties
<1>4. Len(e) = k
  BY <1>3
<1> QED
  BY <1>1, <1>4 DEF AreCuts, Nodes

\* Two cuts are cuts.
LEMMA TwoCuts ==
  ASSUME NEW a \in 0 .. NumNodes - 1, NEW b \in 0 .. NumNodes - 1, a < b
  PROVE  AreCuts(<<a, b>>, 2)
BY DEF AreCuts

\* A position lies before the cuts, behind them, or in one segment between two of them.
LEMMA SegmentOf ==
  ASSUME NEW k, NEW e, AreCuts(e, k), NEW x \in Positions, e[1] < x, x <= e[k]
  PROVE  \E m \in 1 .. k - 1 : InSegment(e, m, x)
<1> DEFINE S == {m \in 1 .. k : x <= e[m]}
<1>1. k \in Nat \ {0, 1}
  BY DEF AreCuts
<1>2. S \in SUBSET Nat /\ k \in S
  BY <1>1
<1>3. PICK m \in S : \A n \in S : m <= n
  BY <1>2, Least
<1>4. m # 1
  <2>1. e[1] \in Int /\ x \in Int
    BY <1>1, TourAssumption DEF AreCuts, Positions
  <2> QED
    BY <2>1
<1>5. m - 1 \in 1 .. k - 1 /\ m - 1 \notin S /\ (m - 1) + 1 = m
  BY <1>1, <1>3, <1>4
<1>6. e[m - 1] < x /\ x <= e[m]
  <2>1. m - 1 \in 1 .. k
    BY <1>1, <1>5
  <2>2. e[m - 1] \in Int /\ x \in Int
    BY <2>1, TourAssumption DEF AreCuts, Positions
  <2> QED
    BY <1>3, <1>5, <2>1, <2>2
<1> QED
  BY <1>5, <1>6 DEF InSegment

\* Segments do not overlap, and lie behind the first cut and not behind the last.
LEMMA SegmentsApart ==
  ASSUME NEW k, NEW e, AreCuts(e, k), NEW m \in 1 .. k - 1, NEW x \in Positions,
         InSegment(e, m, x)
  PROVE  /\ \A l \in 1 .. k - 1 : InSegment(e, l, x) => l = m
         /\ e[1] < x /\ x <= e[k]
         /\ e[m] + 1 + e[m + 1] - x \in Positions
         /\ InSegment(e, m, e[m] + 1 + e[m + 1] - x)
<1>1. k \in Nat \ {0, 1} /\ x \in Int /\ NumNodes \in Nat
  BY TourAssumption DEF AreCuts, Positions
<1>2. m \in 1 .. k /\ m + 1 \in 1 .. k /\ 1 \in 1 .. k /\ k \in 1 .. k
  BY <1>1
<1>3. \A l \in 1 .. k : e[l] \in 0 .. NumNodes - 1
  BY DEF AreCuts
<1>4. e[m] < x /\ x <= e[m + 1]
  BY DEF InSegment
<1>5. \A l \in 1 .. k : l < m => e[l] < e[m]
  BY <1>2 DEF AreCuts
<1>6. \A l \in 1 .. k : m + 1 < l => e[m + 1] < e[l]
  BY <1>2 DEF AreCuts
<1>7. ASSUME NEW l \in 1 .. k - 1, InSegment(e, l, x)
      PROVE  l = m
  <2>1. l \in 1 .. k /\ l + 1 \in 1 .. k
    BY <1>1
  <2>2. e[l] < x /\ x <= e[l + 1]
    BY <1>7 DEF InSegment
  <2>3. CASE l < m
    <3>1. l + 1 = m \/ e[l + 1] < e[m]
      BY <1>5, <2>1, <2>3
    <3> QED
      BY <1>1, <1>2, <1>3, <1>4, <2>1, <2>2, <3>1
  <2>4. CASE m < l
    <3>1. l = m + 1 \/ e[m + 1] < e[l]
      BY <1>6, <2>1, <2>4
    <3> QED
      BY <1>1, <1>2, <1>3, <1>4, <2>1, <2>2, <3>1
  <2> QED
    BY <2>3, <2>4, <1>1
<1>8. e[1] <= e[m] /\ e[m + 1] <= e[k]
  BY <1>1, <1>2, <1>3, <1>5, <1>6
<1>9. e[1] < x /\ x <= e[k]
  BY <1>1, <1>2, <1>3, <1>4, <1>8
<1>10. /\ e[m] + 1 + e[m + 1] - x \in 0 .. NumNodes
       /\ e[m] < e[m] + 1 + e[m + 1] - x /\ e[m] + 1 + e[m + 1] - x <= e[m + 1]
  BY <1>1, <1>2, <1>3, <1>4
<1> QED
  BY <1>7, <1>9, <1>10 DEF InSegment, Positions

\* What compute_n_opt_move leaves at each position.
LEMMA MovedEntries ==
  ASSUME NEW t, NEW k, NEW e, AreCuts(e, k)
  PROVE  /\ \A m \in 1 .. k - 1 : \A x \in Positions :
              InSegment(e, m, x) => NOptMove(t, e)[x] = t[e[m] + 1 + e[m + 1] - x]
         /\ \A x \in Positions : x <= e[1] \/ e[k] < x => NOptMove(t, e)[x] = t[x]
<1> DEFINE In(x) == \E m \in 1 .. k - 1 : InSegment(e, m, x)
           The(x) == CHOOSE m \in 1 .. k - 1 : InSegment(e, m, x)
<1>1. \A x \in Positions :
        NOptMove(t, e)[x] = IF In(x) THEN t[e[The(x)] + 1 + e[The(x) + 1] - x] ELSE t[x]
  BY DEF NOptMove, AreCuts
<1>2. ASSUME NEW m \in 1 .. k - 1, NEW x \in Positions, InSegment(e, m, x)
      PROVE  NOptMove(t, e)[x] = t[e[m] + 1 + e[m + 1] - x]
  <2>1. The(x) = m
    BY <1>2, SegmentsApart
  <2>2. In(x)
    BY <1>2
  <2> HIDE DEF The, In
  <2> QED
    BY <1>1, <2>1, <2>2
<1>3. ASSUME NEW x \in Positions, x <= e[1] \/ e[k] < x
      PROVE  NOptMove(t, e)[x] = t[x]
  <2>1. ~In(x)
    <3> SUFFICES ASSUME NEW m \in 1 .. k - 1, InSegment(e, m, x)
                 PROVE  FALSE
      OBVIOUS
    <3>1. e[1] < x /\ x <= e[k]
      BY SegmentsApart
    <3>2. e[1] \in Int /\ e[k] \in Int /\ x \in Int
      BY TourAssumption DEF AreCuts, Positions
    <3> QED
      BY <1>3, <3>1, <3>2
  <2> HIDE DEF The, In
  <2> QED
    BY <1>1, <2>1
<1> QED
  BY <1>2, <1>3

\* compute_n_opt_move leaves a tour, whatever the cuts.
THEOREM NOptMoveIsTour ==
  ASSUME NEW t, IsTour(t), NEW k, NEW e, AreCuts(e, k)
  PROVE  IsTour(NOptMove(t, e))
<1> DEFINE r == NOptMove(t, e)
           Out(x) == x <= e[1] \/ e[k] < x
<1>1. /\ NumNodes \in Nat \ {0} /\ k \in Nat \ {0, 1}
      /\ t \in [Positions -> Nodes] /\ t[NumNodes] = t[0]
      /\ \A m \in 1 .. k : e[m] \in 0 .. NumNodes - 1
  BY TourAssumption DEF IsTour, AreCuts
<1>2. e[1] \in 0 .. NumNodes - 1 /\ e[k] \in 0 .. NumNodes - 1
  BY <1>1
<1>3. \A x \in Positions : Out(x) \/ \E m \in 1 .. k - 1 : InSegment(e, m, x)
  BY <1>1, <1>2, SegmentOf DEF Positions
<1>4. \A x \in Positions : Out(x) => r[x] = t[x]
  BY MovedEntries
<1>5. \A m \in 1 .. k - 1 : \A x \in Positions :
        InSegment(e, m, x) => r[x] = t[e[m] + 1 + e[m + 1] - x]
  BY MovedEntries
<1>6. r \in [Positions -> Nodes]
  <2>1. ASSUME NEW x \in Positions
        PROVE  r[x] \in Nodes
    <3>1. CASE Out(x)
      BY <1>1, <1>4, <3>1
    <3>2. CASE \E m \in 1 .. k - 1 : InSegment(e, m, x)
      <4>1. PICK m \in 1 .. k - 1 : InSegment(e, m, x)
        BY <3>2
      <4>2. e[m] + 1 + e[m + 1] - x \in Positions
        BY <4>1, SegmentsApart
      <4> QED
        BY <1>1, <1>5, <4>1, <4>2
    <3> QED
      BY <1>3, <3>1, <3>2
  <2>2. r = [x \in Positions |-> r[x]]
    BY DEF NOptMove
  <2> HIDE DEF r
  <2> QED
    BY <2>1, <2>2
<1>7. r[NumNodes] = r[0]
  <2>1. NumNodes \in Positions /\ 0 \in Positions /\ Out(NumNodes) /\ Out(0)
    BY <1>1, <1>2 DEF Positions
  <2> QED
    BY <2>1, <1>1, <1>4
<1> HIDE DEF r
<1>8. ASSUME NEW x \in Nodes, NEW y \in Nodes, r[x] = r[y]
      PROVE  x = y
  <2>1. \A z \in Nodes : z \in Positions /\ z < NumNodes /\ z \in Int
    BY <1>1 DEF Nodes, Positions
  \* Where the entry at z comes from: from inside the segment of z, or from z itself.
  <2>2. ASSUME NEW z \in Nodes
        PROVE  \E w \in Nodes :
                 /\ r[z] = t[w]
                 /\ \/ Out(z) /\ w = z
                    \/ \E m \in 1 .. k - 1 :
                         InSegment(e, m, z) /\ InSegment(e, m, w) /\ w = e[m] + 1 + e[m + 1] - z
    <3>1. CASE Out(z)
      BY <1>4, <2>1, <3>1
    <3>2. CASE \E m \in 1 .. k - 1 : InSegment(e, m, z)
      <4>1. PICK m \in 1 .. k - 1 : InSegment(e, m, z)
        BY <3>2
      <4> DEFINE w == e[m] + 1 + e[m + 1] - z
      <4>2. w \in Positions /\ InSegment(e, m, w)
        BY <4>1, <2>1, SegmentsApart
      <4>3. w \in Nodes
        <5>1. m + 1 \in 1 .. k
          BY <1>1
        <5>2. w <= e[m + 1] /\ e[m + 1] \in 0 .. NumNodes - 1
          BY <4>2, <5>1, <1>1 DEF InSegment
        <5>3. w \in 0 .. NumNodes
          BY <4>2 DEF Positions
        <5> HIDE DEF w
        <5> QED
          BY <5>2, <5>3, <1>1 DEF Nodes
      <4> QED
        BY <1>5, <2>1, <4>1, <4>2, <4>3
    <3> QED
      BY <1>3, <2>1, <3>1, <3>2
  <2>3. PICK v \in Nodes :
          /\ r[x] = t[v]
          /\ \/ Out(x) /\ v = x
             \/ \E m \in 1 .. k - 1 :
                  InSegment(e, m, x) /\ InSegment(e, m, v) /\ v = e[m] + 1 + e[m + 1] - x
    BY <2>2
  <2>4. PICK w \in Nodes :
          /\ r[y] = t[w]
          /\ \/ Out(y) /\ w = y
             \/ \E m \in 1 .. k - 1 :
                  InSegment(e, m, y) /\ InSegment(e, m, w) /\ w = e[m] + 1 + e[m + 1] - y
    BY <2>2
  <2>5. v = w
    BY <1>8, <2>3, <2>4 DEF IsTour
  <2>6. \A z \in Nodes : \A m \in 1 .. k - 1 : InSegment(e, m, z) => ~Out(z)
    <3> SUFFICES ASSUME NEW z \in Nodes, NEW m \in 1 .. k - 1, InSegment(e, m, z)
                 PROVE  ~Out(z)
      OBVIOUS
    <3>1. e[1] < z /\ z <= e[k]
      BY <2>1, SegmentsApart
    <3> QED
      BY <3>1, <2>1, <1>2
  <2>7. CASE Out(v)
    BY <2>3, <2>4, <2>5, <2>6, <2>7
  <2>8. CASE ~Out(v)
    <3>1. PICK m \in 1 .. k - 1 : InSegment(e, m, v) /\ v = e[m] + 1 + e[m + 1] - x
      BY <2>3, <2>8
    <3>2. PICK l \in 1 .. k - 1 : InSegment(e, l, v) /\ v = e[l] + 1 + e[l + 1] - y
      BY <2>4, <2>5, <2>8
    <3>3. l = m
      BY <2>1, <3>1, <3>2, SegmentsApart
    <3>4. m \in 1 .. k /\ m + 1 \in 1 .. k
      BY <1>1
    <3>5. e[m] \in Int /\ e[m + 1] \in Int /\ x \in Int /\ y \in Int /\ v \in Int
      BY <3>4, <2>1, <1>1
    <3> QED
      BY <3>1, <3>2, <3>3, <3>5
  <2> QED
    BY <2>7, <2>8
<1>9. IsTour(r)
  BY <1>6, <1>7, <1>8 DEF IsTour
<1> QED
  BY <1>9 DEF r

\* The delta of compute_n_opt_cost is the change of the whole tour's cost, for every number of
\* cuts: it takes away the edges that leave the cuts and adds the ones between the segments.
THEOREM NOptDeltaExact ==
  ASSUME NEW t, IsTour(t), NEW k, NEW e, AreCuts(e, k)
  PROVE  TourCost(NOptMove(t, e)) = TourCost(t) + NOptDelta(t, e)
<1> DEFINE r == NOptMove(t, e)
           N == NumNodes
           P(x) == Upto(t, x)
           C(x, y) == Cost[t[x]][t[y]]
           R(x, y) == Cost[r[x]][r[y]]
           D == NOptDelta(t, e)
           F == C(e[1], e[2])
           L == C(e[k - 1] + 1, e[k] + 1)
           Out(i) == Total(Removed(t, e), i)
           Mid(i) == Total(Middle(t, e), i)
           G(m) == F + Mid(m - 1) - Out(m - 1)
           From(m, x) == e[m] + 1 + e[m + 1] - x
           Inside(m, x) == P(e[m]) + G(m) + P(e[m + 1]) - P(From(m, x))
           The(x) == CHOOSE m \in 1 .. k - 1 : InSegment(e, m, x)
           u == [x \in Positions |->
                   IF x <= e[1] THEN P(x) ELSE IF e[k] < x THEN P(x) + D ELSE Inside(The(x), x)]
<1>0. N \in Nat \ {0} /\ N \in Int /\ k \in Nat \ {0, 1} /\ k \in Int
  BY TourAssumption DEF AreCuts
<1>1. /\ N \in Nat \ {0} /\ k \in Nat \ {0, 1} /\ Len(e) = k
      /\ t \in Arrays
      /\ \A m \in 1 .. k : e[m] \in 0 .. N - 1
      /\ \A m \in 1 .. k - 1 : m \in 1 .. k /\ m + 1 \in 1 .. k /\ e[m] < e[m + 1]
  <2>1. k \in Nat \ {0, 1}
    BY DEF AreCuts
  <2>2. \A m \in 1 .. k - 1 : m \in 1 .. k /\ m + 1 \in 1 .. k /\ m < m + 1
    BY <2>1
  <2> QED
    BY <2>1, <2>2, TourAssumption DEF IsTour, Arrays, AreCuts
<1>2. /\ P(0) = 0
      /\ \A x \in 0 .. N : P(x) \in Int
      /\ \A x \in 1 .. N : P(x) = P(x - 1) + C(x - 1, x)
      /\ TourCost(t) = P(N)
  BY <1>1, UptoFacts DEF Positions
<1>3. \A x, y \in 0 .. N : C(x, y) \in Nat /\ C(x, y) = C(y, x)
  BY <1>1, TourAssumption DEF Arrays, Positions
<1>4. /\ Out(0) = 0
      /\ \A i \in 0 .. k : Out(i) \in Int
      /\ \A i \in 1 .. k : Out(i) = Out(i - 1) + C(e[i], e[i] + 1)
  <2>1. \A i \in 1 .. k : e[i] \in 0 .. N /\ e[i] + 1 \in 0 .. N
    BY <1>1
  <2>2. \A i \in 1 .. k : Removed(t, e)[i] = C(e[i], e[i] + 1)
    BY <1>1 DEF Removed
  <2>3. \A i \in 1 .. k : Removed(t, e)[i] \in Int
    BY <2>1, <2>2, <1>3
  <2>4. /\ Total(Removed(t, e), 0) = 0
        /\ \A i \in 0 .. k : Total(Removed(t, e), i) \in Int
        /\ \A i \in 1 .. k :
             Total(Removed(t, e), i) = Total(Removed(t, e), i - 1) + Removed(t, e)[i]
    BY <2>3, <1>1, TotalStep
  <2> QED
    BY <2>2, <2>4
<1>5. /\ Mid(0) = 0
      /\ \A i \in 0 .. k - 2 : Mid(i) \in Int
      /\ \A i \in 1 .. k - 2 : Mid(i) = Mid(i - 1) + C(e[i] + 1, e[i + 2])
  <2>1. \A i \in 1 .. k - 2 : i \in 1 .. k /\ i + 2 \in 1 .. k
    BY <1>1
  <2>2. \A i \in 1 .. k - 2 : e[i] + 1 \in 0 .. N /\ e[i + 2] \in 0 .. N
    BY <2>1, <1>1
  <2>3. \A i \in 1 .. k - 2 : Middle(t, e)[i] = C(e[i] + 1, e[i + 2])
    BY <1>1 DEF Middle
  <2>4. \A i \in 1 .. k - 2 : Middle(t, e)[i] \in Int
    BY <2>2, <2>3, <1>3
  <2>5. k - 2 \in Nat
    BY <1>1
  <2>6. /\ Total(Middle(t, e), 0) = 0
        /\ \A i \in 0 .. k - 2 : Total(Middle(t, e), i) \in Int
        /\ \A i \in 1 .. k - 2 :
             Total(Middle(t, e), i) = Total(Middle(t, e), i - 1) + Middle(t, e)[i]
    BY <2>4, <2>5, TotalStep
  <2> QED
    BY <2>3, <2>6
<1>6. D = F + Mid(k - 2) + L - Out(k)
  BY <1>1 DEF NOptDelta
<1>7. r \in Arrays
  BY NOptMoveIsTour DEF IsTour, Arrays
<1>8. \A x \in Positions : x <= e[1] \/ e[k] < x => r[x] = t[x]
  BY MovedEntries
<1>9. \A m \in 1 .. k - 1 : \A x \in Positions : InSegment(e, m, x) => r[x] = t[From(m, x)]
  BY MovedEntries
<1>10. \A m \in 1 .. k - 1 : \A x \in Positions :
         InSegment(e, m, x) =>
           /\ \A l \in 1 .. k - 1 : InSegment(e, l, x) => l = m
           /\ e[1] < x /\ x <= e[k]
           /\ From(m, x) \in Positions
  BY SegmentsApart
<1>11. {1, 2, k - 1, k} \subseteq 1 .. k /\ 1 \in 1 .. k - 1 /\ k - 1 \in 1 .. k - 1
  BY <1>1
<1>12. F \in Int /\ L \in Int /\ D \in Int
  <2>1. {e[1], e[2], e[k - 1] + 1, e[k] + 1} \subseteq 0 .. N
    BY <1>1, <1>11
  <2>2. k - 2 \in 0 .. k - 2 /\ k \in 0 .. k
    BY <1>1
  <2>3. F \in Int /\ L \in Int
    BY <2>1, <1>3
  <2>4. Mid(k - 2) \in Int /\ Out(k) \in Int
    BY <2>2, <1>4, <1>5
  <2> HIDE DEF F, L, D, Mid, Out
  <2> QED
    BY <2>3, <2>4, <1>6
<1>13. \A m \in 1 .. k - 1 : G(m) \in Int
  <2>1. \A m \in 1 .. k - 1 : m - 1 \in 0 .. k - 2 /\ m - 1 \in 0 .. k
    BY <1>1
  <2>2. \A m \in 1 .. k - 1 : Mid(m - 1) \in Int /\ Out(m - 1) \in Int
    BY <2>1, <1>4, <1>5
  <2> QED
    BY <2>2, <1>12
<1> HIDE DEF r, P, D, Out, Mid
<1>14. ASSUME NEW m \in 1 .. k - 1, NEW x \in Positions, InSegment(e, m, x)
       PROVE  u[x] = Inside(m, x) /\ u[x] \in Int
  <2>1. e[1] \in Int /\ e[k] \in Int /\ x \in Int /\ e[1] < x /\ x <= e[k]
    BY <1>1, <1>10, <1>11, <1>14 DEF Positions
  <2>2. The(x) = m
    BY <1>10, <1>14
  <2>3. u[x] = Inside(The(x), x)
    BY <2>1
  <2>4. P(e[m]) \in Int /\ P(e[m + 1]) \in Int /\ P(From(m, x)) \in Int
    <3>1. e[m] \in 0 .. N /\ e[m + 1] \in 0 .. N /\ From(m, x) \in 0 .. N
      BY <1>1, <1>10, <1>14 DEF Positions
    <3> QED
      BY <3>1, <1>2
  <2> HIDE DEF u, The
  <2> QED
    BY <2>2, <2>3, <2>4, <1>13
<1>15. \A x \in Positions : x <= e[1] => u[x] = P(x)
  OBVIOUS
<1>16. \A x \in Positions : e[k] < x => u[x] = P(x) + D
  <2>1. e[1] < e[k] /\ e[1] \in Int /\ e[k] \in Int
    BY <1>1, <1>11 DEF AreCuts
  <2>2. \A x \in Positions : x \in Int
    BY DEF Positions
  <2> QED
    BY <2>1, <2>2
<1>17. \A x \in Positions :
         \/ x <= e[1]
         \/ e[k] < x
         \/ \E m \in 1 .. k - 1 : InSegment(e, m, x)
  <2>1. e[1] \in Int /\ e[k] \in Int
    BY <1>1, <1>11
  <2>2. \A x \in Positions : x \in Int
    BY DEF Positions
  <2> QED
    BY <2>1, <2>2, SegmentOf
<1>18. u \in [Positions -> Int]
  <2>1. \A x \in Positions : u[x] \in Int
    BY <1>2, <1>12, <1>14, <1>15, <1>16, <1>17 DEF Positions
  <2> QED
    BY <2>1
<1> HIDE DEF u
<1>19. u[0] = 0 /\ u[N] = P(N) + D
  <2>1. 0 \in Positions /\ N \in Positions /\ 0 <= e[1] /\ e[k] < N
    BY <1>1, <1>11 DEF Positions
  <2> QED
    BY <2>1, <1>2, <1>15, <1>16
<1>20. ASSUME NEW x \in 1 .. N
       PROVE  u[x] = u[x - 1] + R(x - 1, x)
  <2>0. /\ x \in Positions /\ x - 1 \in Positions /\ x \in 0 .. N /\ x - 1 \in 0 .. N
        /\ e[1] \in 0 .. N - 1 /\ e[k] \in 0 .. N - 1
    BY <1>1, <1>11 DEF Positions
  <2>1. CASE x <= e[1]
    <3>1. x - 1 <= e[1]
      BY <2>0, <2>1
    <3>2. u[x] = P(x) /\ u[x - 1] = P(x - 1) /\ R(x - 1, x) = C(x - 1, x)
      BY <2>0, <2>1, <3>1, <1>8, <1>15
    <3> QED
      BY <3>2, <1>2
  <2>2. ASSUME NEW m \in 1 .. k - 1, InSegment(e, m, x), x - 1 = e[m]
        PROVE  u[x] = u[x - 1] + R(x - 1, x)
    <3>1. /\ e[m] \in 0 .. N - 1 /\ e[m + 1] \in 0 .. N - 1 /\ From(m, x) = e[m + 1]
          /\ e[m] \in 0 .. N /\ e[m + 1] \in 0 .. N
      BY <1>1, <2>2, <2>0
    <3>2. P(e[m]) \in Int /\ P(e[m + 1]) \in Int /\ G(m) \in Int
      BY <3>1, <1>2, <1>13
    <3>3. u[x] = P(e[m]) + G(m)
      <4>1. u[x] = P(e[m]) + G(m) + P(e[m + 1]) - P(e[m + 1])
        BY <3>1, <2>0, <2>2, <1>14
      <4> HIDE DEF G
      <4> QED
        BY <4>1, <3>2
    <3>4. r[x] = t[e[m + 1]]
      BY <3>1, <2>0, <2>2, <1>9
    <3>5. CASE m = 1
      <4>1. x - 1 <= e[1] /\ x - 1 = e[1]
        BY <2>0, <2>2, <3>5
      <4>2. u[x - 1] = P(e[1]) /\ r[x - 1] = t[e[1]]
        BY <4>1, <2>0, <1>8, <1>15
      <4>3. R(x - 1, x) = F
        BY <4>2, <3>4, <3>5
      <4>4. G(m) = F
        BY <3>5, <1>4, <1>5, <1>12
      <4> HIDE DEF G, F
      <4> QED
        BY <4>2, <4>3, <4>4, <3>3, <3>5
    <3>6. CASE m # 1
      <4>0. PICK l \in 1 .. k - 2 : l = m - 1
        BY <3>6, <1>1
      <4>1. /\ l \in 1 .. k - 1 /\ l + 1 = m /\ l \in 1 .. k - 2 /\ l \in 1 .. k /\ l + 2 = m + 1
            /\ l - 1 \in 0 .. k - 2 /\ l - 1 \in 0 .. k
        BY <4>0, <1>1
      <4>2. e[l] \in 0 .. N - 1 /\ e[l] < e[m] /\ e[l + 1] = e[m]
        BY <4>1, <1>1
      <4>3. InSegment(e, l, x - 1)
        BY <4>1, <4>2, <2>0, <2>2, <3>1 DEF InSegment
      <4>4. From(l, x - 1) = e[l] + 1 /\ e[l] + 1 \in 1 .. N /\ (e[l] + 1) - 1 = e[l]
        <5>1. From(l, x - 1) = e[l] + 1 + e[m] - e[m]
          BY <4>2, <2>2
        <5>2. e[l] \in Int /\ e[m] \in Int /\ e[l] <= N - 1 /\ 0 <= e[l]
          BY <4>2, <3>1
        <5> HIDE DEF From
        <5> QED
          BY <5>1, <5>2, <1>0
      <4>11. e[l] \in 0 .. N /\ e[l] + 1 \in 0 .. N /\ e[l + 2] \in 0 .. N
        BY <4>1, <4>2, <4>4, <3>1, <1>0
      <4>5. u[x - 1] = P(e[l]) + G(l) + P(e[m]) - P(e[l] + 1)
        BY <4>1, <4>2, <4>3, <4>4, <2>0, <1>14
      <4>6. r[x - 1] = t[e[l] + 1]
        BY <4>1, <4>3, <4>4, <2>0, <1>9
      <4>7. R(x - 1, x) = C(e[l] + 1, e[l + 2])
        BY <4>1, <4>6, <3>4
      <4>8. P(e[l] + 1) = P(e[l]) + C(e[l], e[l] + 1)
        BY <4>4, <1>2
      <4>9. G(m) = G(l) + C(e[l] + 1, e[l + 2]) - C(e[l], e[l] + 1)
        <5>1. Mid(l) = Mid(l - 1) + C(e[l] + 1, e[l + 2]) /\ Out(l) = Out(l - 1) + C(e[l], e[l] + 1)
          BY <4>1, <1>4, <1>5
        <5>3. Mid(l - 1) \in Int /\ Out(l - 1) \in Int
          BY <4>1, <1>4, <1>5
        <5>4. G(m) = F + Mid(l) - Out(l) /\ G(l) = F + Mid(l - 1) - Out(l - 1)
          BY <4>0
        <5>5. C(e[l] + 1, e[l + 2]) \in Int /\ C(e[l], e[l] + 1) \in Int
          BY <4>11, <1>3
        <5> HIDE DEF G, F, C
        <5> QED
          BY <5>1, <5>3, <5>4, <5>5, <1>12
      <4>10. /\ P(e[l]) \in Int /\ G(l) \in Int /\ C(e[l], e[l] + 1) \in Int
             /\ C(e[l] + 1, e[l + 2]) \in Int
        BY <4>1, <4>11, <1>2, <1>3, <1>13
      <4> HIDE DEF G
      <4> QED
        BY <4>5, <4>7, <4>8, <4>9, <4>10, <3>2, <3>3
    <3> QED
      BY <3>5, <3>6
  <2>3. ASSUME NEW m \in 1 .. k - 1, InSegment(e, m, x), x - 1 # e[m]
        PROVE  u[x] = u[x - 1] + R(x - 1, x)
    <3>0. PICK y \in Positions : y = From(m, x)
      BY <2>0, <2>3, <1>10
    <3>1. e[m] \in 0 .. N - 1 /\ e[m + 1] \in 0 .. N - 1 /\ e[m] < x /\ x <= e[m + 1]
      BY <1>1, <2>3 DEF InSegment
    <3>2. InSegment(e, m, x - 1)
      BY <3>1, <2>0, <2>3 DEF InSegment
    <3>3. From(m, x - 1) = y + 1 /\ y \in 0 .. N - 1 /\ y + 1 \in 1 .. N /\ (y + 1) - 1 = y
      <4>1. From(m, x - 1) = From(m, x) + 1
        BY <2>0, <3>1
      <4>2. y <= e[m] + 1 + e[m + 1] - (e[m] + 2) /\ e[m] + 1 <= y
        <5>1. e[m] + 2 <= x
          BY <2>0, <2>3, <3>1
        <5> QED
          BY <5>1, <2>0, <3>0, <3>1
      <4>3. y \in Int /\ y <= e[m + 1] - 1 /\ e[m + 1] <= N - 1 /\ 0 <= e[m] /\ e[m] \in Int /\ e[m + 1] \in Int
        BY <3>0, <3>1, <4>2, <1>0 DEF Positions
      <4> HIDE DEF From
      <4> QED
        BY <4>1, <4>2, <4>3, <3>0, <1>0
    <3>4. u[x] = P(e[m]) + G(m) + P(e[m + 1]) - P(y)
      BY <2>0, <2>3, <3>0, <1>14
    <3>5. u[x - 1] = P(e[m]) + G(m) + P(e[m + 1]) - P(y + 1)
      BY <2>0, <3>2, <3>3, <1>14
    <3>6. r[x] = t[y] /\ r[x - 1] = t[y + 1]
      BY <2>0, <2>3, <3>0, <3>2, <3>3, <1>9
    <3>7. y \in 0 .. N /\ y + 1 \in 0 .. N /\ e[m] \in 0 .. N /\ e[m + 1] \in 0 .. N
      <4> HIDE DEF From
      <4> QED
        BY <3>1, <3>3, <1>1
    <3>8. R(x - 1, x) = C(y, y + 1)
      BY <3>6, <3>7, <1>3
    <3>9. P(y + 1) = P(y) + C(y, y + 1)
      BY <3>3, <1>2
    <3>10. /\ P(y) \in Int /\ P(e[m]) \in Int /\ P(e[m + 1]) \in Int /\ G(m) \in Int
           /\ C(y, y + 1) \in Int
      BY <3>7, <1>2, <1>3, <1>13
    <3> HIDE DEF G
    <3> QED
      BY <3>4, <3>5, <3>8, <3>9, <3>10
  <2>4. CASE e[k] < x /\ x - 1 = e[k]
    <3>0. PICK l \in 1 .. k - 1 : l = k - 1
      BY <1>1
    <3>1. /\ l \in 1 .. k - 1 /\ l + 1 = k /\ l \in 1 .. k /\ k \in 1 .. k /\ k - 2 = l - 1
          /\ k - 1 = l /\ l - 1 \in 0 .. k /\ l - 1 \in 0 .. k - 2
      BY <3>0, <1>1
    <3>2. e[l] \in 0 .. N - 1 /\ e[k] \in 0 .. N - 1 /\ e[l] < e[k]
      BY <3>1, <1>1
    <3>3. InSegment(e, l, x - 1)
      BY <2>4, <3>1, <3>2, <2>0 DEF InSegment
    <3>4. /\ From(l, x - 1) = e[l] + 1 /\ e[l] + 1 \in 1 .. N /\ (e[l] + 1) - 1 = e[l]
          /\ e[k] + 1 \in 1 .. N /\ (e[k] + 1) - 1 = e[k] /\ x = e[k] + 1
      BY <2>4, <3>1, <3>2, <2>0, <1>1
    <3>5. u[x - 1] = P(e[l]) + G(l) + P(e[k]) - P(e[l] + 1)
      BY <3>1, <3>3, <3>4, <2>0, <1>14
    <3>6. u[x] = P(e[k] + 1) + D
      BY <2>0, <2>4, <3>4, <1>16
    <3>7. R(x - 1, x) = L
      <4>1. r[x - 1] = t[e[l] + 1]
        BY <3>1, <3>3, <3>4, <2>0, <1>9
      <4>2. r[x] = t[e[k] + 1]
        BY <3>4, <2>4, <2>0, <1>8
      <4> QED
        BY <4>1, <4>2, <3>1
    <3>8. P(e[l] + 1) = P(e[l]) + C(e[l], e[l] + 1) /\ P(e[k] + 1) = P(e[k]) + C(e[k], e[k] + 1)
      BY <3>4, <1>2
    <3>9. G(l) = F + Mid(l - 1) - Out(l - 1)
      OBVIOUS
    <3>10. Out(k) = Out(l) + C(e[k], e[k] + 1) /\ Out(l) = Out(l - 1) + C(e[l], e[l] + 1)
      BY <3>1, <1>4
    <3>11. Mid(l - 1) \in Int /\ Out(l - 1) \in Int
      BY <3>1, <1>4, <1>5
    <3>12. /\ P(e[l]) \in Int /\ P(e[k]) \in Int
           /\ C(e[l], e[l] + 1) \in Int /\ C(e[k], e[k] + 1) \in Int
      <4>1. e[l] \in 0 .. N /\ e[l] + 1 \in 0 .. N /\ e[k] \in 0 .. N /\ e[k] + 1 \in 0 .. N
        <5> HIDE DEF From
        <5> QED
          BY <3>2, <3>4, <1>0
      <4> QED
        BY <4>1, <1>2, <1>3
    <3>13. D = F + Mid(l - 1) + L - Out(k)
      BY <3>1, <1>6
    <3> HIDE DEF G, F, L, C, R, From
    <3> QED
      BY <3>5, <3>6, <3>7, <3>8, <3>9, <3>10, <3>11, <3>12, <3>13, <1>12
  <2>5. CASE e[k] < x /\ x - 1 # e[k]
    <3>1. e[k] < x - 1
      BY <2>0, <2>5
    <3>2. u[x] = P(x) + D /\ u[x - 1] = P(x - 1) + D /\ R(x - 1, x) = C(x - 1, x)
      BY <2>0, <2>5, <3>1, <1>8, <1>16
    <3>3. P(x) = P(x - 1) + C(x - 1, x) /\ P(x - 1) \in Int /\ C(x - 1, x) \in Int
      BY <2>0, <1>2, <1>3
    <3> QED
      BY <3>2, <3>3, <1>12
  <2> QED
    BY <2>0, <2>1, <2>2, <2>3, <2>4, <2>5, <1>17
<1>21. TourCost(r) = u[N]
  BY <1>7, <1>18, <1>19, <1>20, CostByParts
<1>22. TourCost(r) = TourCost(t) + D
  BY <1>2, <1>19, <1>21
<1> QED
  BY <1>22 DEF r, D

-----------------------------------------------------------------------------
\* The scans.  Of any set of pairs of positions, one is visited first.
LEMMA FirstPair ==
  ASSUME NEW S \in SUBSET (Nat \X Nat), S # {}
  PROVE  \E p \in S : \A q \in S \ {p} : Before(p, q)
<1> DEFINE Rows == {p[1] : p \in S}
<1>1. \A p \in S : p[1] \in Nat /\ p[2] \in Nat /\ p = <<p[1], p[2]>>
  OBVIOUS
<1>2. PICK i \in Rows : \A n \in Rows : i <= n
  <2>1. Rows \in SUBSET Nat /\ Rows # {}
    BY <1>1
  <2> HIDE DEF Rows
  <2> QED
    BY <2>1, Least
<1> DEFINE Columns == {p[2] : p \in {q \in S : q[1] = i}}
<1>3. PICK j \in Columns : \A n \in Columns : j <= n
  <2>1. Columns \in SUBSET Nat /\ Columns # {}
    BY <1>1, <1>2
  <2> HIDE DEF Columns
  <2> QED
    BY <2>1, Least
<1>4. PICK p \in S : p[1] = i /\ p[2] = j
  BY <1>3
<1>5. ASSUME NEW q \in S \ {p}
      PROVE  Before(p, q)
  <2>1. i <= q[1] /\ i \in Nat /\ q[1] \in Nat
    BY <1>1, <1>2
  <2>2. CASE q[1] = i
    <3>1. j <= q[2] /\ j \in Nat /\ q[2] \in Nat
      BY <1>1, <1>3, <2>2
    <3>2. q[2] # j
      BY <1>1, <1>4, <2>2
    <3> QED
      BY <1>4, <2>2, <3>1, <3>2 DEF Before
  <2>3. CASE q[1] # i
    BY <1>4, <2>1, <2>3 DEF Before
  <2> QED
    BY <2>2, <2>3
<1> QED
  BY <1>5

\* What the two_opt step finds is an improving pair, and the pairs it does not look for an
\* improvement in cannot give one: the reversal of everything but position 0 is free.
LEMMA ScanFacts ==
  ASSUME NEW t, IsTour(t)
  PROVE  /\ \A p \in Pairs : /\ p[1] \in 1 .. NumNodes - 1 /\ p[2] \in 1 .. NumNodes - 1
                             /\ p[1] < p[2]
         /\ Improving(t) # {} => FirstImproving(t) \in Improving(t)
         /\ Improving(t) \subseteq Pairs
<1>1. Improving(t) \subseteq Pairs
  BY DEF Improving
<1>2. Improving(t) # {} => FirstImproving(t) \in Improving(t)
  <2>1. Pairs \subseteq Nat \X Nat
    BY TourAssumption DEF Pairs
  <2>2. Improving(t) \in SUBSET (Nat \X Nat)
    BY <1>1, <2>1
  <2> QED
    BY <2>2, FirstPair DEF FirstImproving
<1>3. \A p \in Pairs : /\ p[1] \in 1 .. NumNodes - 1 /\ p[2] \in 1 .. NumNodes - 1
                       /\ p[1] < p[2]
  BY TourAssumption DEF Pairs
<1> QED
  BY <1>1, <1>2, <1>3

\* The delta is an integer.
LEMMA TwoOptDeltaInt ==
  ASSUME NEW t \in Arrays, NEW i \in 1 .. NumNodes - 1, NEW j \in 1 .. NumNodes - 1
  PROVE  TwoOptDelta(t, i, j) \in Int
<1>1. t[i - 1] \in Nodes /\ t[i] \in Nodes /\ t[j] \in Nodes /\ t[j + 1] \in Nodes
  BY TourAssumption DEF Arrays, Positions
<1>2. /\ Cost[t[i - 1]][t[j]] \in Nat /\ Cost[t[i]][t[j + 1]] \in Nat
      /\ Cost[t[i - 1]][t[i]] \in Nat /\ Cost[t[j]][t[j + 1]] \in Nat
  BY <1>1, TourAssumption
<1> QED
  BY <1>2 DEF TwoOptDelta

\* A tour and a cost that belong together.
Priced(c) == /\ c \in [tour : Arrays, cost : Int]
             /\ IsTour(c.tour)
             /\ c.cost = TourCost(c.tour)

\* A step of the descent keeps the cost that of the tour, makes it smaller by more than Eps and
\* leaves position 0 alone.
LEMMA DescendFacts ==
  ASSUME NEW c, Priced(c), Improving(c.tour) # {}
  PROVE  /\ Priced(Descend(c))
         /\ Descend(c).cost < c.cost - Eps
         /\ Descend(c).tour[0] = c.tour[0]
<1> DEFINE t == c.tour
           p == FirstImproving(t)
<1>1. IsTour(t) /\ c.cost = TourCost(t) /\ t \in Arrays
  BY DEF Priced, IsTour, Arrays
<1>2. p \in Improving(t) /\ p \in Pairs
  BY <1>1, ScanFacts
<1>3. TwoOptDelta(t, p[1], p[2]) < -Eps
  BY <1>2 DEF Improving
<1>4. p[1] \in 1 .. NumNodes - 1 /\ p[2] \in 1 .. NumNodes - 1 /\ p[1] < p[2]
  BY <1>1, <1>2, ScanFacts
<1> DEFINE r == Reversed(t, p[1], p[2])
<1>5. IsTour(r) /\ r \in Arrays
  BY <1>1, <1>4, ReversedIsTour DEF IsTour, Arrays
<1>6. TourCost(r) = TourCost(t) + TwoOptDelta(t, p[1], p[2])
  BY <1>1, <1>4, TwoOptDeltaExact
<1>7. TourCost(r) \in Nat /\ TourCost(t) \in Nat
  BY <1>1, <1>5, TourFacts
<1>8. TwoOptDelta(t, p[1], p[2]) \in Int
  BY <1>1, <1>4, TwoOptDeltaInt
<1>9. r[0] = t[0]
  <2>1. 0 \in 0 .. p[1] - 1
    BY <1>4
  <2> QED
    BY <2>1, <1>1, <1>4, ReversedEdges
<1>10. Descend(c) = [tour |-> r, cost |-> c.cost + TwoOptDelta(t, p[1], p[2])]
  BY DEF Descend
<1>11. Descend(c).tour = r /\ Descend(c).cost = TourCost(t) + TwoOptDelta(t, p[1], p[2])
  BY <1>10, <1>1
<1> HIDE DEF t, p, r
<1>12. Priced(Descend(c))
  BY <1>5, <1>6, <1>7, <1>10, <1>11 DEF Priced
<1>13. Descend(c).cost < c.cost - Eps
  BY <1>1, <1>3, <1>7, <1>8, <1>11, TourAssumption
<1> QED
  BY <1>9, <1>11, <1>12, <1>13 DEF t

\* Where two_opt stops, every reversal of a segment costs at most Eps less, also the pair its
\* loops leave out.
THEOREM LocalOptimum ==
  ASSUME NEW t, IsTour(t), Improving(t) = {},
         NEW i \in 1 .. NumNodes - 1, NEW j \in 1 .. NumNodes - 1, i < j
  PROVE  TourCost(Reversed(t, i, j)) >= TourCost(t) - Eps
<1>1. t \in Arrays /\ t[NumNodes] = t[0] /\ NumNodes \in Nat \ {0} /\ Eps \in Nat
  BY TourAssumption DEF IsTour, Arrays
<1>2. TourCost(Reversed(t, i, j)) = TourCost(t) + TwoOptDelta(t, i, j)
  BY TwoOptDeltaExact
<1>3. TourCost(t) \in Nat
  BY <1>1, TourFacts
<1>4. TourCost(Reversed(t, i, j)) \in Nat
  BY ReversedIsTour, TourFacts DEF IsTour, Arrays
<1>5. t[i - 1] \in Nodes /\ t[i] \in Nodes /\ t[j] \in Nodes /\ t[j + 1] \in Nodes
  BY <1>1 DEF Arrays, Positions
<1>6. TwoOptDelta(t, i, j) \in Int
  BY <1>1, TwoOptDeltaInt
<1>7. <<i, j>> \in Pairs
  BY <1>1 DEF Pairs
<1>8. CASE <<i, j>> # <<1, NumNodes - 1>>
  <2>1. ~(TwoOptDelta(t, i, j) < -Eps)
    BY <1>7, <1>8 DEF Improving
  <2> QED
    BY <2>1, <1>1, <1>2, <1>3, <1>6
<1>9. CASE <<i, j>> = <<1, NumNodes - 1>>
  <2>1. i = 1 /\ j = NumNodes - 1 /\ j + 1 = NumNodes /\ i - 1 = 0
    BY <1>1, <1>9
  <2> DEFINE a == t[0]
             b == t[i]
             c == t[j]
  <2>2. TwoOptDelta(t, i, j) = Cost[a][c] + Cost[b][a] - (Cost[a][b] + Cost[c][a])
    BY <2>1, <1>1 DEF TwoOptDelta
  <2>3. /\ Cost[a][c] = Cost[c][a] /\ Cost[b][a] = Cost[a][b]
        /\ Cost[a][c] \in Nat /\ Cost[b][a] \in Nat
    BY <1>5, <2>1, TourAssumption
  <2>4. TwoOptDelta(t, i, j) = 0
    BY <2>2, <2>3
  <2> QED
    BY <2>4, <1>1, <1>2, <1>3
<1> QED
  BY <1>8, <1>9

-----------------------------------------------------------------------------
\* With two cuts compute_n_opt_move reverses the segment that the scan priced.
LEMMA TwoCutsReverse ==
  ASSUME NEW t \in Arrays, NEW i \in 1 .. NumNodes - 1, NEW j \in 1 .. NumNodes - 1, i < j
  PROVE  NOptMove(t, <<i - 1, j>>) = Reversed(t, i, j)
<1> DEFINE e == <<i - 1, j>>
<1>1. NumNodes \in Nat \ {0} /\ e[1] = i - 1 /\ e[2] = j /\ i \in Int /\ j \in Int
  BY TourAssumption
<1>2. AreCuts(e, 2)
  BY <1>1, TwoCuts
<1>3. ASSUME NEW x \in Positions
      PROVE  NOptMove(t, e)[x] = Reversed(t, i, j)[x]
  <2>1. x \in Int
    BY DEF Positions
  <2>2. CASE i <= x /\ x <= j
    <3>1. InSegment(e, 1, x) /\ 1 \in 1 .. 2 - 1
      BY <1>1, <2>1, <2>2 DEF InSegment
    <3>2. NOptMove(t, e)[x] = t[e[1] + 1 + e[1 + 1] - x]
      BY <1>2, <3>1, MovedEntries
    <3>3. e[1] + 1 + e[1 + 1] - x = i + j - x
      BY <1>1, <2>1
    <3> QED
      BY <2>2, <3>2, <3>3 DEF Reversed
  <2>3. CASE ~(i <= x /\ x <= j)
    <3>1. x <= e[1] \/ e[2] < x
      BY <1>1, <2>1, <2>3
    <3>2. NOptMove(t, e)[x] = t[x]
      BY <1>2, <3>1, MovedEntries
    <3> QED
      BY <2>3, <3>2 DEF Reversed
  <2> QED
    BY <2>2, <2>3
<1>4. /\ NOptMove(t, e) = [x \in Positions |-> NOptMove(t, e)[x]]
      /\ Reversed(t, i, j) = [x \in Positions |-> Reversed(t, i, j)[x]]
  BY DEF NOptMove, Reversed
<1> QED
  BY <1>3, <1>4

\* No edge of a tour is a loop, and the next node's position is one further.
LEMMA EdgeFacts ==
  ASSUME NEW t, IsTour(t), NumNodes # 1, NEW x \in Nodes
  PROVE  /\ x \in Positions /\ x + 1 \in Positions
         /\ t[x] \in Nodes /\ t[x + 1] \in Nodes /\ t[x] # t[x + 1]
<1>1. NumNodes \in Nat \ {0, 1}
  BY TourAssumption
<1>2. /\ x \in Positions /\ x + 1 \in Positions /\ t[x] \in Nodes /\ t[x + 1] \in Nodes
  BY <1>1 DEF IsTour, Positions, Nodes
<1>3. t[x] # t[x + 1]
  <2>1. CASE x + 1 = NumNodes
    <3>1. t[x + 1] = t[0] /\ 0 \in Nodes /\ x # 0
      BY <1>1, <2>1 DEF IsTour, Nodes
    <3> QED
      BY <3>1 DEF IsTour
  <2>2. CASE x + 1 # NumNodes
    <3>1. x + 1 \in Nodes /\ x + 1 # x
      BY <1>1, <2>2 DEF Nodes
    <3> QED
      BY <3>1 DEF IsTour
  <2> QED
    BY <2>1, <2>2
<1> QED
  BY <1>2, <1>3

\* A reversal creates no other edges than the two it pays for.
LEMMA NewEdges ==
  ASSUME NEW t, IsTour(t), NEW i \in 1 .. NumNodes - 1, NEW j \in 1 .. NumNodes - 1, i < j
  PROVE  /\ EdgesOf(Reversed(t, i, j)) \ EdgesOf(t)
              \subseteq {{t[i - 1], t[j]}, {t[i], t[j + 1]}}
         /\ {t[i - 1], t[j]} \in EdgesOf(Reversed(t, i, j))
<1> DEFINE r == Reversed(t, i, j)
<1>1. NumNodes \in Nat \ {0} /\ i \in Int /\ j \in Int
  BY TourAssumption
<1>2. /\ \A x \in 0 .. i - 1 : r[x] = t[x]
      /\ \A x \in i .. j : r[x] = t[i + j - x]
      /\ \A x \in j + 1 .. NumNodes : r[x] = t[x]
  BY ReversedEdges
<1> HIDE DEF r
<1>3. ASSUME NEW x \in Nodes
      PROVE  {r[x], r[x + 1]} \in EdgesOf(t) \cup {{t[i - 1], t[j]}, {t[i], t[j + 1]}}
  <2>0. x \in 0 .. NumNodes - 1
    BY DEF Nodes
  <2>1. CASE x < i - 1
    <3>1. x \in 0 .. i - 1 /\ x + 1 \in 0 .. i - 1
      BY <1>1, <2>0, <2>1
    <3>2. r[x] = t[x] /\ r[x + 1] = t[x + 1]
      BY <3>1, <1>2
    <3> QED
      BY <3>2 DEF EdgesOf
  <2>2. CASE x = i - 1
    <3>1. x \in 0 .. i - 1 /\ x + 1 \in i .. j /\ i + j - (x + 1) = j
      BY <1>1, <2>0, <2>2
    <3>2. r[x] = t[i - 1] /\ r[x + 1] = t[j]
      BY <3>1, <2>2, <1>2
    <3> QED
      BY <3>2
  <2>3. CASE i <= x /\ x < j
    <3>1. x \in i .. j /\ x + 1 \in i .. j
      BY <1>1, <2>0, <2>3
    <3>2. PICK y \in Nodes : y = i + j - (x + 1) /\ i + j - x = y + 1
      <4>1. i + j - (x + 1) \in Nodes /\ i + j - x = (i + j - (x + 1)) + 1
        BY <1>1, <2>0, <2>3 DEF Nodes
      <4> QED
        BY <4>1
    <3>3. r[x] = t[y + 1] /\ r[x + 1] = t[y]
      BY <3>1, <3>2, <1>2
    <3> QED
      BY <3>3 DEF EdgesOf
  <2>4. CASE x = j
    <3>1. x \in i .. j /\ x + 1 \in j + 1 .. NumNodes /\ i + j - x = i
      BY <1>1, <2>0, <2>4
    <3>2. r[x] = t[i] /\ r[x + 1] = t[j + 1]
      BY <3>1, <2>4, <1>2
    <3> QED
      BY <3>2
  <2>5. CASE j < x
    <3>1. x \in j + 1 .. NumNodes /\ x + 1 \in j + 1 .. NumNodes
      BY <1>1, <2>0, <2>5
    <3>2. r[x] = t[x] /\ r[x + 1] = t[x + 1]
      BY <3>1, <1>2
    <3> QED
      BY <3>2 DEF EdgesOf
  <2>6. x < i - 1 \/ x = i - 1 \/ (i <= x /\ x < j) \/ x = j \/ j < x
    BY <2>0, <1>1
  <2> QED
    BY <2>1, <2>2, <2>3, <2>4, <2>5, <2>6
<1>4. \A z \in EdgesOf(r) : \E x \in Nodes : z = {r[x], r[x + 1]}
  BY DEF EdgesOf
<1>5. EdgesOf(r) \ EdgesOf(t) \subseteq {{t[i - 1], t[j]}, {t[i], t[j + 1]}}
  BY <1>3, <1>4
<1>6. {t[i - 1], t[j]} \in EdgesOf(r)
  <2>1. /\ i - 1 \in Nodes /\ i - 1 \in 0 .. i - 1 /\ i \in i .. j
        /\ (i - 1) + 1 = i /\ i + j - i = j
    BY <1>1 DEF Nodes
  <2>2. r[i - 1] = t[i - 1] /\ r[(i - 1) + 1] = t[j]
    BY <2>1, <1>2
  <2> QED
    BY <2>1, <2>2 DEF EdgesOf
<1> QED
  BY <1>5, <1>6 DEF r

\* The only reversal that creates no edge is the one that turns the whole tour round.
LEMMA OnlyTurn ==
  ASSUME NEW t, IsTour(t), NEW i \in 1 .. NumNodes - 1, NEW j \in 1 .. NumNodes - 1, i < j,
         EdgesOf(Reversed(t, i, j)) = EdgesOf(t)
  PROVE  i = 1 /\ j = NumNodes - 1
<1>1. NumNodes \in Nat \ {0, 1} /\ i \in Int /\ j \in Int
  BY TourAssumption
<1>2. {t[i - 1], t[j]} \in EdgesOf(t)
  BY NewEdges
<1>3. PICK x \in Nodes : {t[i - 1], t[j]} = {t[x], t[x + 1]}
  BY <1>2 DEF EdgesOf
<1>4. i - 1 \in Nodes /\ j \in Nodes /\ x \in 0 .. NumNodes - 1 /\ 0 \in Nodes
  BY <1>1 DEF Nodes
<1>5. x + 1 = NumNodes => t[x + 1] = t[0]
  BY DEF IsTour
<1>6. x + 1 # NumNodes => x + 1 \in Nodes
  BY <1>1, <1>4 DEF Nodes
<1>7. CASE t[i - 1] = t[x] /\ t[j] = t[x + 1]
  <2>1. x = i - 1
    BY <1>4, <1>7 DEF IsTour
  <2>2. CASE x + 1 = NumNodes
    BY <1>1, <2>1, <2>2
  <2>3. CASE x + 1 # NumNodes
    <3>1. j = x + 1
      BY <1>4, <1>6, <1>7, <2>3 DEF IsTour
    <3> QED
      BY <1>1, <2>1, <3>1
  <2> QED
    BY <2>2, <2>3
<1>8. CASE t[i - 1] = t[x + 1] /\ t[j] = t[x]
  <2>1. x = j
    BY <1>4, <1>8 DEF IsTour
  <2>2. CASE x + 1 = NumNodes
    <3>1. i - 1 = 0
      BY <1>4, <1>5, <1>8, <2>2 DEF IsTour
    <3> QED
      BY <1>1, <2>1, <2>2, <3>1
  <2>3. CASE x + 1 # NumNodes
    <3>1. i - 1 = x + 1
      BY <1>4, <1>6, <1>8, <2>3 DEF IsTour
    <3> QED
      BY <1>1, <2>1, <3>1
  <2> QED
    BY <2>2, <2>3
<1>9. \/ t[i - 1] = t[x] /\ t[j] = t[x + 1]
      \/ t[i - 1] = t[x + 1] /\ t[j] = t[x]
  <2>1. t[i - 1] # t[j]
    BY <1>1, <1>4 DEF IsTour
  <2> QED
    BY <1>3, <2>1
<1> QED
  BY <1>7, <1>8, <1>9

-----------------------------------------------------------------------------
\* Components.  Grown(x, r): the nodes of r and their neighbours; Spreads(u, x, v): u holds
\* what dfs from v has reached after each round.
Grown(x, r) == r \cup {j \in Nodes : \E i \in r : {i, j} \in x}

Spreads(u, x, v, n) ==
  /\ u \in [0 .. n -> SUBSET Nodes]
  /\ u[0] = {v}
  /\ \A k \in 1 .. n : u[k] = Grown(x, u[k - 1])

\* There are NumNodes nodes, finitely many.
LEMMA NodesFacts ==
  /\ NumNodes \in Nat \ {0}
  /\ IsFiniteSet(Nodes) /\ Cardinality(Nodes) = NumNodes
  /\ 0 \in Nodes
<1>1. NumNodes \in Nat \ {0}
  BY TourAssumption
<1>2. IsFiniteSet(0 .. NumNodes - 1) /\ Cardinality(0 .. NumNodes - 1) = NumNodes
  BY <1>1, FS_Interval
<1> QED
  BY <1>1, <1>2 DEF Nodes

\* The rounds can be gone through.
LEMMA SpreadExists ==
  ASSUME NEW x, NEW v \in Nodes, NEW n \in Nat
  PROVE  \E u : Spreads(u, x, v, n)
<1> DEFINE S == {m \in Nat : \E u : Spreads(u, x, v, m)}
<1>1. 0 \in S
  <2>1. Spreads([k \in 0 .. 0 |-> {v}], x, v, 0)
    BY DEF Spreads
  <2> QED
    BY <2>1
<1>2. ASSUME NEW m \in Nat, m \in S
      PROVE  m + 1 \in S
  <2>1. PICK u : Spreads(u, x, v, m)
    BY <1>2
  <2> DEFINE w == [k \in 0 .. m + 1 |-> IF k = m + 1 THEN Grown(x, u[m]) ELSE u[k]]
  <2>2. Grown(x, u[m]) \in SUBSET Nodes
    BY <2>1 DEF Spreads, Grown
  <2>3. w \in [0 .. m + 1 -> SUBSET Nodes] /\ w[0] = {v}
    BY <2>1, <2>2 DEF Spreads
  <2>4. ASSUME NEW k \in 1 .. m + 1
        PROVE  w[k] = Grown(x, w[k - 1])
    <3>1. w[k - 1] = u[k - 1]
      OBVIOUS
    <3>2. w[k] = Grown(x, u[k - 1])
      <4>1. CASE k = m + 1
        BY <4>1
      <4>2. CASE k # m + 1
        <5>1. k \in 1 .. m /\ w[k] = u[k]
          BY <4>2
        <5> QED
          BY <2>1, <5>1 DEF Spreads
      <4> QED
        BY <4>1, <4>2
    <3> QED
      BY <3>1, <3>2
  <2>5. Spreads(w, x, v, m + 1)
    <3> HIDE DEF w
    <3> QED
      BY <2>3, <2>4 DEF Spreads
  <2> QED
    BY <2>5
<1>3. Nat \subseteq S
  <2> HIDE DEF S
  <2> QED
    BY <1>1, <1>2, Induct
<1> QED
  BY <1>3

\* Component is what the last round has reached.
LEMMA ComponentIs ==
  ASSUME NEW x, NEW v \in Nodes
  PROVE  \E u : Spreads(u, x, v, NumNodes) /\ Component(x, v) = u[NumNodes]
<1> DEFINE Loop(f) == [k \in 0 .. NumNodes |->
                         IF k = 0 THEN {v}
                         ELSE LET r == f[k - 1]
                              IN  r \cup {j \in Nodes : \E i \in r : {i, j} \in x}]
           w == CHOOSE f : f = Loop(f)
<1>1. Component(x, v) = w[NumNodes]
  BY DEF Component
<1>2. NumNodes \in Nat
  BY NodesFacts
<1>3. PICK u : Spreads(u, x, v, NumNodes)
  BY <1>2, SpreadExists
<1>4. u = Loop(u)
  <2>1. \A k \in 0 .. NumNodes : k # 0 => k \in 1 .. NumNodes
    BY <1>2
  <2>2. \A k \in 0 .. NumNodes : u[k] = IF k = 0 THEN {v} ELSE Grown(x, u[k - 1])
    BY <2>1, <1>3 DEF Spreads
  <2>3. u = [k \in 0 .. NumNodes |-> IF k = 0 THEN {v} ELSE Grown(x, u[k - 1])]
    BY <2>2, <1>3 DEF Spreads
  <2> QED
    BY <2>3 DEF Grown
<1>5. w = Loop(w)
  <2> HIDE DEF Loop
  <2> QED
    BY <1>4
<1>6. \A k \in 0 .. NumNodes : w[k] = IF k = 0 THEN {v} ELSE Grown(x, w[k - 1])
  <2> HIDE DEF w
  <2>1. \A k \in 0 .. NumNodes :
          w[k] = IF k = 0 THEN {v} ELSE w[k - 1] \cup {j \in Nodes : \E i \in w[k - 1] : {i, j} \in x}
    BY <1>5
  <2> QED
    BY <2>1 DEF Grown
<1> HIDE DEF w
<1>7. \A k \in 1 .. NumNodes : w[k] = Grown(x, w[k - 1])
  <2>1. \A k \in 1 .. NumNodes : k \in 0 .. NumNodes /\ k # 0
    BY <1>2
  <2> QED
    BY <1>6, <2>1
<1>8. w[0] = {v} /\ u[0] = {v}
  <2>1. 0 \in 0 .. NumNodes
    BY <1>2
  <2> QED
    BY <2>1, <1>3, <1>6 DEF Spreads
<1> DEFINE S == {m \in Nat : m <= NumNodes => w[m] = u[m]}
<1>9. 0 \in S
  BY <1>8
<1>10. ASSUME NEW m \in Nat, m \in S
       PROVE  m + 1 \in S
  <2> SUFFICES ASSUME m + 1 <= NumNodes
               PROVE  w[m + 1] = u[m + 1]
    OBVIOUS
  <2>1. w[m] = u[m] /\ m + 1 \in 1 .. NumNodes /\ (m + 1) - 1 = m
    BY <1>2, <1>10
  <2> QED
    BY <2>1, <1>3, <1>7 DEF Spreads
<1>11. Nat \subseteq S
  <2> HIDE DEF S
  <2> QED
    BY <1>9, <1>10, Induct
<1>12. w[NumNodes] = u[NumNodes]
  BY <1>2, <1>11
<1> QED
  BY <1>1, <1>3, <1>12

\* No node of r has a neighbour outside.
Closed(x, r) == \A i \in r : \A j \in Nodes : {i, j} \in x => j \in r

\* dfs finds all that can be reached: its nodes have no neighbour outside, and they are in
\* every set with v that has none.
LEMMA ComponentFacts ==
  ASSUME NEW x, NEW v \in Nodes
  PROVE  /\ Component(x, v) \in SUBSET Nodes /\ v \in Component(x, v)
         /\ Closed(x, Component(x, v))
         /\ \A r \in SUBSET Nodes : v \in r /\ Closed(x, r) => Component(x, v) \subseteq r
<1>1. PICK u : Spreads(u, x, v, NumNodes) /\ Component(x, v) = u[NumNodes]
  BY ComponentIs
<1>2. NumNodes \in Nat \ {0} /\ IsFiniteSet(Nodes) /\ Cardinality(Nodes) = NumNodes
  BY NodesFacts
<1>3. /\ \A k \in 0 .. NumNodes : u[k] \in SUBSET Nodes
      /\ u[0] = {v}
      /\ \A k \in 1 .. NumNodes : u[k] = Grown(x, u[k - 1])
  BY <1>1 DEF Spreads
<1>4. \A k \in 0 .. NumNodes : IsFiniteSet(u[k]) /\ Cardinality(u[k]) \in Nat /\ Cardinality(u[k]) <= NumNodes
  BY <1>2, <1>3, FS_Subset, FS_CardinalityType
<1>5. \A r : Closed(x, r) => Grown(x, r) = r
  BY DEF Closed, Grown
<1>6. \A r \in SUBSET Nodes : ~Closed(x, r) =>
        r \subseteq Grown(x, r) /\ \E j \in Nodes : j \notin r /\ j \in Grown(x, r)
  BY DEF Closed, Grown
<1> DEFINE S == {m \in Nat : m <= NumNodes =>
                    v \in u[m] /\ (Closed(x, u[m]) \/ m + 1 <= Cardinality(u[m]))}
<1>7. 0 \in S
  <2>1. v \in u[0] /\ Cardinality(u[0]) = 1
    BY <1>3, FS_Singleton
  <2> QED
    BY <2>1
<1>8. ASSUME NEW m \in Nat, m \in S
      PROVE  m + 1 \in S
  <2> SUFFICES ASSUME m + 1 <= NumNodes
               PROVE  v \in u[m + 1] /\ (Closed(x, u[m + 1]) \/ m + 2 <= Cardinality(u[m + 1]))
    OBVIOUS
  <2>1. m \in 0 .. NumNodes /\ m + 1 \in 0 .. NumNodes /\ m + 1 \in 1 .. NumNodes /\ (m + 1) - 1 = m
    BY <1>2
  <2>2. v \in u[m] /\ (Closed(x, u[m]) \/ m + 1 <= Cardinality(u[m])) /\ u[m + 1] = Grown(x, u[m])
    BY <1>3, <1>8, <2>1
  <2>3. v \in u[m + 1]
    BY <2>2 DEF Grown
  <2>4. CASE Closed(x, u[m])
    BY <1>5, <2>2, <2>3, <2>4
  <2>5. CASE ~Closed(x, u[m])
    <3>1. PICK j \in Nodes : j \notin u[m] /\ j \in u[m + 1] /\ u[m] \subseteq u[m + 1]
      BY <1>3, <1>6, <2>1, <2>2, <2>5
    <3>2. Cardinality(u[m]) <= Cardinality(u[m + 1]) /\ Cardinality(u[m]) # Cardinality(u[m + 1])
      BY <1>4, <2>1, <3>1, FS_Subset
    <3>3. m + 1 <= Cardinality(u[m]) /\ Cardinality(u[m]) \in Nat /\ Cardinality(u[m + 1]) \in Nat
      BY <1>4, <2>1, <2>2, <2>5
    <3> QED
      BY <2>3, <3>2, <3>3
  <2> QED
    BY <2>4, <2>5
<1>9. Nat \subseteq S
  <2> HIDE DEF S
  <2> QED
    BY <1>7, <1>8, Induct
<1>10. NumNodes \in 0 .. NumNodes
  BY <1>2
<1>11. v \in u[NumNodes] /\ Closed(x, u[NumNodes])
  BY <1>2, <1>4, <1>9, <1>10
<1>12. ASSUME NEW r \in SUBSET Nodes, v \in r, Closed(x, r)
       PROVE  u[NumNodes] \subseteq r
  <2> DEFINE Q == {m \in Nat : m <= NumNodes => u[m] \subseteq r}
  <2>1. 0 \in Q
    BY <1>3, <1>12
  <2>2. ASSUME NEW m \in Nat, m \in Q
        PROVE  m + 1 \in Q
    <3> SUFFICES ASSUME m + 1 <= NumNodes
                 PROVE  u[m + 1] \subseteq r
      OBVIOUS
    <3>1. m + 1 \in 1 .. NumNodes /\ (m + 1) - 1 = m /\ u[m] \subseteq r
      BY <1>2, <2>2
    <3>2. u[m + 1] = Grown(x, u[m])
      BY <1>3, <3>1
    <3> QED
      BY <1>12, <3>1, <3>2 DEF Grown, Closed
  <2>3. Nat \subseteq Q
    <3> HIDE DEF Q
    <3> QED
      BY <2>1, <2>2, Induct
  <2> QED
    BY <1>2, <2>3
<1> QED
  BY <1>1, <1>3, <1>10, <1>11, <1>12

\* A component of a point that is not connected is not everything.
LEMMA ComponentsFacts ==
  ASSUME NEW x, ~IsConnected(x), NEW S \in Components(x)
  PROVE  S \in SUBSET Nodes /\ S # {} /\ S # Nodes
<1>1. PICK v \in Nodes : S = Component(x, v)
  BY DEF Components
<1>2. S \in SUBSET Nodes /\ v \in S
  BY <1>1, ComponentFacts
<1>3. ASSUME S = Nodes, NEW w \in Nodes
      PROVE  Component(x, w) = Nodes
  <2> DEFINE C == Component(x, w)
             O == Nodes \ C
  <2>1. C \in SUBSET Nodes /\ w \in C /\ Closed(x, C)
    BY ComponentFacts
  <2>2. Closed(x, O)
    <3> SUFFICES ASSUME NEW i \in O, NEW j \in Nodes, {i, j} \in x, j \in C
                 PROVE  FALSE
      BY DEF Closed
    <3>1. {j, i} \in x
      <4>1. {j, i} = {i, j}
        OBVIOUS
      <4> QED
        BY <4>1
    <3> QED
      BY <2>1, <3>1 DEF Closed
  <2>3. v \in C
    <3> SUFFICES ASSUME v \in O
                 PROVE  FALSE
      OBVIOUS
    <3>1. Component(x, v) \subseteq O
      BY <2>2, ComponentFacts
    <3> QED
      BY <1>1, <1>3, <2>1, <3>1
  <2>4. Component(x, v) \subseteq C
    BY <2>1, <2>3, ComponentFacts
  <2> QED
    BY <1>1, <1>3, <2>1, <2>4
<1>4. S = Nodes => Components(x) = {Nodes}
  BY <1>1, <1>3 DEF Components
<1> QED
  BY <1>2, <1>4 DEF IsConnected

-----------------------------------------------------------------------------
\* A tour visits every node.
LEMMA TourVisits ==
  ASSUME NEW t, IsTour(t), NEW a \in Nodes
  PROVE  \E i \in Nodes : t[i] = a
<1> DEFINE f == [i \in Nodes |-> t[i]]
<1>1. Nodes \subseteq Positions
  BY NodesFacts DEF Nodes, Positions
<1>2. f \in [Nodes -> Nodes] /\ \A i, j \in Nodes : f[i] = f[j] => i = j
  BY <1>1 DEF IsTour
<1>3. f \in Injection(Nodes, Nodes)
  <2> HIDE DEF f
  <2> QED
    BY <1>2 DEF Injection, IsInjective
<1>4. f \in Surjection(Nodes, Nodes)
  <2> HIDE DEF f
  <2> QED
    BY <1>3, NodesFacts, FS_Injection
<1>5. \E i \in Nodes : f[i] = a
  <2> HIDE DEF f
  <2> QED
    BY <1>4 DEF Surjection
<1> QED
  BY <1>5

\* Every node of a tour has an edge out of it and one into it, to two different nodes.
LEMMA TourNeighbours ==
  ASSUME NEW t, IsTour(t), NumNodes \notin {1, 2}, NEW h \in Nodes
  PROVE  \E p, q \in Nodes : /\ t[p] = h /\ t[q + 1] = h /\ t[q] # t[p + 1]
                             /\ \A i \in Nodes : (t[i] = h => i = p) /\ (t[i + 1] = h => i = q)
<1> DEFINE N == NumNodes
<1>1. N \in Nat /\ N >= 3 /\ Nodes = 0 .. N - 1
  BY NodesFacts DEF Nodes
<1>2. t[N] = t[0] /\ \A i, j \in Nodes : t[i] = t[j] => i = j
  BY DEF IsTour
<1>3. PICK p \in Nodes : t[p] = h
  BY TourVisits
<1>4. \A i \in Nodes : i + 1 = N \/ i + 1 \in Nodes
  BY <1>1
<1>5. CASE p = 0
  <2>1. N - 1 \in Nodes /\ 1 \in Nodes /\ 0 \in Nodes /\ (N - 1) + 1 = N /\ p + 1 = 1 /\ N - 1 # 1
    BY <1>1, <1>5
  <2>2. t[(N - 1) + 1] = h /\ t[N - 1] # t[p + 1]
    BY <1>2, <1>3, <1>5, <2>1
  <2>3. ASSUME NEW i \in Nodes, t[i + 1] = h
        PROVE  i = N - 1
    <3>1. i + 1 \in Nodes => i + 1 = 0
      BY <1>2, <1>3, <1>5, <2>3
    <3> QED
      BY <1>1, <1>4, <3>1
  <2> QED
    BY <1>2, <1>3, <2>1, <2>2, <2>3
<1>6. CASE p # 0
  <2>1. p - 1 \in Nodes /\ 0 \in Nodes /\ (p - 1) + 1 = p
    BY <1>1, <1>6
  <2>2. t[p - 1] # t[p + 1]
    <3>1. CASE p + 1 = N
      <4>1. p - 1 # 0
        BY <1>1, <3>1
      <4> QED
        BY <1>2, <2>1, <3>1, <4>1
    <3>2. CASE p + 1 # N
      <4>1. p + 1 \in Nodes /\ p - 1 # p + 1
        BY <1>1, <3>2
      <4> QED
        BY <1>2, <2>1, <4>1
    <3> QED
      BY <3>1, <3>2
  <2>3. ASSUME NEW i \in Nodes, t[i + 1] = h
        PROVE  i = p - 1
    <3>1. i + 1 = N => p = 0
      BY <1>2, <1>3, <2>1, <2>3
    <3>2. i + 1 \in Nodes => i + 1 = p
      BY <1>2, <1>3, <2>3
    <3> QED
      BY <1>1, <1>4, <1>6, <3>1, <3>2
  <2> QED
    BY <1>2, <1>3, <2>1, <2>2, <2>3
<1> QED
  BY <1>5, <1>6

\* A tour leaves every set of nodes that is not all of them.
LEMMA TourLeaves ==
  ASSUME NEW t, IsTour(t), NEW S \in SUBSET Nodes, S # {}, S # Nodes
  PROVE  \E i \in Nodes : t[i] \in S /\ t[i + 1] \notin S
<1> SUFFICES ASSUME \A i \in Nodes : t[i] \in S => t[i + 1] \in S
             PROVE  FALSE
  OBVIOUS
<1>1. NumNodes \in Nat \ {0}
  BY NodesFacts
<1>2. PICK b \in Nodes : t[b] \in S
  BY TourVisits
<1> DEFINE Q == {m \in Nat : b + m <= NumNodes => t[b + m] \in S}
<1>3. b \in Nat /\ b <= NumNodes - 1
  BY <1>1 DEF Nodes
<1>4. 0 \in Q
  BY <1>2, <1>3
<1>5. ASSUME NEW m \in Nat, m \in Q
      PROVE  m + 1 \in Q
  <2> SUFFICES ASSUME b + (m + 1) <= NumNodes
               PROVE  t[b + (m + 1)] \in S
    OBVIOUS
  <2>1. b + m \in Nodes /\ b + m <= NumNodes /\ b + (m + 1) = (b + m) + 1
    BY <1>1, <1>3 DEF Nodes
  <2> QED
    BY <1>5, <2>1
<1>6. Nat \subseteq Q
  <2> HIDE DEF Q
  <2> QED
    BY <1>4, <1>5, Induct
<1>7. t[0] \in S
  <2>1. PICK m \in Nat : b + m = NumNodes
    BY <1>1, <1>3, NumNodes - b \in Nat, b + (NumNodes - b) = NumNodes
  <2>2. m \in Q
    BY <1>6
  <2>3. t[NumNodes] \in S
    BY <1>1, <2>1, <2>2
  <2> QED
    BY <2>3 DEF IsTour
<1> DEFINE R == {m \in Nat : m <= NumNodes - 1 => t[m] \in S}
<1>8. 0 \in R
  BY <1>7
<1>9. ASSUME NEW m \in Nat, m \in R
      PROVE  m + 1 \in R
  <2> SUFFICES ASSUME m + 1 <= NumNodes - 1
               PROVE  t[m + 1] \in S
    OBVIOUS
  <2>1. m \in Nodes /\ t[m] \in S
    BY <1>1, <1>9 DEF Nodes
  <2> QED
    BY <2>1
<1>10. Nat \subseteq R
  <2> HIDE DEF R
  <2> QED
    BY <1>8, <1>9, Induct
<1>11. \A i \in Nodes : t[i] \in S
  BY <1>1, <1>10 DEF Nodes
<1>12. Nodes \subseteq S
  BY <1>11, TourVisits
<1> QED
  BY <1>12

\* A tour satisfies every subtour cut of a set of nodes that is not all of them: it enters the
\* set as often as it leaves it, so it has fewer edges inside than nodes.
THEOREM TourSatisfiesSec ==
  ASSUME NEW t, IsTour(t), NEW S \in SUBSET Nodes, S # {}, S # Nodes
  PROVE  Sec(S, EdgesOf(t))
<1> DEFINE Q == {i \in Nodes : t[i] \in S}
           I == {e \in EdgesOf(t) : e \subseteq S}
<1>1. PICK p \in Nodes : t[p] \in S /\ t[p + 1] \notin S
  BY TourLeaves
<1>2. Nodes \subseteq Positions
  BY NodesFacts DEF Nodes, Positions
<1>3. IsFiniteSet(S) /\ Cardinality(S) \in Nat /\ IsFiniteSet(Q) /\ Cardinality(Q) \in Nat
  BY NodesFacts, FS_Subset, FS_CardinalityType
<1>4. Cardinality(Q) <= Cardinality(S)
  <2> DEFINE f == [i \in Q |-> t[i]]
  <2>1. f \in [Q -> S] /\ \A i, j \in Q : f[i] = f[j] => i = j
    BY DEF IsTour
  <2>2. f \in Injection(Q, S)
    <3> HIDE DEF f, Q
    <3> QED
      BY <2>1 DEF Injection, IsInjective
  <2> HIDE DEF f, Q
  <2> QED
    BY <1>3, <2>2, FS_Injection
<1> DEFINE P == Q \ {p}
           g == [i \in P |-> {t[i], t[i + 1]}]
           T == {g[i] : i \in P}
<1>5. I \subseteq T
  <2> SUFFICES ASSUME NEW e \in EdgesOf(t), e \subseteq S
               PROVE  e \in T
    OBVIOUS
  <2>1. PICK i \in Nodes : e = {t[i], t[i + 1]}
    BY DEF EdgesOf
  <2>2. i \in P
    BY <1>1, <2>1
  <2> QED
    BY <2>1, <2>2
<1>6. IsFiniteSet(P) /\ Cardinality(P) = Cardinality(Q) - 1
  <2>1. p \in Q
    BY <1>1
  <2> HIDE DEF Q
  <2> QED
    BY <1>3, <2>1, FS_RemoveElement
<1>7. g \in Surjection(P, T)
  <2>1. g \in [P -> T] /\ \A y \in T : \E i \in P : g[i] = y
    OBVIOUS
  <2> HIDE DEF g, T, P
  <2> QED
    BY <2>1 DEF Surjection
<1> HIDE DEF g, T, P, Q, I
<1>8. IsFiniteSet(T) /\ Cardinality(T) <= Cardinality(P)
  BY <1>6, <1>7, FS_Surjection
<1>9. Cardinality(I) <= Cardinality(T) /\ IsFiniteSet(I)
  BY <1>5, <1>8, FS_Subset
<1>10. Cardinality(I) \in Nat /\ Cardinality(T) \in Nat
  BY <1>8, <1>9, FS_CardinalityType
<1>11. Cardinality(I) <= Cardinality(S) - 1
  BY <1>3, <1>4, <1>6, <1>8, <1>9, <1>10
<1> QED
  BY <1>11 DEF Sec, I

-----------------------------------------------------------------------------
\* The reconstruction of a tour.  WalksOn(s, x, k): from the k-th node of s on to a new node,
\* and along an edge of x if one leads to a new node.
WalksOn(s, x, k) ==
  (\E j \in Nodes : {s[k], j} \in x /\ \A i \in 1 .. k : s[i] # j) => {s[k], s[k + 1]} \in x

\* While a node is left, the walk goes on to one, along an edge if it can.
LEMMA OnwardFacts ==
  ASSUME NEW x, NEW s \in Seq(Nodes), Len(s) # 0, Len(s) < NumNodes
  PROVE  /\ Onward(x, s) \in Nodes
         /\ \A i \in 1 .. Len(s) : s[i] # Onward(x, s)
         /\ (\E j \in Nodes : {s[Len(s)], j} \in x /\ \A i \in 1 .. Len(s) : s[i] # j)
               => {s[Len(s)], Onward(x, s)} \in x
<1> DEFINE unvisited == Nodes \ ToSet(s)
           linked == {j \in unvisited : {Last(s), j} \in x}
<1>1. Onward(x, s) = IF linked # {} THEN Min(linked) ELSE Min(unvisited)
  BY DEF Onward
<1>2. \A j : j \in ToSet(s) <=> \E i \in 1 .. Len(s) : s[i] = j
  BY DEF ToSet
<1>3. unvisited # {}
  <2> SUFFICES ASSUME Nodes \subseteq ToSet(s)
               PROVE  FALSE
    OBVIOUS
  <2>1. s \in [1 .. Len(s) -> Nodes] /\ \A a \in Nodes : \E i \in 1 .. Len(s) : s[i] = a
    BY <1>2
  <2>2. s \in Surjection(1 .. Len(s), Nodes)
    BY <2>1 DEF Surjection
  <2>3. Cardinality(Nodes) <= Len(s)
    BY <2>2, FS_SurjCardinalityBound DEF ExistsSurjection
  <2> QED
    BY <2>3, NodesFacts
<1>4. unvisited \subseteq Nat
  BY NodesFacts DEF Nodes
<1>5. ASSUME NEW U \in SUBSET unvisited, U # {}
      PROVE  Min(U) \in U
  <2>1. U \in SUBSET Nat
    BY <1>4
  <2>2. \E m \in U : \A n \in U : m <= n
    BY <1>5, <2>1, Least
  <2> QED
    BY <2>2 DEF Min
<1>6. Last(s) = s[Len(s)]
  BY DEF Last
<1> HIDE DEF unvisited
<1>7. Onward(x, s) \in unvisited /\ (linked # {} => Onward(x, s) \in linked)
  BY <1>1, <1>3, <1>5
<1>8. Onward(x, s) \in Nodes /\ Onward(x, s) \notin ToSet(s)
  BY <1>7 DEF unvisited
<1>9. ASSUME NEW j \in Nodes, {s[Len(s)], j} \in x, \A i \in 1 .. Len(s) : s[i] # j
      PROVE  {s[Len(s)], Onward(x, s)} \in x
  <2>1. j \in linked
    BY <1>2, <1>6, <1>9 DEF unvisited
  <2> QED
    BY <1>6, <1>7, <2>1
<1> QED
  BY <1>2, <1>8, <1>9

\* The walk, step by step.
Steps(w, x, n) ==
  /\ w[1] = <<0>>
  /\ \A k \in 2 .. n : w[k] = Append(w[k - 1], Onward(x, w[k - 1]))

\* There is such a walk.
LEMMA WalkExists ==
  ASSUME NEW x, NEW n \in Nat
  PROVE  \E w : w = [k \in 1 .. n |-> w[k]] /\ (n # 0 => Steps(w, x, n))
<1> DEFINE S == {m \in Nat : \E w : w = [k \in 1 .. m + 1 |-> w[k]] /\ Steps(w, x, m + 1)}
<1>1. 0 \in S
  <2> DEFINE w == [k \in 1 .. 0 + 1 |-> <<0>>]
  <2>1. w = [k \in 1 .. 0 + 1 |-> w[k]] /\ Steps(w, x, 0 + 1)
    BY DEF Steps
  <2> QED
    BY <2>1
<1>2. ASSUME NEW m \in Nat, m \in S
      PROVE  m + 1 \in S
  <2>1. PICK u : u = [k \in 1 .. m + 1 |-> u[k]] /\ Steps(u, x, m + 1)
    BY <1>2
  <2> DEFINE next == Append(u[m + 1], Onward(x, u[m + 1]))
             w == [k \in 1 .. (m + 1) + 1 |-> IF k = m + 2 THEN next ELSE u[k]]
  <2>2. w[1] = <<0>>
    BY <2>1 DEF Steps
  <2>3. ASSUME NEW k \in 2 .. (m + 1) + 1
        PROVE  w[k] = Append(w[k - 1], Onward(x, w[k - 1]))
    <3>1. w[k - 1] = u[k - 1]
      OBVIOUS
    <3>2. CASE k = m + 2
      BY <3>1, <3>2
    <3>3. CASE k # m + 2
      <4>1. k \in 2 .. m + 1 /\ w[k] = u[k]
        BY <3>3
      <4> HIDE DEF w
      <4> QED
        BY <2>1, <3>1, <4>1 DEF Steps
    <3> QED
      BY <3>2, <3>3
  <2>4. w = [k \in 1 .. (m + 1) + 1 |-> w[k]]
    OBVIOUS
  <2> HIDE DEF w
  <2>5. Steps(w, x, (m + 1) + 1)
    BY <2>2, <2>3 DEF Steps
  <2> QED
    BY <2>4, <2>5
<1>3. Nat \subseteq S
  <2> HIDE DEF S
  <2> QED
    BY <1>1, <1>2, Induct
<1>4. CASE n = 0
  <2>1. [k \in 1 .. n |-> 0] = [k \in 1 .. n |-> [l \in 1 .. n |-> 0][k]]
    OBVIOUS
  <2> QED
    BY <1>4, <2>1
<1>5. CASE n # 0
  <2>1. PICK m \in Nat : n = m + 1
    BY <1>5, n - 1 \in Nat, n = (n - 1) + 1
  <2>2. m \in S
    BY <1>3
  <2> QED
    BY <2>1, <2>2
<1> QED
  BY <1>4, <1>5

\* Whatever the point, the walk visits every node once.
LEMMA ReconstructIs ==
  ASSUME NEW x
  PROVE  \E s : /\ s \in [1 .. NumNodes -> Nodes] /\ s[1] = 0
                /\ \A i, j \in 1 .. NumNodes : s[i] = s[j] => i = j
                /\ \A k \in 1 .. NumNodes - 1 : WalksOn(s, x, k)
                /\ Reconstruct(x) = [p \in Positions |-> s[(p % NumNodes) + 1]]
<1> DEFINE N == NumNodes
           Loop(f) == [k \in 1 .. N |->
                         IF k = 1 THEN <<0>>
                         ELSE LET s == f[k - 1] IN Append(s, Onward(x, s))]
           w == CHOOSE f : f = Loop(f)
<1>1. Reconstruct(x) = [p \in Positions |-> w[N][(p % N) + 1]]
  BY DEF Reconstruct
<1>2. N \in Nat \ {0} /\ 0 \in Nodes
  BY NodesFacts
<1>3. PICK u : u = [k \in 1 .. N |-> u[k]] /\ Steps(u, x, N)
  BY <1>2, WalkExists
<1>4. u = Loop(u)
  <2>1. \A k \in 1 .. N : k # 1 => k \in 2 .. N
    BY <1>2
  <2>2. \A k \in 1 .. N : u[k] = IF k = 1 THEN <<0>> ELSE Append(u[k - 1], Onward(x, u[k - 1]))
    BY <2>1, <1>3 DEF Steps
  <2>3. u = [k \in 1 .. N |-> IF k = 1 THEN <<0>> ELSE Append(u[k - 1], Onward(x, u[k - 1]))]
    BY <2>2, <1>3
  <2> QED
    BY <2>3
<1>5. w = Loop(w)
  <2> HIDE DEF Loop
  <2> QED
    BY <1>4
<1>6. \A k \in 1 .. N : w[k] = IF k = 1 THEN <<0>> ELSE Append(w[k - 1], Onward(x, w[k - 1]))
  <2> HIDE DEF w
  <2> QED
    BY <1>5
<1> HIDE DEF w
<1> DEFINE Good(s, m) == /\ s \in Seq(Nodes) /\ Len(s) = m /\ s[1] = 0
                         /\ \A i, j \in 1 .. m : s[i] = s[j] => i = j
                         /\ \A k \in 1 .. m - 1 : WalksOn(s, x, k)
           S == {m \in Nat : m + 1 <= N => Good(w[m + 1], m + 1)}
<1>7. 0 \in S
  <2>1. w[1] = <<0>>
    BY <1>2, <1>6
  <2>2. <<0>> \in Seq(Nodes) /\ Len(<<0>>) = 1 /\ <<0>>[1] = 0
    BY <1>2
  <2>3. Good(<<0>>, 1)
    BY <2>2
  <2> HIDE DEF Good
  <2> QED
    BY <2>1, <2>3
<1>8. ASSUME NEW m \in Nat, m \in S
      PROVE  m + 1 \in S
  <2> SUFFICES ASSUME (m + 1) + 1 <= N
               PROVE  Good(w[(m + 1) + 1], (m + 1) + 1)
    OBVIOUS
  <2> DEFINE s == w[m + 1]
             a == Onward(x, s)
             r == w[(m + 1) + 1]
  <2>1. Good(s, m + 1)
    BY <1>2, <1>8
  <2>2. r = Append(s, a)
    <3>1. (m + 1) + 1 \in 1 .. N /\ (m + 1) + 1 # 1 /\ ((m + 1) + 1) - 1 = m + 1
      BY <1>2
    <3> QED
      BY <1>6, <3>1
  <2> HIDE DEF s, r
  <2>3. s \in Seq(Nodes) /\ Len(s) = m + 1 /\ Len(s) # 0 /\ Len(s) < N
    BY <1>2, <2>1
  <2>4. /\ a \in Nodes
        /\ \A i \in 1 .. Len(s) : s[i] # a
        /\ (\E j \in Nodes : {s[Len(s)], j} \in x /\ \A i \in 1 .. Len(s) : s[i] # j)
               => {s[Len(s)], a} \in x
    BY <2>3, OnwardFacts
  <2> HIDE DEF a
  <2>5. /\ r \in Seq(Nodes) /\ Len(r) = (m + 1) + 1
        /\ \A i \in 1 .. m + 1 : r[i] = s[i]
        /\ r[(m + 1) + 1] = a
    BY <2>2, <2>3, <2>4
  <2>6. ASSUME NEW i \in 1 .. (m + 1) + 1, NEW j \in 1 .. (m + 1) + 1, r[i] = r[j]
        PROVE  i = j
    <3>1. \A k \in 1 .. (m + 1) + 1 : k \in 1 .. m + 1 \/ k = (m + 1) + 1
      OBVIOUS
    <3>2. CASE i \in 1 .. m + 1 /\ j \in 1 .. m + 1
      BY <2>1, <2>5, <2>6, <3>2
    <3>3. CASE i \notin 1 .. m + 1 \/ j \notin 1 .. m + 1
      BY <2>3, <2>4, <2>5, <2>6, <3>1, <3>3
    <3> QED
      BY <3>2, <3>3
  <2>7. ASSUME NEW k \in 1 .. ((m + 1) + 1) - 1
        PROVE  WalksOn(r, x, k)
    <3>1. k \in 1 .. m + 1 /\ \A i \in 1 .. k : r[i] = s[i]
      BY <2>5
    <3>2. CASE k = m + 1
      BY <2>3, <2>4, <2>5, <3>1, <3>2 DEF WalksOn
    <3>3. CASE k # m + 1
      <4>1. k \in 1 .. (m + 1) - 1 /\ k + 1 \in 1 .. m + 1
        BY <3>1, <3>3
      <4>2. r[k + 1] = s[k + 1] /\ r[k] = s[k]
        BY <2>5, <3>1, <4>1
      <4>3. WalksOn(s, x, k)
        BY <2>1, <4>1
      <4> QED
        BY <3>1, <4>2, <4>3 DEF WalksOn
    <3> QED
      BY <3>2, <3>3
  <2>8. r[1] = 0
    BY <2>1, <2>5
  <2> QED
    BY <2>5, <2>6, <2>7, <2>8 DEF r
<1>9. Nat \subseteq S
  <2> HIDE DEF S
  <2> QED
    BY <1>7, <1>8, Induct
<1>10. Good(w[N], N)
  <2>1. PICK m \in Nat : m + 1 = N
    BY <1>2, N - 1 \in Nat, (N - 1) + 1 = N
  <2>2. m \in S
    BY <1>9
  <2> QED
    BY <1>2, <2>1, <2>2
<1>11. w[N] \in [1 .. N -> Nodes]
  BY <1>10
<1> QED
  BY <1>1, <1>10, <1>11

\* What the walk is as the array of a tour.
LEMMA ReconstructAt ==
  ASSUME NEW s \in [1 .. NumNodes -> Nodes]
  PROVE  LET t == [p \in Positions |-> s[(p % NumNodes) + 1]]
         IN  /\ t \in [Positions -> Nodes]
             /\ \A i \in Nodes : t[i] = s[i + 1]
             /\ t[NumNodes] = s[1]
<1> DEFINE t == [p \in Positions |-> s[(p % NumNodes) + 1]]
<1>1. NumNodes \in Nat \ {0}
  BY NodesFacts
<1>2. \A p \in 0 .. NumNodes - 1 : p % NumNodes = p
  BY <1>1
<1>3. NumNodes % NumNodes = 0
  BY <1>1
<1>4. \A p \in Positions : p \in 0 .. NumNodes - 1 \/ p = NumNodes
  BY <1>1 DEF Positions
<1>5. \A p \in Positions : (p % NumNodes) + 1 \in 1 .. NumNodes
  BY <1>1, <1>2, <1>3, <1>4
<1>6. t \in [Positions -> Nodes]
  BY <1>5
<1>7. Nodes \subseteq Positions /\ NumNodes \in Positions
  BY <1>1 DEF Nodes, Positions
<1>8. \A i \in Nodes : t[i] = s[i + 1]
  BY <1>2, <1>7 DEF Nodes
<1>9. t[NumNodes] = s[1]
  BY <1>3, <1>7
<1> QED
  BY <1>6, <1>8, <1>9

\* cplex_solver_reconstruct_tour makes a tour of any point, connected or not: in the array of
\* the tour every node stands once, and the first one again at the end.
THEOREM ReconstructIsTour ==
  ASSUME NEW x
  PROVE  IsTour(Reconstruct(x))
<1>1. PICK s : /\ s \in [1 .. NumNodes -> Nodes]
               /\ \A i, j \in 1 .. NumNodes : s[i] = s[j] => i = j
               /\ Reconstruct(x) = [p \in Positions |-> s[(p % NumNodes) + 1]]
  BY ReconstructIs
<1> DEFINE t == Reconstruct(x)
<1>2. /\ t \in [Positions -> Nodes]
      /\ \A i \in Nodes : t[i] = s[i + 1]
      /\ t[NumNodes] = s[1]
  <2> DEFINE r == [p \in Positions |-> s[(p % NumNodes) + 1]]
  <2>1. /\ r \in [Positions -> Nodes]
        /\ \A i \in Nodes : r[i] = s[i + 1]
        /\ r[NumNodes] = s[1]
    BY <1>1, ReconstructAt
  <2>2. t = r
    BY <1>1
  <2> HIDE DEF r, t
  <2> QED
    BY <2>1, <2>2
<1> HIDE DEF t
<1>3. NumNodes \in Nat \ {0} /\ \A i \in Nodes : i \in Nat /\ i + 1 \in 1 .. NumNodes
  BY NodesFacts DEF Nodes
<1>4. \A i, j \in Nodes : t[i] = t[j] => i = j
  BY <1>1, <1>2, <1>3
<1>5. t[NumNodes] = t[0]
  BY <1>2, NodesFacts
<1> QED
  BY <1>2, <1>4, <1>5 DEF IsTour, t

\* An edge is two different nodes.
LEMMA EdgeIs ==
  ASSUME NEW e \in Edges, NEW h \in e
  PROVE  \E a \in Nodes : a # h /\ e = {h, a}
<1>1. e \in SUBSET Nodes /\ Cardinality(e) = 2 /\ IsFiniteSet(e)
  BY NodesFacts, FS_Subset DEF Edges
<1>2. IsFiniteSet(e \ {h}) /\ Cardinality(e \ {h}) = 1
  BY <1>1, FS_RemoveElement
<1>3. PICK a : e \ {h} = {a}
  BY <1>2, FS_Singleton
<1> QED
  BY <1>1, <1>3

\* Every node of a two-factor has two neighbours.
LEMMA TwoNeighbours ==
  ASSUME NEW y \in TwoFactors, NEW h \in Nodes
  PROVE  \E a, b \in Nodes : /\ a # b /\ a # h /\ b # h
                             /\ {h, a} \in y /\ {h, b} \in y
                             /\ \A c \in Nodes : {h, c} \in y => c = a \/ c = b
<1> DEFINE E == {e \in y : h \in e}
<1>1. y \subseteq Edges /\ Cardinality(E) = 2
  BY DEF TwoFactors
<1>2. IsFiniteSet(E)
  <2>1. IsFiniteSet(SUBSET Nodes)
    BY NodesFacts, FS_SUBSET
  <2>2. E \in SUBSET (SUBSET Nodes)
    BY <1>1 DEF Edges
  <2> QED
    BY <2>1, <2>2, FS_Subset
<1> HIDE DEF E
<1>3. PICK d \in E : TRUE
  BY <1>1, <1>2, FS_EmptySet
<1>4. IsFiniteSet(E \ {d}) /\ Cardinality(E \ {d}) = 1
  BY <1>1, <1>2, FS_RemoveElement
<1>5. PICK f : E \ {d} = {f}
  BY <1>4, FS_Singleton
<1>6. E = {d, f} /\ d # f
  BY <1>5
<1>7. d \in Edges /\ f \in Edges /\ h \in d /\ h \in f /\ d \in y /\ f \in y
  BY <1>1, <1>6 DEF E
<1>8. PICK a \in Nodes : a # h /\ d = {h, a}
  BY <1>7, EdgeIs
<1>9. PICK b \in Nodes : b # h /\ f = {h, b}
  BY <1>7, EdgeIs
<1>10. ASSUME NEW c \in Nodes, {h, c} \in y
       PROVE  c = a \/ c = b
  <2>1. {h, c} \in E
    BY <1>10 DEF E
  <2>2. {h, c} = {h, a} \/ {h, c} = {h, b}
    BY <2>1, <1>6, <1>8, <1>9
  <2> QED
    BY <2>2, <1>8, <1>9
<1> QED
  BY <1>6, <1>7, <1>8, <1>9, <1>10

\* The first k places of s are a path along edges of y.
Runs(s, y, k) ==
  /\ s \in [1 .. NumNodes -> Nodes]
  /\ \A i, j \in 1 .. NumNodes : s[i] = s[j] => i = j
  /\ k \in 1 .. NumNodes
  /\ \A i \in 1 .. k - 1 : {s[i], s[i + 1]} \in y

\* A node inside a path has no other neighbours than those on the path.
LEMMA Inside ==
  ASSUME NEW y \in TwoFactors, NEW s, NEW k, Runs(s, y, k),
         NEW i \in 2 .. k - 1, NEW c \in Nodes, {s[i], c} \in y
  PROVE  c = s[i - 1] \/ c = s[i + 1]
<1>0. NumNodes \in Nat /\ k \in 1 .. NumNodes
  BY NodesFacts DEF Runs
<1>1. /\ i \in 1 .. NumNodes /\ i - 1 \in 1 .. NumNodes /\ i + 1 \in 1 .. NumNodes
      /\ i \in 1 .. k - 1 /\ i - 1 \in 1 .. k - 1 /\ (i - 1) + 1 = i /\ i - 1 # i + 1
  BY <1>0
<1>2. {s[i - 1], s[i]} \in y /\ {s[i], s[i + 1]} \in y
  <2>1. \A j \in 1 .. k - 1 : {s[j], s[j + 1]} \in y
    BY DEF Runs
  <2> QED
    BY <1>1, <2>1
<1>3. {s[i], s[i - 1]} \in y
  <2>1. {s[i], s[i - 1]} = {s[i - 1], s[i]}
    OBVIOUS
  <2> QED
    BY <1>2, <2>1
<1>4. s[i] \in Nodes /\ s[i - 1] \in Nodes /\ s[i + 1] \in Nodes /\ s[i - 1] # s[i + 1]
  <2>1. s \in [1 .. NumNodes -> Nodes] /\ \A a, b \in 1 .. NumNodes : s[a] = s[b] => a = b
    BY DEF Runs
  <2>2. s[i] \in Nodes /\ s[i - 1] \in Nodes /\ s[i + 1] \in Nodes
    BY <1>1, <2>1
  <2>3. s[i - 1] # s[i + 1]
    BY <1>1, <2>1
  <2> QED
    BY <2>2, <2>3
<1>5. PICK a, b \in Nodes : \A d \in Nodes : {s[i], d} \in y => d = a \/ d = b
  <2>1. PICK h \in Nodes : h = s[i]
    BY <1>4
  <2>2. PICK a, b \in Nodes : /\ a # b /\ a # h /\ b # h
                              /\ {h, a} \in y /\ {h, b} \in y
                              /\ \A c1 \in Nodes : {h, c1} \in y => c1 = a \/ c1 = b
    BY TwoNeighbours
  <2> QED
    BY <2>1, <2>2
<1> QED
  BY <1>2, <1>3, <1>4, <1>5

\* The end of a path is joined to no other node of it than its predecessor and its start.
LEMMA PathEnds ==
  ASSUME NEW y \in TwoFactors, NEW s, NEW k, Runs(s, y, k),
         NEW i \in 1 .. k, {s[k], s[i]} \in y
  PROVE  i = 1 \/ i = k - 1
<1>0. /\ NumNodes \in Nat /\ k \in 1 .. NumNodes /\ s \in [1 .. NumNodes -> Nodes]
      /\ \A a, b \in 1 .. NumNodes : s[a] = s[b] => a = b
  BY NodesFacts DEF Runs
<1>1. k \in 1 .. NumNodes /\ i \in 1 .. NumNodes /\ s[k] \in Nodes /\ s[i] \in Nodes
  <2>1. i \in 1 .. NumNodes
    BY <1>0
  <2> QED
    BY <1>0, <2>1
<1>2. i # k
  <2> SUFFICES ASSUME i = k
               PROVE  FALSE
    OBVIOUS
  <2>1. {s[k], s[k]} \in Edges /\ s[k] \in {s[k], s[k]}
    BY DEF TwoFactors
  <2>2. PICK a \in Nodes : a # s[k] /\ {s[k], s[k]} = {s[k], a}
    BY <2>1, EdgeIs
  <2> QED
    BY <2>2
<1>3. CASE i \in 2 .. k - 2
  <2>1. {s[i], s[k]} \in y
    <3>1. {s[i], s[k]} = {s[k], s[i]}
      OBVIOUS
    <3> QED
      BY <3>1
  <2>2. i \in 2 .. k - 1 /\ i - 1 \in 1 .. NumNodes /\ i + 1 \in 1 .. NumNodes /\ i - 1 # k /\ i + 1 # k
    BY <1>0, <1>3
  <2>3. s[k] = s[i - 1] \/ s[k] = s[i + 1]
    BY <1>1, <2>1, <2>2, Inside
  <2> QED
    BY <1>0, <2>2, <2>3
<1> QED
  BY <1>0, <1>2, <1>3

\* While a node of a connected two-factor is left, the end of the path has one for a neighbour.
LEMMA PathGoesOn ==
  ASSUME NEW y \in TwoFactors, IsConnected(y), NEW s, NEW k \in 1 .. NumNodes - 1,
         Runs(s, y, k), s[1] = 0
  PROVE  \E j \in Nodes : {s[k], j} \in y /\ \A i \in 1 .. k : s[i] # j
<1> SUFFICES ASSUME \A j \in Nodes : {s[k], j} \in y => \E i \in 1 .. k : s[i] = j
             PROVE  FALSE
  OBVIOUS
<1>1. /\ NumNodes \in Nat /\ k \in 1 .. NumNodes /\ s \in [1 .. NumNodes -> Nodes]
      /\ \A i, j \in 1 .. NumNodes : s[i] = s[j] => i = j
  BY NodesFacts DEF Runs
<1> DEFINE V == {s[i] : i \in 1 .. k}
<1>2. \A i \in 1 .. k : i \in 1 .. NumNodes /\ s[i] \in Nodes
  BY <1>1
<1>3. V \in SUBSET Nodes
  BY <1>2
<1>4. ASSUME NEW j \in Nodes, {s[1], j} \in y
      PROVE  j \in V
  <2>1. CASE k = 1
    BY <1>4, <2>1
  <2>2. CASE k # 1
    <3>1. /\ 2 \in 1 .. k /\ k - 1 \in 1 .. k /\ k \in 1 .. k /\ 1 \in 1 .. k /\ 1 \in 1 .. k - 1
          /\ k - 1 \in 1 .. k - 1 /\ (k - 1) + 1 = k /\ 1 + 1 = 2
      BY <1>1, <2>2
    <3>2. {s[1], s[2]} \in y /\ {s[k - 1], s[k]} \in y
      <4>1. \A i \in 1 .. k - 1 : {s[i], s[i + 1]} \in y
        BY DEF Runs
      <4> QED
        BY <3>1, <4>1
    <3>3. PICK h \in Nodes : h = s[k]
      BY <1>2, <3>1
    <3>4. PICK a, b \in Nodes : a # b /\ {h, a} \in y /\ {h, b} \in y
      BY TwoNeighbours
    <3>5. PICK c \in Nodes : c # s[k - 1] /\ {s[k], c} \in y
      BY <3>3, <3>4
    <3>6. PICK i \in 1 .. k : s[i] = c
      BY <3>5
    <3>7. i = 1 \/ i = k - 1
      BY <3>5, <3>6, PathEnds
    <3>8. i = 1 /\ k # 2
      BY <3>5, <3>6, <3>7
    <3>9. {s[1], s[k]} \in y
      <4>1. {s[1], s[k]} = {s[k], c}
        BY <3>6, <3>8
      <4> QED
        BY <3>5, <4>1
    <3>10. s[2] # s[k]
      BY <1>1, <1>2, <3>1, <3>8
    <3>11. PICK g \in Nodes : g = s[1]
      BY <1>2, <3>1
    <3>12. PICK d, f \in Nodes : \A e \in Nodes : {g, e} \in y => e = d \/ e = f
      BY TwoNeighbours
    <3>13. s[2] \in Nodes /\ s[k] \in Nodes
      BY <1>2, <3>1
    <3>14. j = s[2] \/ j = s[k]
      BY <1>4, <3>2, <3>9, <3>10, <3>11, <3>12, <3>13
    <3> QED
      BY <3>1, <3>14
  <2> QED
    BY <2>1, <2>2
<1>5. ASSUME NEW i \in 1 .. k, NEW j \in Nodes, {s[i], j} \in y
      PROVE  j \in V
  <2>1. CASE i = 1
    BY <1>4, <1>5, <2>1
  <2>2. CASE i = k
    BY <1>5, <2>2
  <2>3. CASE i \in 2 .. k - 1
    <3>1. j = s[i - 1] \/ j = s[i + 1]
      BY <1>5, <2>3, Inside
    <3>2. i - 1 \in 1 .. k /\ i + 1 \in 1 .. k
      BY <1>1, <2>3
    <3> QED
      BY <3>1, <3>2
  <2> QED
    BY <1>1, <2>1, <2>2, <2>3
<1>6. Closed(y, V) /\ 0 \in V
  <2>1. 1 \in 1 .. k
    BY <1>1
  <2> QED
    BY <1>5, <2>1 DEF Closed
<1>7. Component(y, 0) \subseteq V
  BY <1>3, <1>6, NodesFacts, ComponentFacts
<1>8. Component(y, 0) = Nodes
  BY NodesFacts DEF IsConnected, Components
<1>9. k + 1 \in 1 .. NumNodes /\ s[k + 1] \in V
  BY <1>1, <1>7, <1>8
<1>10. PICK i \in 1 .. k : s[i] = s[k + 1]
  BY <1>9
<1> QED
  BY <1>1, <1>2, <1>9, <1>10

\* The walk of cplex_solver_reconstruct_tour then takes an edge of the two-factor.
LEMMA PathStays ==
  ASSUME NEW y \in TwoFactors, IsConnected(y), NEW s, NEW k \in 1 .. NumNodes - 1,
         Runs(s, y, k), s[1] = 0, WalksOn(s, y, k)
  PROVE  Runs(s, y, k + 1)
<1>1. \E j \in Nodes : {s[k], j} \in y /\ \A i \in 1 .. k : s[i] # j
  BY PathGoesOn
<1>2. {s[k], s[k + 1]} \in y
  BY <1>1 DEF WalksOn
<1>3. NumNodes \in Nat /\ k + 1 \in 1 .. NumNodes
  BY NodesFacts
<1>4. \A i \in 1 .. (k + 1) - 1 : {s[i], s[i + 1]} \in y
  <2>1. \A i \in 1 .. (k + 1) - 1 : i \in 1 .. k - 1 \/ i = k
    BY <1>3
  <2>2. \A i \in 1 .. k - 1 : {s[i], s[i + 1]} \in y
    BY DEF Runs
  <2> QED
    BY <1>2, <2>1, <2>2
<1> QED
  BY <1>3, <1>4 DEF Runs

\* The walk along a connected two-factor stays on its edges to the last node.
LEMMA WalkRuns ==
  ASSUME NEW y \in TwoFactors, IsConnected(y), NEW s, s \in [1 .. NumNodes -> Nodes], s[1] = 0,
         \A i, j \in 1 .. NumNodes : s[i] = s[j] => i = j,
         \A k \in 1 .. NumNodes - 1 : WalksOn(s, y, k)
  PROVE  Runs(s, y, NumNodes)
<1>1. NumNodes \in Nat \ {0}
  BY NodesFacts
<1> DEFINE Q == {m \in Nat : m + 1 <= NumNodes => Runs(s, y, m + 1)}
<1>2. 0 \in Q
  <2>1. 1 \in 1 .. NumNodes /\ \A i \in 1 .. 1 - 1 : FALSE
    BY <1>1
  <2>2. Runs(s, y, 1)
    BY <2>1 DEF Runs
  <2> QED
    BY <2>2
<1>3. ASSUME NEW m \in Nat, m \in Q
      PROVE  m + 1 \in Q
  <2> SUFFICES ASSUME (m + 1) + 1 <= NumNodes
               PROVE  Runs(s, y, (m + 1) + 1)
    OBVIOUS
  <2>0. PICK k \in Nat : k = m + 1
    OBVIOUS
  <2>1. k \in 1 .. NumNodes - 1 /\ m + 1 <= NumNodes
    BY <1>1, <2>0
  <2>2. Runs(s, y, k)
    BY <1>3, <2>0, <2>1
  <2>3. WalksOn(s, y, k)
    BY <2>1
  <2>4. Runs(s, y, k + 1)
    BY <2>1, <2>2, <2>3, PathStays
  <2> QED
    BY <2>0, <2>4
<1>4. Nat \subseteq Q
  <2> HIDE DEF Q
  <2> QED
    BY <1>2, <1>3, Induct
<1>5. PICK m \in Nat : m + 1 = NumNodes
  BY <1>1, NumNodes - 1 \in Nat, (NumNodes - 1) + 1 = NumNodes
<1>6. m \in Q
  BY <1>4
<1> QED
  BY <1>1, <1>5, <1>6

\* The tour reconstructed from a connected point has exactly the point's edges: no edge of it
\* is left out, and the walk never has to jump.
THEOREM ReconstructKeepsEdges ==
  ASSUME NEW y \in TwoFactors, IsConnected(y)
  PROVE  EdgesOf(Reconstruct(y)) = y
<1> DEFINE N == NumNodes
           t == Reconstruct(y)
<1>1. PICK s : /\ s \in [1 .. N -> Nodes] /\ s[1] = 0
               /\ \A i, j \in 1 .. N : s[i] = s[j] => i = j
               /\ \A k \in 1 .. N - 1 : WalksOn(s, y, k)
               /\ t = [p \in Positions |-> s[(p % N) + 1]]
  BY ReconstructIs
<1>2. Runs(s, y, N)
  BY <1>1, WalkRuns
<1>3. /\ t \in [Positions -> Nodes]
      /\ \A i \in Nodes : t[i] = s[i + 1]
      /\ t[N] = s[1]
  <2> DEFINE r == [p \in Positions |-> s[(p % N) + 1]]
  <2>1. /\ r \in [Positions -> Nodes]
        /\ \A i \in Nodes : r[i] = s[i + 1]
        /\ r[N] = s[1]
    BY <1>1, ReconstructAt
  <2>2. t = r
    BY <1>1
  <2> HIDE DEF r, t
  <2> QED
    BY <2>1, <2>2
<1>4. IsTour(t)
  BY ReconstructIsTour
<1> HIDE DEF t
<1>5. N \in Nat \ {0} /\ Nodes = 0 .. N - 1
  BY NodesFacts DEF Nodes
<1>6. N # 1 /\ N # 2
  <2>1. PICK a, b \in Nodes : a # b /\ a # 0 /\ b # 0
    BY NodesFacts, TwoNeighbours
  <2> QED
    BY <1>5, <2>1
<1>7. {s[N], s[1]} \in y
  <2>1. N \in 1 .. N /\ N - 1 \in 1 .. N /\ 1 \in 1 .. N
    BY <1>5, <1>6
  <2>2. PICK h \in Nodes : h = s[N]
    BY <1>1, <2>1
  <2>3. PICK a, b \in Nodes : a # b /\ {h, a} \in y /\ {h, b} \in y
    BY TwoNeighbours
  <2>4. PICK c \in Nodes : c # s[N - 1] /\ {s[N], c} \in y
    BY <2>2, <2>3
  <2>5. PICK p \in Nodes : t[p] = c
    BY <1>4, TourVisits
  <2>6. PICK i \in 1 .. N : s[i] = c
    <3>1. p + 1 \in 1 .. N /\ s[p + 1] = c
      BY <1>3, <1>5, <2>5
    <3> QED
      BY <3>1
  <2>7. i = 1 \/ i = N - 1
    BY <1>2, <2>4, <2>6, PathEnds
  <2> QED
    BY <2>4, <2>6, <2>7
<1>8. \A i \in Nodes : {t[i], t[i + 1]} \in y
  <2> SUFFICES ASSUME NEW i \in Nodes
               PROVE  {t[i], t[i + 1]} \in y
    OBVIOUS
  <2>1. CASE i = N - 1
    <3>1. t[i] = s[N] /\ t[i + 1] = s[1]
      BY <1>3, <1>5, <2>1
    <3> QED
      BY <1>7, <3>1
  <2>2. CASE i # N - 1
    <3>1. i + 1 \in Nodes /\ i + 1 \in 1 .. N - 1
      BY <1>5, <2>2
    <3>2. t[i] = s[i + 1] /\ t[i + 1] = s[(i + 1) + 1]
      BY <1>3, <3>1
    <3> QED
      BY <1>2, <3>1, <3>2 DEF Runs
  <2> QED
    BY <2>1, <2>2
<1>9. EdgesOf(t) \subseteq y
  BY <1>8 DEF EdgesOf
<1>10. ASSUME NEW e \in y
       PROVE  e \in EdgesOf(t)
  <2>1. e \in Edges
    BY DEF TwoFactors
  <2>2. PICK h \in Nodes : h \in e
    <3>1. e # {} /\ e \subseteq Nodes
      BY <2>1, FS_EmptySet DEF Edges
    <3> QED
      BY <3>1
  <2>3. PICK a \in Nodes : e = {h, a}
    BY <2>1, <2>2, EdgeIs
  <2>4. PICK p, q \in Nodes : t[p] = h /\ t[q + 1] = h /\ t[q] # t[p + 1]
    BY <1>4, <1>6, TourNeighbours
  <2>5. {h, t[q]} \in y /\ {h, t[p + 1]} \in y
    <3>1. {h, t[q]} = {t[q], t[q + 1]}
      BY <2>4
    <3> QED
      BY <1>8, <2>4, <3>1
  <2>6. p \in Positions /\ p + 1 \in Positions /\ q \in Positions
    BY <1>5 DEF Positions
  <2>7. t[q] \in Nodes /\ t[p + 1] \in Nodes
    BY <1>3, <2>6
  <2>8. PICK b, c \in Nodes : /\ b # c /\ b # h /\ c # h
                              /\ {h, b} \in y /\ {h, c} \in y
                              /\ \A d \in Nodes : {h, d} \in y => d = b \/ d = c
    BY TwoNeighbours
  <2>9. a = t[q] \/ a = t[p + 1]
    BY <2>3, <2>4, <2>5, <2>7, <2>8
  <2>10. e = {t[q], t[q + 1]} \/ e = {t[p], t[p + 1]}
    BY <2>3, <2>4, <2>9
  <2> QED
    BY <2>10 DEF EdgesOf
<1> QED
  BY <1>9, <1>10 DEF t

-----------------------------------------------------------------------------
\* What changes in a sum with one of its terms.
LEMMA TotalChange ==
  ASSUME NEW n \in Nat, NEW f, NEW g, NEW a \in 1 .. n,
         \A x \in 1 .. n : f[x] \in Int /\ g[x] \in Int,
         \A x \in 1 .. n : x # a => g[x] = f[x]
  PROVE  Total(g, n) = Total(f, n) - f[a] + g[a]
<1>1. PICK u : AddsUp(u, f, n)
  BY SumExists
<1> DEFINE v == [x \in 0 .. n |-> IF a <= x THEN u[x] - f[a] + g[a] ELSE u[x]]
<1>2. \A x \in 0 .. n : u[x] \in Int
  BY <1>1 DEF AddsUp
<1>3. v \in [0 .. n -> Int] /\ v[0] = 0
  BY <1>1, <1>2 DEF AddsUp
<1>4. ASSUME NEW x \in 1 .. n
      PROVE  v[x] = v[x - 1] + g[x]
  <2>1. /\ x \in 0 .. n /\ x - 1 \in 0 .. n /\ u[x] = u[x - 1] + f[x]
        /\ u[x - 1] \in Int /\ f[x] \in Int /\ f[a] \in Int /\ g[a] \in Int /\ g[x] \in Int
    BY <1>1, <1>2 DEF AddsUp
  <2>2. CASE x < a
    BY <2>1, <2>2
  <2>3. CASE x = a
    BY <2>1, <2>3
  <2>4. CASE a < x
    BY <2>1, <2>4
  <2> QED
    BY <2>2, <2>3, <2>4
<1>5. AddsUp(v, g, n)
  BY <1>3, <1>4 DEF AddsUp
<1>6. Total(f, n) = u[n] /\ Total(g, n) = v[n]
  BY <1>1, <1>5, TotalIs
<1> QED
  BY <1>6

\* Length adds up the costs of the edges, whichever way their sums were found.  u holds the
\* sum over every part of S.
LEMMA LengthIs ==
  ASSUME NEW S, IsFiniteSet(S), NEW u, u[{}] = 0, u \in [SUBSET S -> Int],
         \A T \in SUBSET S : \A e \in T : u[T] = EdgeCost(e) + u[T \ {e}]
  PROVE  Length(S) = u[S]
<1> DEFINE Pick(s) == CHOOSE e \in s : TRUE
           Loop(v) == [s \in SUBSET S |-> IF s = {} THEN 0 ELSE EdgeCost(Pick(s)) + v[s \ {Pick(s)}]]
           w == CHOOSE v : v = Loop(v)
<1>1. Length(S) = w[S]
  BY DEF Length, MapThenSumSet, MapThenFoldSet
<1>2. \A s \in SUBSET S : s # {} => Pick(s) \in s
  OBVIOUS
<1>3. u = Loop(u)
  <2> HIDE DEF Pick
  <2> QED
    BY <1>2
<1>4. w = Loop(w)
  <2> HIDE DEF Loop
  <2> QED
    BY <1>3
<1> HIDE DEF w, Pick
<1>5. \A s \in SUBSET S : w[s] = IF s = {} THEN 0 ELSE EdgeCost(Pick(s)) + w[s \ {Pick(s)}]
  BY <1>4
<1> DEFINE Q == {n \in Nat : \A T \in SUBSET S : Cardinality(T) = n => w[T] = u[T]}
<1>6. 0 \in Q
  <2> SUFFICES ASSUME NEW T \in SUBSET S, Cardinality(T) = 0
               PROVE  w[T] = u[T]
    OBVIOUS
  <2>1. T = {}
    BY FS_Subset, FS_EmptySet
  <2> QED
    BY <1>5, <2>1
<1>7. ASSUME NEW n \in Nat, n \in Q
      PROVE  n + 1 \in Q
  <2> SUFFICES ASSUME NEW T \in SUBSET S, Cardinality(T) = n + 1
               PROVE  w[T] = u[T]
    OBVIOUS
  <2>0. IsFiniteSet(T) /\ n + 1 # 0 /\ (n + 1) - 1 = n
    BY FS_Subset
  <2>1. T # {}
    BY <2>0, FS_EmptySet
  <2>2. PICK e \in T : e = Pick(T)
    BY <1>2, <2>1
  <2>3. Cardinality(T \ {e}) = n
    BY <2>0, FS_RemoveElement
  <2>4. w[T \ {e}] = u[T \ {e}]
    BY <1>7, <2>3
  <2>5. w[T] = EdgeCost(e) + w[T \ {e}]
    BY <1>5, <2>1, <2>2
  <2>6. u[T] = EdgeCost(e) + u[T \ {e}]
    OBVIOUS
  <2> QED
    BY <2>4, <2>5, <2>6
<1>8. Nat \subseteq Q
  <2> HIDE DEF Q
  <2> QED
    BY <1>6, <1>7, Induct
<1>9. Cardinality(S) \in Nat /\ S \in SUBSET S
  BY FS_CardinalityType
<1> QED
  BY <1>1, <1>8, <1>9

\* The variable x_ij with i < j has the cost of the edge either way.
LEMMA EdgeCostIs ==
  ASSUME NEW a \in Nodes, NEW b \in Nodes
  PROVE  EdgeCost({a, b}) = Cost[a][b]
<1>1. a \in Int /\ b \in Int /\ Cost[a][b] = Cost[b][a]
  BY TourAssumption DEF Nodes
<1> DEFINE e == {a, b}
<1>2. \E x \in e : \A y \in e : x =< y
  BY <1>1
<1>3. Min(e) \in e /\ \A y \in e : Min(e) =< y
  <2> HIDE DEF e
  <2> QED
    BY <1>2 DEF Min
<1>4. \E x \in e : \A y \in e : x >= y
  BY <1>1
<1>5. Max(e) \in e /\ \A y \in e : Max(e) >= y
  <2> HIDE DEF e
  <2> QED
    BY <1>4 DEF Max
<1>6. PICK m, x : m = Min(e) /\ x = Max(e)
  OBVIOUS
<1>7. (m = a /\ x = b) \/ (m = b /\ x = a)
  BY <1>1, <1>3, <1>5, <1>6
<1>8. EdgeCost(e) = Cost[m][x]
  BY <1>6 DEF EdgeCost
<1> QED
  BY <1>1, <1>7, <1>8

\* With three nodes or more, every leg of a tour is an edge of its own.
LEMMA LegsApart ==
  ASSUME NEW t, IsTour(t), NumNodes \notin {1, 2}, NEW x \in 1 .. NumNodes, NEW y \in 1 .. NumNodes,
         {t[x - 1], t[x]} = {t[y - 1], t[y]}
  PROVE  x = y
<1>1. NumNodes \in Nat /\ NumNodes >= 3
  BY TourAssumption
<1>2. \A i, j \in Nodes : t[i] = t[j] => i = j
  BY DEF IsTour
<1>3. t[NumNodes] = t[0] /\ 0 \in Nodes
  BY <1>1 DEF IsTour, Nodes
<1>4. x - 1 \in Nodes /\ y - 1 \in Nodes
  BY <1>1 DEF Nodes
<1>5. ASSUME t[x - 1] = t[y], t[x] = t[y - 1]
      PROVE  FALSE
  <2>1. x = NumNodes \/ x \in Nodes
    BY <1>1 DEF Nodes
  <2>2. y = NumNodes \/ y \in Nodes
    BY <1>1 DEF Nodes
  <2>3. (y = NumNodes /\ x - 1 = 0) \/ x - 1 = y
    BY <1>2, <1>3, <1>4, <1>5, <2>2
  <2>4. (x = NumNodes /\ y - 1 = 0) \/ y - 1 = x
    BY <1>2, <1>3, <1>4, <1>5, <2>1
  <2> QED
    BY <1>1, <2>3, <2>4
<1>6. t[x - 1] = t[y - 1] \/ (t[x - 1] = t[y] /\ t[x] = t[y - 1])
  OBVIOUS
<1>7. t[x - 1] = t[y - 1]
  BY <1>5, <1>6
<1>8. x - 1 = y - 1
  BY <1>2, <1>4, <1>7
<1> QED
  BY <1>8

\* The objective value of the point a tour stands for is what calculate_tour_cost returns.
THEOREM LengthIsTourCost ==
  ASSUME NEW t, IsTour(t), NumNodes \notin {1, 2}
  PROVE  Length(EdgesOf(t)) = TourCost(t)
<1> DEFINE S == EdgesOf(t)
           E(x) == {t[x - 1], t[x]}
           Part(T) == [x \in 1 .. NumNodes |-> IF E(x) \in T THEN Legs(t)[x] ELSE 0]
           u == [T \in SUBSET S |-> Total(Part(T), NumNodes)]
<1>1. /\ t \in Arrays /\ NumNodes \in Nat /\ Legs(t) \in [1 .. NumNodes -> Nat]
      /\ \A x \in 1 .. NumNodes : Legs(t)[x] = Cost[t[x - 1]][t[x]]
  BY TourFacts DEF IsTour, Arrays
<1>2. \A T : \A x \in 1 .. NumNodes : Part(T)[x] \in Int
  BY <1>1
<1>3. S = {E(x) : x \in 1 .. NumNodes}
  <2>1. \A i \in Nodes : i + 1 \in 1 .. NumNodes /\ (i + 1) - 1 = i
    BY <1>1 DEF Nodes
  <2>2. \A x \in 1 .. NumNodes : x - 1 \in Nodes /\ (x - 1) + 1 = x
    BY <1>1 DEF Nodes
  <2> QED
    BY <2>1, <2>2 DEF EdgesOf
<1>4. IsFiniteSet(S)
  <2>1. IsFiniteSet(SUBSET Nodes)
    BY NodesFacts, FS_SUBSET
  <2>2. \A x \in 1 .. NumNodes : x - 1 \in Positions /\ x \in Positions
    BY <1>1 DEF Positions
  <2>3. \A x \in 1 .. NumNodes : E(x) \in SUBSET Nodes
    BY <1>1, <2>2 DEF Arrays
  <2>4. S \subseteq SUBSET Nodes
    BY <1>3, <2>3
  <2> QED
    BY <2>1, <2>4, FS_Subset
<1>5. \A T : Total(Part(T), NumNodes) \in Int
  <2> TAKE T
  <2>1. PICK f : f = Part(T)
    OBVIOUS
  <2>2. \A x \in 1 .. NumNodes : f[x] \in Int
    BY <1>2, <2>1
  <2>3. NumNodes \in 0 .. NumNodes
    BY <1>1
  <2>4. Total(f, NumNodes) \in Int
    BY <1>1, <2>2, <2>3, TotalStep
  <2> QED
    BY <2>1, <2>4
<1>6. u \in [SUBSET S -> Int]
  <2> HIDE DEF Part
  <2> QED
    BY <1>5
<1>7. u[{}] = 0
  <2>1. PICK z : AddsUp(z, Part({}), NumNodes)
    BY <1>1, <1>2, SumExists
  <2>2. AddsUp([x \in 0 .. NumNodes |-> 0], Part({}), NumNodes)
    BY <1>1 DEF AddsUp
  <2>3. Total(Part({}), NumNodes) = [x \in 0 .. NumNodes |-> 0][NumNodes]
    <3> HIDE DEF Part
    <3> QED
      BY <1>1, <2>2, TotalIs
  <2> QED
    BY <1>1, <2>3
<1>8. ASSUME NEW T \in SUBSET S, NEW e \in T
      PROVE  u[T] = EdgeCost(e) + u[T \ {e}]
  <2>1. PICK a \in 1 .. NumNodes : e = E(a)
    BY <1>3
  <2>2. PICK f, g : f = Part(T) /\ g = Part(T \ {e})
    OBVIOUS
  <2>3. f[a] = Legs(t)[a] /\ g[a] = 0
    BY <2>1, <2>2
  <2>4. \A x \in 1 .. NumNodes : x # a => E(x) # e
    BY <2>1, LegsApart
  <2>5. \A x \in 1 .. NumNodes : x # a => g[x] = f[x]
    BY <2>2, <2>4
  <2>6. \A x \in 1 .. NumNodes : f[x] \in Int /\ g[x] \in Int
    <3>1. \A x \in 1 .. NumNodes : Legs(t)[x] \in Int /\ 0 \in Int
      BY <1>1
    <3>2. \A x \in 1 .. NumNodes : f[x] \in {Legs(t)[x], 0} /\ g[x] \in {Legs(t)[x], 0}
      BY <2>2
    <3> QED
      BY <3>1, <3>2
  <2>7. Total(g, NumNodes) = Total(f, NumNodes) - f[a] + g[a]
    <3>1. NumNodes \in Nat
      BY <1>1
    <3> HIDE DEF Part, u, S, E
    <3> QED
      BY <2>5, <2>6, <3>1, TotalChange
  <2>8. EdgeCost(e) = Legs(t)[a]
    <3>1. a - 1 \in Positions /\ a \in Positions
      BY <1>1 DEF Positions
    <3>2. PICK b \in Nodes, c \in Nodes : b = t[a - 1] /\ c = t[a]
      BY <1>1, <3>1 DEF Arrays
    <3>3. EdgeCost({b, c}) = Cost[b][c]
      BY EdgeCostIs
    <3> QED
      BY <1>1, <2>1, <3>2, <3>3
  <2>9. u[T] = Total(f, NumNodes) /\ u[T \ {e}] = Total(g, NumNodes)
    BY <2>2
  <2>10. Total(f, NumNodes) \in Int /\ Legs(t)[a] \in Int
    <3> HIDE DEF Part
    <3> QED
      BY <1>1, <1>5, <2>2
  <2> HIDE DEF u, Part, E
  <2> QED
    BY <2>3, <2>7, <2>8, <2>9, <2>10
<1>9. Part(S) = Legs(t)
  BY <1>1, <1>3
<1>10. Length(S) = u[S]
  <2> HIDE DEF u, S
  <2> QED
    BY <1>4, <1>6, <1>7, <1>8, LengthIs
<1> QED
  BY <1>9, <1>10 DEF TourCost

\* A two-factor needs three nodes.
LEMMA ThreeNodes ==
  ASSUME NEW y \in TwoFactors
  PROVE  NumNodes \notin {1, 2}
<1>1. NumNodes \in Nat \ {0} /\ Nodes = 0 .. NumNodes - 1
  BY NodesFacts DEF Nodes
<1>2. PICK a, b \in Nodes : a # b /\ a # 0 /\ b # 0
  BY NodesFacts, TwoNeighbours
<1> QED
  BY <1>1, <1>2

-----------------------------------------------------------------------------
\* A subtour cut, as cplex_solver_add_sec and lazy_sec_callback add them for the components of
\* a point that is not connected, removes no tour from the problem.
THEOREM CutsSpareTours ==
  ASSUME NEW x, ~IsConnected(x), NEW S \in Components(x), NEW y \in TwoFactors, IsConnected(y)
  PROVE  Sec(S, y)
<1>1. S \in SUBSET Nodes /\ S # {} /\ S # Nodes
  BY ComponentsFacts
<1>2. PICK t : t = Reconstruct(y)
  OBVIOUS
<1>3. IsTour(t) /\ EdgesOf(t) = y
  BY <1>2, ReconstructIsTour, ReconstructKeepsEdges
<1>4. Sec(S, EdgesOf(t))
  BY <1>1, <1>3, TourSatisfiesSec
<1> QED
  BY <1>3, <1>4

\* The objective value of a connected point, which the exact algorithms submit as the cost of
\* the tour they reconstruct from it, is the cost of that tour.
THEOREM ExtractedCost ==
  ASSUME NEW y \in TwoFactors, IsConnected(y)
  PROVE  IsTour(Reconstruct(y)) /\ TourCost(Reconstruct(y)) = Length(y)
<1>1. PICK t : t = Reconstruct(y)
  OBVIOUS
<1>2. IsTour(t) /\ EdgesOf(t) = y
  BY <1>1, ReconstructIsTour, ReconstructKeepsEdges
<1>3. NumNodes \notin {1, 2}
  BY ThreeNodes
<1>4. Length(EdgesOf(t)) = TourCost(t)
  BY <1>2, <1>3, LengthIsTourCost
<1> QED
  BY <1>1, <1>2, <1>4

\* Two things are two.
LEMMA PairIs ==
  ASSUME NEW a, NEW b, a # b
  PROVE  Cardinality({a, b}) = 2
<1>1. IsFiniteSet({a}) /\ Cardinality({a}) = 1
  BY FS_Singleton
<1>2. Cardinality({a} \cup {b}) = Cardinality({a}) + 1
  BY <1>1, FS_AddElement
<1>3. {a} \cup {b} = {a, b}
  OBVIOUS
<1> QED
  BY <1>1, <1>2, <1>3

\* The other way round: the edges of a tour, which are the MIP start, are a point of the base
\* model, and a connected one, so no cut is ever made for them.
THEOREM TourIsPoint ==
  ASSUME NEW t, IsTour(t), NumNodes \notin {1, 2}
  PROVE  EdgesOf(t) \in TwoFactors /\ IsConnected(EdgesOf(t))
<1> DEFINE y == EdgesOf(t)
<1>1. NumNodes \in Nat /\ NumNodes >= 3 /\ Nodes = 0 .. NumNodes - 1
  BY TourAssumption DEF Nodes
<1>2. \A i \in Nodes : t[i] \in Nodes /\ t[i + 1] \in Nodes /\ t[i] # t[i + 1]
  BY <1>1, EdgeFacts
<1>3. y \subseteq Edges
  <2>1. ASSUME NEW a \in Nodes, NEW b \in Nodes, a # b
        PROVE  {a, b} \in Edges
    BY <2>1, PairIs DEF Edges
  <2> QED
    BY <1>2, <2>1 DEF EdgesOf
<1>4. ASSUME NEW h \in Nodes
      PROVE  Cardinality({e \in y : h \in e}) = 2
  <2>1. PICK p, q \in Nodes : /\ t[p] = h /\ t[q + 1] = h /\ t[q] # t[p + 1]
                              /\ \A i \in Nodes : (t[i] = h => i = p) /\ (t[i + 1] = h => i = q)
    BY TourNeighbours
  <2>2. PICK out, in : out = {t[p], t[p + 1]} /\ in = {t[q], t[q + 1]}
    OBVIOUS
  <2>3. out \in y /\ in \in y /\ h \in out /\ h \in in
    BY <2>1, <2>2 DEF EdgesOf
  <2>4. out # in
    <3>1. t[p + 1] # h
      BY <1>2, <2>1
    <3> QED
      BY <2>1, <2>2, <3>1
  <2>5. ASSUME NEW e \in y, h \in e
        PROVE  e = out \/ e = in
    <3>1. PICK i \in Nodes : e = {t[i], t[i + 1]}
      BY DEF EdgesOf
    <3>2. i = p \/ i = q
      BY <2>1, <2>5, <3>1
    <3> QED
      BY <2>2, <3>1, <3>2
  <2> HIDE DEF y
  <2> DEFINE I == {e \in y : h \in e}
  <2>6. I = {out, in}
    BY <2>3, <2>5
  <2> HIDE DEF I
  <2>7. Cardinality({out, in}) = 2
    BY <2>4, PairIs
  <2>8. Cardinality(I) = 2
    BY <2>6, <2>7
  <2> QED
    BY <2>8 DEF I
<1>5. \A v \in Nodes : Component(y, v) = Nodes
  <2> SUFFICES ASSUME NEW v \in Nodes
               PROVE  Nodes \subseteq Component(y, v)
    BY ComponentFacts
  <2>1. PICK S \in SUBSET Nodes : S = Component(y, v) /\ v \in S /\ Closed(y, S)
    BY ComponentFacts
  <2> SUFFICES ASSUME S # Nodes
               PROVE  FALSE
    BY <2>1
  <2>2. PICK i \in Nodes : t[i] \in S /\ t[i + 1] \notin S
    BY <2>1, TourLeaves
  <2>3. {t[i], t[i + 1]} \in y
    BY DEF EdgesOf
  <2> QED
    BY <1>2, <2>1, <2>2, <2>3 DEF Closed
<1>6. Components(y) = {Nodes}
  <2>1. 0 \in Nodes
    BY <1>1
  <2> QED
    BY <1>5, <2>1 DEF Components
<1> QED
  BY <1>3, <1>4, <1>6 DEF TwoFactors, IsConnected
=============================================================================
