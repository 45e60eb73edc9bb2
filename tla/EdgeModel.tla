----------------------------- MODULE EdgeModel -----------------------------
(***************************************************************************)
(* The integer program of the exact solvers: exact/cplex_solver_wrapper.c  *)
(* and exact/subtour_separator.c.  A 0/1 vector x over the variables x_ij  *)
(* is the set of the edges {i, j} with x_ij > 0.5.                         *)
(***************************************************************************)
EXTENDS TspTour, SequencesExt

Edges == {e \in SUBSET Nodes : Cardinality(e) = 2}

EdgeCost(e) == LET i == Min(e) IN Cost[i][Max(e)]

\* The objective.
Length(x) == MapThenSumSet(EdgeCost, x)

\* cplex_solver_build_base_model: binary variables, and two edges at every node.
TwoFactors ==
  {x \in SUBSET Edges : \A h \in Nodes : Cardinality({e \in x : h \in e}) = 2}

\* dfs from one node.
Component(x, v) ==
  LET reached[k \in 0 .. NumNodes] ==
        IF k = 0 THEN {v}
        ELSE LET r == reached[k - 1] IN r \cup {j \in Nodes : \E i \in r : {i, j} \in x}
  IN  reached[NumNodes]

\* find_connected_components
Components(x) == {Component(x, v) : v \in Nodes}

IsConnected(x) == Components(x) = {Nodes}

\* Wrong: one edge less than a path through the component has.
SecTooTight(S, x) == Cardinality({e \in x : e \subseteq S}) <= Cardinality(S) - 2

\* The subtour elimination constraint of the nodes S (cplex_solver_add_sec and
\* lazy_sec_callback).
Sec(S, x) == Cardinality({e \in x : e \subseteq S}) <= Cardinality(S) - 1

\* Wrong: the edges of x are not looked at.
OnwardToTheNext(x, s) == Min(Nodes \ ToSet(s))

\* cplex_solver_reconstruct_tour: along the chosen edges to the first unvisited
\* neighbour; where there is none, on to the first unvisited node.
Onward(x, s) ==
  LET unvisited == Nodes \ ToSet(s)
      linked == {j \in unvisited : {Last(s), j} \in x}
  IN  IF linked # {} THEN Min(linked) ELSE Min(unvisited)

Reconstruct(x) ==
  LET walk[k \in 1 .. NumNodes] ==
        IF k = 1 THEN <<0>> ELSE LET s == walk[k - 1] IN Append(s, Onward(x, s))
  IN  [p \in Positions |-> walk[NumNodes][(p % NumNodes) + 1]]
=============================================================================
