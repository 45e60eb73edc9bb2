----------------------------- MODULE MCGenetic -----------------------------
(***************************************************************************)
(* Instance: four tours, of which two are local optima; an exchange leads  *)
(* from the worse one to a tour that is cheaper without being an optimum.  *)
(***************************************************************************)
EXTENDS Genetic

CONSTANTS ta, tb, tc, td

MCTours == {ta, tb, tc, td}
MCTrueCost == [t \in MCTours |-> CASE t = ta -> 9 [] t = tb -> 7 [] t = tc -> 4 [] t = td -> 3]
MCOptima == {tb, td}
MCMutants == [t \in MCTours |-> CASE t = tb -> {ta, tb, tc} [] t = td -> {tb, tc, td} [] OTHER -> {ta, t}]
=============================================================================
