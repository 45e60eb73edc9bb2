------------------------------ MODULE MCNnPool ------------------------------
(***************************************************************************)
(* Instance: five starting nodes.  A starting node leads to one tour, or   *)
(* to a second one when the clock cuts the descent short.                  *)
(***************************************************************************)
EXTENDS NnPool

CONSTANTS id, ta, tb, tc

MCTours == {id, ta, tb, tc}
MCTrueCost == [t \in MCTours |-> CASE t = id -> 9 [] t = ta -> 7 [] t = tb -> 5 [] t = tc -> 4]
MCFound == [n \in Starts |-> CASE n \in {0, 3} -> {ta} [] n = 4 -> {tb, tc} [] OTHER -> {tb}]
=============================================================================
