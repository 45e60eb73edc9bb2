---------------------------- MODULE MCParallelRun ----------------------------
(***************************************************************************)
(* Instance: four tours with the costs 8, 6, 3 and 3, the identity being   *)
(* the most expensive one; a descent or a construction may end in any.     *)
(***************************************************************************)
EXTENDS ParallelRun

CONSTANTS id, ta, tb, tc

MCTours == {id, ta, tb, tc}
MCTrueCost == [t \in MCTours |-> CASE t = id -> 8 [] t = ta -> 6 [] OTHER -> 3]
AnyTour == [wi \in Workers \X (0 .. NumNodes) |-> MCTours]
=============================================================================
