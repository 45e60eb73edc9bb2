--------------------------- MODULE MCConstruction ---------------------------
(***************************************************************************)
(* Instance: five nodes; every first parent that starts at node 0 against  *)
(* every second parent, cut everywhere from the first to the last place.   *)
(***************************************************************************)
EXTENDS Construction, Instances

MCSecondParents == {t \in [Positions -> Nodes] : IsTour(t)}
=============================================================================
