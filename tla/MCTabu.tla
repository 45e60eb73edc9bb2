------------------------------- MODULE MCTabu -------------------------------
(***************************************************************************)
(* Instance: five nodes, and tenures of which some outlast the search's    *)
(* return to an edge and some do not.                                      *)
(***************************************************************************)
EXTENDS Tabu, Instances

=============================================================================
