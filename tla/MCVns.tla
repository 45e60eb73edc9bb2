------------------------------- MODULE MCVns -------------------------------
(***************************************************************************)
(* Instance: five nodes, and kicks of up to six cuts on them.              *)
(***************************************************************************)
EXTENDS Vns, Instances

=============================================================================
