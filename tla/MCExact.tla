------------------------------ MODULE MCExact ------------------------------
(***************************************************************************)
(* Instance: six nodes, two triangles shorter than every tour.  The        *)
(* identity is far from the best tour; the other warm start is a 2-opt     *)
(* local optimum which only an exchange of three edges improves.           *)
(***************************************************************************)
EXTENDS Exact, Instances

Array(nodes) == [p \in Positions |-> nodes[(p % NumNodes) + 1]]

MCWarmStarts == {Array(<<0, 1, 4, 5, 3, 2>>), Array(<<0, 2, 3, 5, 1, 4>>)}
=============================================================================
