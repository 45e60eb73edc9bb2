---------------------------- MODULE MCTspSolution ----------------------------
(***************************************************************************)
(* Instance: two threads, three tours (two of them equally cheap) and one  *)
(* garbled array.  One candidate carries a cost that is off by Eps, as the *)
(* accumulated deltas of a local search may be; one improves on the tour   *)
(* stored beside it by no more than Eps and has to be refused.             *)
(***************************************************************************)
EXTENDS TspSolution

CONSTANTS t1, t2, t3, g

MCTours == {t1, t2, t3}
MCGarbled == {g}
MCTrueCost == [t \in MCTours |-> IF t = t1 THEN 9 ELSE 5]
MCOffers == {[tour |-> t, cost |-> MCTrueCost[t]] : t \in MCTours}
              \cup {[tour |-> t3, cost |-> 4], [tour |-> t2, cost |-> 6]}
=============================================================================
