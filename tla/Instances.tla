----------------------------- MODULE Instances -----------------------------
(***************************************************************************)
(* Small cost matrices for the checked instances.                          *)
(***************************************************************************)
EXTENDS Integers, Sequences

Matrix(rows) == [a \in 0 .. Len(rows) - 1 |-> [b \in 0 .. Len(rows) - 1 |-> rows[a + 1][b + 1]]]

\* Three 2-opt local optima, of cost 19, 20 and 21: with Eps = 1 the first two
\* are too close for one to replace the other, the first and the last are not.
FiveNodes == Matrix(<< <<0, 5, 2, 3, 3>>,
                       <<5, 0, 3, 5, 5>>,
                       <<2, 3, 0, 9, 5>>,
                       <<3, 5, 9, 0, 8>>,
                       <<3, 5, 5, 8, 0>> >>)

\* One pair of triangles, {0, 1, 4} and {2, 3, 5}, is shorter (58) than the best
\* tour (62), the next ones (72, 74) are not.
SixNodes == Matrix(<< <<0, 6, 6, 17, 4, 14>>,
                      <<6, 0, 10, 21, 10, 18>>,
                      <<6, 10, 0, 11, 10, 8>>,
                      <<17, 21, 11, 0, 15, 19>>,
                      <<4, 10, 10, 15, 0, 18>>,
                      <<14, 18, 8, 19, 18, 0>> >>)
=============================================================================
