------------------------------ MODULE MCSessions ------------------------------
(* Bounds for TLC.                                                          *)
EXTENDS Sessions, TLC

CONSTANTS q1, q2

MCQueries == {q1, q2}
Symmetry  == Permutations(MCQueries)
=============================================================================
