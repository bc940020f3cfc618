------------------------------ MODULE MCApiCalls ------------------------------
(* Bounds for TLC.                                                         *)
EXTENDS ApiCalls

CONSTANTS q1, q2, b1

MCQueries == {q1, q2, b1}
MCAsides  == {b1}
MCRoom    == [k \in Modes |-> IF k = "whole" THEN 3 ELSE 4]

=============================================================================
