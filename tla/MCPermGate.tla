------------------------------ MODULE MCPermGate ------------------------------
(* Small instances of PermGate for TLC.                                     *)
EXTENDS PermGate, TLC

CONSTANTS c1, c2

OneCall   == {c1}
TwoCalls  == {c1, c2}
AllHazards == HazardKinds
=============================================================================
