------------------------------ MODULE MCCascade ------------------------------
(* Bounds for TLC.                                                         *)
EXTENDS Cascade, TLC

CONSTANTS c1, project, global

MCChats  == {c1}
MCLayers == {project, global}
Symmetry == Permutations(MCLayers)
=============================================================================
