----------------------------- MODULE MCQueryCard -----------------------------
(* Bounds for TLC.                                                         *)
EXTENDS QueryCard

CONSTANTS tool, flow

MCTools     == {tool, flow}
MCWorkflows == {flow}

=============================================================================
