------------------------------- MODULE MCBridge -------------------------------
(* Bounds for TLC.                                                         *)
EXTENDS Bridge

CONSTANTS t1, v1, v2, u1, u2

MCMessages == {t1, v1, v2}
MCVoices   == {v1, v2}
MCUpgrades == {u1, u2}

=============================================================================
