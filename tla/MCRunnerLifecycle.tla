-------------------------- MODULE MCRunnerLifecycle --------------------------
(* Small instances of RunnerLifecycle for TLC.                              *)
EXTENDS RunnerLifecycle, TLC

CONSTANTS r1, r2, r3

OneRunner    == {r1}
None         == {}
TwoRunners   == {r1, r2}
=============================================================================
