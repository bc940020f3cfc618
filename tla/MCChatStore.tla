----------------------------- MODULE MCChatStore -----------------------------
(* Bounds for TLC.                                                         *)
EXTENDS ChatStore

CONSTANTS c1, t1

MCCrons  == {c1}
MCTasks  == {t1}
MCPhases == {-12, -1}

=============================================================================
