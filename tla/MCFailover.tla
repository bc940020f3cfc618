----------------------------- MODULE MCFailover -----------------------------
(***************************************************************************)
(* A command-line orchestrator that has tools and an API worker that has   *)
(* vision.                                                                 *)
(***************************************************************************)
EXTENDS Failover

CONSTANTS cli, api

MCPlace == [b \in Backends |-> IF b = api THEN 1 ELSE 2]
MCTags  == [b \in Backends |-> IF b = cli THEN {"tools"} ELSE {"vision"}]

\* In a chat that is locked to the one, a command asks for the other.
Forced   == [Plain EXCEPT !.force = {api}, !.locked = cli]
NeedsAll == [Plain EXCEPT !.needs = Needs]

OneRequest  == {Plain}
AllRequests == {Plain, Forced, NeedsAll}
=============================================================================
