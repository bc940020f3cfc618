------------------------------ MODULE RunnerPool ------------------------------
(***************************************************************************)
(* What the pool of AI processes promises: a job waits, has one of the     *)
(* MaxProcs places while its process runs, and gives the place back; it    *)
(* may then queue again (the retry), and it may give up while it waits.    *)
(***************************************************************************)
EXTENDS Naturals, FiniteSets

CONSTANTS Runners, MaxProcs

VARIABLES
  waiting,  \* the jobs that want a place
  placed    \* the jobs that have one

Init == waiting = Runners /\ placed = {}

Enter(r) ==
  /\ r \in waiting
  /\ Cardinality(placed) < MaxProcs
  /\ waiting' = waiting \ {r}
  /\ placed' = placed \cup {r}

Leave(r) ==
  /\ r \in placed
  /\ placed' = placed \ {r}
  /\ waiting' \in {waiting, waiting \cup {r}}

GiveUp(r) ==
  /\ r \in waiting
  /\ waiting' = waiting \ {r}
  /\ UNCHANGED placed

Next == \E r \in Runners : Enter(r) \/ Leave(r) \/ GiveUp(r)

Spec == Init /\ [][Next]_<<waiting, placed>>
=============================================================================
