----------------------------- MODULE ChatService -----------------------------
(***************************************************************************)
(* What one chat promises its user about the messages he sends: each is    *)
(* answered at most once, one at a time, and a message that has to wait is *)
(* either answered later or dropped (a newer message took its place, or    *)
(* the user cancelled it), never answered after it was dropped.            *)
(***************************************************************************)
CONSTANT Messages

VARIABLE status  \* where each message is in its life

Statuses == {"new", "waiting", "running", "done", "dropped"}

Init == status = [m \in Messages |-> "new"]

Move(m, from, to) ==
  /\ status[m] = from
  /\ status' = [status EXCEPT ![m] = to]

Arrive(m) == Move(m, "new", "waiting")

Start(m) ==
  /\ \A n \in Messages : status[n] # "running"
  /\ Move(m, "waiting", "running")

Finish(m) == Move(m, "running", "done")

Drop(m) == Move(m, "waiting", "dropped")

Next == \E m \in Messages : Arrive(m) \/ Start(m) \/ Finish(m) \/ Drop(m)

Spec == Init /\ [][Next]_status
=============================================================================
