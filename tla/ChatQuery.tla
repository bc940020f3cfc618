------------------------------ MODULE ChatQuery ------------------------------
(***************************************************************************)
(* The life of the messages of ONE chat: handle_message starts a thread    *)
(* per message, _do_query runs at most one of them at a time under the     *)
(* per-chat lock, keeps the latest other one in the one-slot queue         *)
(* _pending_msg, and hands it over when the running query ends or passes   *)
(* its soft timeout.  Commands and card buttons race with all of it.       *)
(*                                                                         *)
(* A step is the code between two accesses to shared state (the lock, the  *)
(* pending slot, the registered cancel event, the queue cards).  The lock  *)
(* is a _ChatLock, which any thread may release; an Event object is a      *)
(* number, so that a thread can keep an object the registry has replaced.  *)
(***************************************************************************)
EXTENDS Naturals, Sequences

CONSTANTS
  Threads,    \* slots for _do_query threads (with the _watch thread of their runner)
  Messages,   \* the user messages of this chat
  None,       \* no message / the lock is free
  Prober,     \* lock holder: a command that tests the lock by taking it
  Hazards,    \* what may happen in this instance, see HazardKinds
  MaxInputs   \* bound on the commands and button clicks of the user

HazardKinds == {"soft",    \* a query passes its soft timeout
                "card",    \* a Feishu card call fails (it returns None / False)
                "thread",  \* threading.Thread.start raises
                "probe",   \* a command probes the chat lock
                "expire"}  \* a query runs for more than an hour without another event for its chat

ASSUME ChatQueryAssumption ==
  /\ Hazards \subseteq HazardKinds
  /\ MaxInputs \in Nat
  /\ None \notin Messages
  /\ None \notin Threads
  /\ Prober \notin Threads
  /\ Prober # None

VARIABLES
  pc,           \* where each thread is in _do_query
  msg,          \* its message
  mid,          \* its queue_card_mid / existing_mid: a card, 0 for None
  ev,           \* the cancel event it fetched
  lockReleased, \* the threads whose lock_released is True
  soft,         \* where its runner's soft-timeout callback is
  softMsg,      \* the queue entry that callback popped
  holder,       \* who took the chat lock last, None when it is free
  registered,   \* the chat's event in _cancel_events
  isSet,        \* the events that are set
  pending,      \* _pending_msg of the chat: message and queue card
  cards,        \* queue card i shows message cards[i] as waiting, or None
  command,      \* the text command being handled
  inputs,       \* how many commands and clicks the user made
  todo,         \* messages still to arrive
  executed      \* history: messages whose query took the lock

locals == <<pc, msg, mid, ev, lockReleased, soft, softMsg>>
vars == <<locals, holder, registered, isSet, pending, cards, command, inputs,
          todo, executed>>

----------------------------------------------------------------------------
Slot      == [msg : Messages \cup {None}, mid : Nat]
NoPending == [msg |-> None, mid |-> 0]
Waiting   == {"fetch", "acquire", "enqueue", "dispatch"} \* the thread still has to place its message
Running   == {"begin", "run"}
Ending    == {"release", "settle"}
PCs       == {"idle", "card", "tag"} \cup Waiting \cup Running \cup Ending
SoftPCs   == {"armed", "release", "replace", "pop", "start", "done"}
NoCommand == [kind |-> "none", at |-> "idle"]

TypeOK ==
  /\ pc \in [Threads -> PCs]
  /\ msg \in [Threads -> Messages \cup {None}]
  /\ mid \in [Threads -> Nat]
  /\ ev \in [Threads -> Nat]
  /\ lockReleased \subseteq Threads
  /\ soft \in [Threads -> SoftPCs]
  /\ softMsg \in [Threads -> Slot]
  /\ holder \in Threads \cup {None, Prober}
  /\ registered \in Nat
  /\ isSet \subseteq Nat
  /\ pending \in Slot
  /\ cards \in Seq(Messages \cup {None})
  /\ command \in [kind : {"none", "cancel", "probe"}, at : {"idle", "acquired", "pop", "trigger"}]
  /\ inputs \in Nat
  /\ todo \subseteq Messages
  /\ executed \subseteq Messages

Init ==
  /\ pc = [t \in Threads |-> "idle"]
  /\ msg = [t \in Threads |-> None]
  /\ mid = [t \in Threads |-> 0]
  /\ ev = [t \in Threads |-> 0]
  /\ lockReleased = {}
  /\ soft = [t \in Threads |-> "armed"]
  /\ softMsg = [t \in Threads |-> NoPending]
  /\ holder = None
  /\ registered = 0
  /\ isSet = {}
  /\ pending = NoPending
  /\ cards = <<>>
  /\ command = NoCommand
  /\ inputs = 0
  /\ todo = Messages
  /\ executed = {}

----------------------------------------------------------------------------
\* A slot can be used again once its thread and the callback of its watcher ended.
Free(t) == pc[t] = "idle" /\ soft[t] \in {"armed", "done"}

\* threading.Thread(target=_do_query, (m, .., queue_card_mid=c)).start() in slot u.
\* The caller, if it is a query thread t # u, returns at once.
Spawn(t, u, m, c) ==
  /\ Free(u)
  /\ pc' = [pc EXCEPT ![t] = "idle", ![u] = "fetch"]
  /\ msg' = [msg EXCEPT ![t] = None, ![u] = m]
  /\ mid' = [mid EXCEPT ![t] = 0, ![u] = c]
  /\ ev' = [ev EXCEPT ![t] = 0, ![u] = 0]
  /\ soft' = [soft EXCEPT ![u] = "armed"]
  /\ lockReleased' = lockReleased \ {u}

\* The thread returns and its locals are gone.
Return(t) ==
  /\ pc' = [pc EXCEPT ![t] = "idle"]
  /\ msg' = [msg EXCEPT ![t] = None]
  /\ mid' = [mid EXCEPT ![t] = 0]
  /\ ev' = [ev EXCEPT ![t] = 0]
  /\ UNCHANGED <<lockReleased, soft, softMsg>>

Goto(t, next) ==
  /\ pc' = [pc EXCEPT ![t] = next]
  /\ UNCHANGED <<lockReleased, soft, softMsg>>

Input == inputs < MaxInputs /\ inputs' = inputs + 1

----------------------------------------------------------------------------
(* handle_message, handle_reaction_created: a message that goes to a model *)

Receive(m, u) ==
  /\ m \in todo
  /\ todo' = todo \ {m}
  /\ isSet' = isSet \ {registered}                      \* _reset_cancel
  /\ Spawn(u, u, m, 0)
  /\ UNCHANGED <<softMsg, holder, registered, pending, cards, command, inputs, executed>>

(* _do_query up to the lock, and the branch that queues the message        *)

Fetch(t) ==
  /\ pc[t] = "fetch"
  /\ ev' = [ev EXCEPT ![t] = registered]
  /\ Goto(t, "acquire")
  /\ UNCHANGED <<msg, mid, holder, registered, isSet, pending, cards, command,
                 inputs, todo, executed>>


\* mutant: the result of acquire(blocking=False) is not looked at
AcquireUnchecked(t) ==
  /\ pc[t] = "acquire"
  /\ holder' = t
  /\ executed' = executed \cup {msg[t]}
  /\ Goto(t, "begin")
  /\ UNCHANGED <<msg, mid, ev, registered, isSet, pending, cards, command, inputs, todo>>

Acquire(t) ==
  /\ pc[t] = "acquire"
  /\ holder = None
  /\ holder' = t
  /\ executed' = executed \cup {msg[t]}
  /\ Goto(t, "begin")
  /\ UNCHANGED <<msg, mid, ev, registered, isSet, pending, cards, command, inputs, todo>>

Busy(t) ==
  /\ pc[t] = "acquire"
  /\ holder # None
  /\ Goto(t, "enqueue")
  /\ UNCHANGED <<msg, mid, ev, holder, registered, isSet, pending, cards, command,
                 inputs, todo, executed>>


Enqueue(t) ==                                           \* _set_pending
  /\ pc[t] = "enqueue"
  /\ pending' = [msg |-> msg[t], mid |-> 0]
  /\ mid' = [mid EXCEPT ![t] = pending.mid]
  /\ Goto(t, "card")
  /\ UNCHANGED <<msg, ev, holder, registered, isSet, cards, command, inputs, todo, executed>>

\* mutant: the card keeps the text of the message it was sent for
PatchKeepsText(t) ==
  /\ pc[t] = "card"
  /\ mid[t] # 0
  /\ Return(t)
  /\ UNCHANGED <<holder, registered, isSet, pending, cards, command, inputs, todo, executed>>

PatchQueueCard(t) ==
  /\ pc[t] = "card"
  /\ mid[t] # 0
  /\ \/ cards' = [cards EXCEPT ![mid[t]] = msg[t]]
     \/ "card" \in Hazards /\ UNCHANGED cards
  /\ Return(t)
  /\ UNCHANGED <<holder, registered, isSet, pending, command, inputs, todo, executed>>

SendQueueCard(t) ==
  /\ pc[t] = "card"
  /\ mid[t] = 0
  /\ \/ /\ cards' = Append(cards, msg[t])
        /\ mid' = [mid EXCEPT ![t] = Len(cards) + 1]
     \/ "card" \in Hazards /\ UNCHANGED <<cards, mid>>
  /\ Goto(t, "tag")
  /\ UNCHANGED <<msg, ev, holder, registered, isSet, pending, command, inputs, todo, executed>>

TagPending(t) ==                                        \* _update_pending_card_mid
  /\ pc[t] = "tag"
  /\ pending' = IF pending.msg = None THEN pending ELSE [pending EXCEPT !.mid = mid[t]]
  /\ Return(t)
  /\ UNCHANGED <<holder, registered, isSet, cards, command, inputs, todo, executed>>

(* _do_query with the lock                                                 *)

Begin(t) ==                 \* the queue card becomes the progress card, if it can be patched
  /\ pc[t] = "begin"
  /\ \/ mid[t] # 0 /\ cards' = [cards EXCEPT ![mid[t]] = None]
     \/ (mid[t] = 0 \/ "card" \in Hazards) /\ UNCHANGED cards
  /\ Goto(t, "run")
  /\ UNCHANGED <<msg, mid, ev, holder, registered, isSet, pending, command, inputs, todo, executed>>

End(t) ==                   \* answer, error, hard timeout or cancellation
  /\ pc[t] = "run"
  /\ Goto(t, "release")
  /\ UNCHANGED <<msg, mid, ev, holder, registered, isSet, pending, cards, command,
                 inputs, todo, executed>>

Release(t) ==               \* in the finally: whoever holds the lock; RuntimeError is caught
  /\ pc[t] = "release"
  /\ holder' = None
  /\ Goto(t, "settle")
  /\ UNCHANGED <<msg, mid, ev, registered, isSet, pending, cards, command, inputs, todo, executed>>


\* mutant: the slot is read with get, not pop
SettlePeeks(t) ==
  /\ pc[t] = "settle"
  /\ \/ /\ t \in lockReleased \/ pending.msg = None
        /\ Return(t)
     \/ /\ t \notin lockReleased /\ pending.msg # None
        /\ msg' = [msg EXCEPT ![t] = pending.msg]
        /\ mid' = [mid EXCEPT ![t] = pending.mid]
        /\ Goto(t, "dispatch")
        /\ UNCHANGED ev
  /\ UNCHANGED <<holder, registered, isSet, pending, cards, command, inputs, todo, executed>>

\* mutant: the test of lock_released is inverted
SettleInverted(t) ==
  /\ pc[t] = "settle"
  /\ \/ /\ t \notin lockReleased \/ pending.msg = None
        /\ Return(t)
        /\ UNCHANGED pending
     \/ /\ t \in lockReleased /\ pending.msg # None
        /\ msg' = [msg EXCEPT ![t] = pending.msg]
        /\ mid' = [mid EXCEPT ![t] = pending.mid]
        /\ pending' = NoPending
        /\ Goto(t, "dispatch")
        /\ UNCHANGED ev
  /\ UNCHANGED <<holder, registered, isSet, cards, command, inputs, todo, executed>>

Settle(t) ==                \* if not lock_released: _pop_pending
  /\ pc[t] = "settle"
  /\ \/ /\ t \in lockReleased \/ pending.msg = None
        /\ Return(t)
        /\ UNCHANGED pending
     \/ /\ t \notin lockReleased /\ pending.msg # None
        /\ msg' = [msg EXCEPT ![t] = pending.msg]
        /\ mid' = [mid EXCEPT ![t] = pending.mid]
        /\ pending' = NoPending
        /\ Goto(t, "dispatch")
        /\ UNCHANGED ev
  /\ UNCHANGED <<holder, registered, isSet, cards, command, inputs, todo, executed>>

Dispatch(t, u) ==           \* _reset_cancel, then the thread of the popped message
  /\ pc[t] = "dispatch"
  /\ t # u
  /\ isSet' = isSet \ {registered}
  /\ Spawn(t, u, msg[t], mid[t])
  /\ UNCHANGED <<softMsg, holder, registered, pending, cards, command, inputs, todo, executed>>

DispatchFails(t) ==         \* start() raises in the finally: nothing catches it
  /\ pc[t] = "dispatch"
  /\ "thread" \in Hazards
  /\ isSet' = isSet \ {registered}
  /\ Return(t)
  /\ UNCHANGED <<holder, registered, pending, cards, command, inputs, todo, executed>>

----------------------------------------------------------------------------
(* _on_soft_timeout, in the watcher thread of the runner: the query may    *)
(* end at any point of it.                                                 *)

SoftGoto(t, next) ==
  /\ soft' = [soft EXCEPT ![t] = next]
  /\ UNCHANGED <<msg, mid, ev>>

SoftFire(t) ==
  /\ "soft" \in Hazards
  /\ pc[t] = "run" /\ soft[t] = "armed" /\ t \notin lockReleased
  /\ SoftGoto(t, "release")
  /\ UNCHANGED <<pc, lockReleased, softMsg, holder, registered, isSet, pending, cards,
                 command, inputs, todo, executed>>

SoftRelease(t) ==
  /\ soft[t] = "release"
  /\ holder' = None
  /\ SoftGoto(t, "replace")
  /\ UNCHANGED <<pc, lockReleased, softMsg, registered, isSet, pending, cards, command,
                 inputs, todo, executed>>


\* mutant: the cancel event is kept
SoftKeepsEvent(t) ==
  /\ soft[t] = "replace"
  /\ lockReleased' = lockReleased \cup {t}
  /\ SoftGoto(t, "pop")
  /\ UNCHANGED <<pc, softMsg, holder, registered, isSet, pending, cards, command, inputs, todo, executed>>

\* lock_released = True, _replace_cancel_event: one step, for only Settle(t) reads the flag
\* and it never looks at the registry.
SoftReplace(t) ==
  /\ soft[t] = "replace"
  /\ lockReleased' = lockReleased \cup {t}
  /\ registered' = registered + 1
  /\ SoftGoto(t, "pop")
  /\ UNCHANGED <<pc, softMsg, holder, isSet, pending, cards, command, inputs, todo, executed>>


\* mutant: the callback reads the slot with get, not pop
SoftPeeks(t) ==
  /\ soft[t] = "pop"
  /\ \/ /\ pending.msg = None
        /\ SoftGoto(t, "done")
        /\ UNCHANGED softMsg
     \/ /\ pending.msg # None
        /\ SoftGoto(t, "start")
        /\ softMsg' = [softMsg EXCEPT ![t] = pending]
  /\ UNCHANGED <<pc, lockReleased, holder, registered, isSet, pending, cards, command, inputs,
                 todo, executed>>

SoftPop(t) ==
  /\ soft[t] = "pop"
  /\ \/ /\ pending.msg = None
        /\ SoftGoto(t, "done")
        /\ UNCHANGED softMsg
     \/ /\ pending.msg # None
        /\ SoftGoto(t, "start")
        /\ softMsg' = [softMsg EXCEPT ![t] = pending]
  /\ pending' = NoPending
  /\ UNCHANGED <<pc, lockReleased, holder, registered, isSet, cards, command, inputs,
                 todo, executed>>

SoftStart(t, u) ==
  /\ soft[t] = "start"
  /\ t # u /\ Free(u)
  /\ pc' = [pc EXCEPT ![u] = "fetch"]
  /\ msg' = [msg EXCEPT ![u] = softMsg[t].msg]
  /\ mid' = [mid EXCEPT ![u] = softMsg[t].mid]
  /\ soft' = [soft EXCEPT ![u] = "armed", ![t] = "done"]
  /\ lockReleased' = lockReleased \ {u}
  /\ softMsg' = [softMsg EXCEPT ![t] = NoPending]
  /\ UNCHANGED <<ev, holder, registered, isSet, pending, cards, command, inputs, todo, executed>>

SoftStartFails(t) ==        \* the message goes back to the slot, without its card
  /\ soft[t] = "start"
  /\ "thread" \in Hazards
  /\ pending' = [msg |-> softMsg[t].msg, mid |-> 0]
  /\ softMsg' = [softMsg EXCEPT ![t] = NoPending]
  /\ SoftGoto(t, "done")
  /\ UNCHANGED <<pc, lockReleased, holder, registered, isSet, cards, command, inputs,
                 todo, executed>>

----------------------------------------------------------------------------
(* Commands and buttons.  /cancel tests the lock by taking it, as /btw,    *)
(* get_busy_chat_ids and wait_for_idle do (kind "probe").                  *)

\* where a command goes once it has tested the lock
AfterProbe(kind) == IF kind = "cancel" THEN [kind |-> kind, at |-> "pop"] ELSE NoCommand

ProbeLock(kind) ==
  /\ "probe" \in Hazards
  /\ command = NoCommand
  /\ Input
  /\ IF holder = None
     THEN holder' = Prober /\ command' = [kind |-> kind, at |-> "acquired"]
     ELSE UNCHANGED holder /\ command' = AfterProbe(kind)
  /\ UNCHANGED <<locals, registered, isSet, pending, cards, todo, executed>>

ProbeRelease ==             \* RuntimeError, when someone else released it, ends the command
  /\ command.at = "acquired"
  /\ command' = IF holder = None THEN NoCommand ELSE AfterProbe(command.kind)
  /\ holder' = None
  /\ UNCHANGED <<locals, registered, isSet, pending, cards, inputs, todo, executed>>

CancelPop ==
  /\ command.at = "pop"
  /\ pending' = NoPending
  /\ command' = [command EXCEPT !.at = "trigger"]
  /\ UNCHANGED <<locals, holder, registered, isSet, cards, inputs, todo, executed>>

CancelTrigger ==
  /\ command.at = "trigger"
  /\ isSet' = isSet \cup {registered}
  /\ command' = NoCommand
  /\ UNCHANGED <<locals, holder, registered, pending, cards, inputs, todo, executed>>

CancelButton ==             \* on the progress card: _trigger_cancel
  /\ Input
  /\ isSet' = isSet \cup {registered}
  /\ UNCHANGED <<locals, holder, registered, pending, cards, command, todo, executed>>

\* _get_cancel_event, for any chat, drops the events that were not asked for in the last hour; the
\* chat gets a new one when it is asked for again.
EvictEvent ==
  /\ "expire" \in Hazards
  /\ Input
  /\ \E t \in Threads : pc[t] = "run" /\ ev[t] = registered
  /\ registered' = registered + 1
  /\ UNCHANGED <<locals, holder, isSet, pending, cards, command, todo, executed>>

CancelQueueButton(c) ==     \* on queue card c: _pop_pending, and the card says so
  /\ c \in DOMAIN cards
  /\ cards[c] # None
  /\ Input
  /\ pending' = NoPending
  /\ cards' = [cards EXCEPT ![c] = None]
  /\ UNCHANGED <<locals, holder, registered, isSet, command, todo, executed>>

----------------------------------------------------------------------------
ThreadStep(t) ==
  \/ Fetch(t) \/ Acquire(t) \/ Busy(t)
  \/ Enqueue(t) \/ PatchQueueCard(t) \/ SendQueueCard(t) \/ TagPending(t)
  \/ Begin(t) \/ End(t) \/ Release(t) \/ Settle(t)
  \/ (\E u \in Threads : Dispatch(t, u)) \/ DispatchFails(t)

CallbackStep(t) ==
  \/ SoftRelease(t) \/ SoftReplace(t) \/ SoftPop(t)
  \/ (\E u \in Threads : SoftStart(t, u)) \/ SoftStartFails(t)

CommandStep == ProbeRelease \/ CancelPop \/ CancelTrigger

UserStep ==
  \/ \E m \in Messages, u \in Threads : Receive(m, u)
  \/ \E kind \in {"cancel", "probe"} : ProbeLock(kind)
  \/ CancelButton \/ EvictEvent
  \/ \E c \in 1..Len(cards) : CancelQueueButton(c)

Next ==
  \/ \E t \in Threads : ThreadStep(t) \/ SoftFire(t) \/ CallbackStep(t)
  \/ CommandStep
  \/ UserStep

Spec == Init /\ [][Next]_vars

\* Threads are scheduled and a backend call ends; users and timeouts need not act.
Fairness ==
  /\ \A t \in Threads : WF_vars(ThreadStep(t)) /\ WF_vars(CallbackStep(t))
  /\ WF_vars(CommandStep)

FairSpec == Spec /\ Fairness

----------------------------------------------------------------------------
(* Properties                                                              *)

\* The query has the chat to itself: its soft timeout has not let go of the lock.
Foreground(t) == pc[t] \in Running \cup {"release"} /\ soft[t] \in {"armed", "release"}

\* Two messages of a chat are never worked on in the foreground together: the lock
\* that _do_query takes (_query.py 703) excludes every other query until it ends or
\* passes its soft timeout.
ForegroundExclusive ==
  \A t, u \in Threads : Foreground(t) /\ Foreground(u) => t = u

\* A message that still waits, wherever the hand-over left it, has not been executed yet.
NoSecondExecution ==
  /\ \A t \in Threads : pc[t] \in Waiting => msg[t] \notin executed
  /\ \A t \in Threads : softMsg[t].msg \notin executed
  /\ pending.msg \notin executed

\* Each message that waits is in one place: one thread, one callback or the slot.
SingleOwner ==
  /\ \A t, u \in Threads : pc[t] \in Waiting /\ pc[u] \in Waiting /\ msg[t] = msg[u] => t = u
  /\ \A t, u \in Threads : softMsg[t].msg # None /\ softMsg[t].msg = softMsg[u].msg => t = u
  /\ \A t, u \in Threads : pc[t] \in Waiting => msg[t] # softMsg[u].msg
  /\ \A t \in Threads : pc[t] \in Waiting => msg[t] # pending.msg
  /\ \A t \in Threads : softMsg[t].msg = pending.msg => pending.msg = None

\* No interleaving of the hand-overs between _set_pending, _pop_pending and the thread starts
\* answers a message twice or gives it to two owners.
TakenOnce == NoSecondExecution /\ SingleOwner

\* After _replace_cancel_event a /cancel or a click cannot stop the query that went on in
\* the background: the event it holds is not the registered one, whatever has been
\* registered since (concurrency.py 171-178).
BackgroundUnreachable ==
  \A t \in Threads : pc[t] = "run" /\ t \in lockReleased => ev[t] # registered

\* A message in the slot can be seen, and cancelled, on a card once the thread that queued
\* it is through (_query.py 712-714), also when it replaced another one there or a hand-over
\* came between the steps of the two threads.
QueuedIsVisible ==
  pending.msg # None /\ (\A t \in Threads : pc[t] \notin {"card", "tag"})
    => \E c \in DOMAIN cards : cards[c] = pending.msg

Owned == {msg[t] : t \in {u \in Threads : pc[u] \in Waiting}}
         \cup {softMsg[t].msg : t \in Threads} \cup {pending.msg}

\* A message that waits while a query is in the foreground gets out of the slot: the query
\* ends or passes its soft timeout, and either way takes what is queued with it.
QueueDrains ==
  (pending.msg # None /\ \E t \in Threads : Foreground(t)) ~> (pending.msg = None)


(* The chat as its user sees it                                            *)

StatusOf(m) ==
  IF m \in todo THEN "new"
  ELSE IF \E t \in Threads : pc[t] \in Running /\ msg[t] = m THEN "running"
  ELSE IF m \in executed THEN "done"
  ELSE IF m \in Owned THEN "waiting"
  ELSE "dropped"

Service == INSTANCE ChatService WITH status <- [m \in Messages |-> StatusOf(m)]

\* The lock, the slot and the hand-overs implement the service of ChatService.
ImplementsService == Service!Spec

=============================================================================
