------------------------------ MODULE QueryCard ------------------------------
(***************************************************************************)
(* The card of one query (_query.py, _query_card_state.py).  The runner's  *)
(* callbacks change what is to be shown; a heartbeat thread renders it and *)
(* patches the card; when the call has ended, the query thread stops the   *)
(* heartbeat and writes the last card.  Patches are remote calls: they may *)
(* fail, or succeed and be reported as failed.  The user may click cancel  *)
(* on what some client still shows.                                        *)
(***************************************************************************)
EXTENDS Naturals

CONSTANTS
  Tools,      \* invocations of tools
  Workflows,  \* those of the tool "Workflow", which goes on after its result
  MaxText,    \* bound on the texts the runner streams
  MaxClicks,  \* bound on the clicks of the user
  Hazards     \* what may go wrong with a remote call: see HazardKinds

HazardKinds == {"fail",   \* it does nothing and fails
                "lost"}   \* it is carried out and reported as failed

ASSUME QueryCardAssumption ==
  /\ Workflows \subseteq Tools
  /\ MaxText \in Nat /\ MaxClicks \in Nat
  /\ Hazards \subseteq HazardKinds

VARIABLES
  main,       \* where the query thread is
  ending,     \* how the call ended
  flags,      \* "stop" (_stop_hb), "cancel" (cancel_ev), "dirty", "background", "replaced" when
              \* the chat has another cancel event, and "due" when CARD_PUSH_INTERVAL has passed
              \* since _last_heartbeat
  currentText, \* _current_text: the number of its last change
  active,     \* active_tools
  listed,     \* completed_tools: how often it lists each tool
  started,    \* history: the tools the runner reported
  hb,         \* where the heartbeat thread is
  frame,      \* what it rendered
  lock,       \* holder of card_patch_lock
  card,       \* what the card shows
  reached,    \* history: the calls of the end that were carried out, of "patch", "card", "text"
  missed,     \* history: those that were reported as failed
  clicks      \* how many clicks the user made

stateVars == <<currentText, active, listed, started>>
hbVars    == <<hb, frame, lock>>
mainVars  == <<main, ending, reached, missed>>
cardVars == <<mainVars, flags, stateVars, hbVars, card, clicks>>

----------------------------------------------------------------------------
Flags   == {"stop", "cancel", "dirty", "background", "replaced", "due"}
\* "refused": the backend that the chat is locked to is not available
Endings == {"answer", "cancelled", "failed", "refused"}
Calls   == {"patch", "card", "text"}
Frames  == [text : 0..MaxText, mode : {"foreground", "background"}, button : {"cancel", "none"}]
\* a card that shows no progress: "none" if it could not even be sent
Notice(what) == [text |-> 0, mode |-> what, button |-> "none"]
Notices == {Notice(what) : what \in Endings \cup {"none", "cancelling"}}
Initial == [text |-> 0, mode |-> "foreground", button |-> "cancel"]

\* Types; card_patch_lock is held exactly while a patch of the heartbeat is in flight, also when
\* the patch fails.
CardTypeOK ==
  /\ main \in {"running", "stopping", "done"} \cup Calls
  /\ ending \in Endings \cup {"none"}
  /\ flags \in SUBSET Flags
  /\ currentText \in 0..MaxText
  /\ active \in SUBSET Tools
  /\ listed \in [Tools -> Nat]
  /\ started \in SUBSET Tools
  /\ hb \in {"sleep", "render", "lock", "flight", "mark", "gone"}
  /\ frame \in Frames
  /\ lock \in {"free", "heartbeat"}
  /\ card \in Frames \cup Notices
  /\ reached \in SUBSET Calls /\ missed \in SUBSET Calls
  /\ clicks \in 0..MaxClicks
  /\ lock = "heartbeat" <=> hb = "flight"

CardInit ==
  /\ main = "running"
  /\ ending = "none"
  /\ flags = {}
  /\ currentText = 0
  /\ active = {}
  /\ listed = [t \in Tools |-> 0]
  /\ started = {}
  /\ hb = "sleep"
  /\ frame = Initial
  /\ lock = "free"
  /\ card \in IF "fail" \in Hazards THEN {Initial, Notice("none")} ELSE {Initial}
  /\ reached = {} /\ missed = {}
  /\ clicks = 0

----------------------------------------------------------------------------
(* The callbacks of the runner                                             *)

OnText ==
  /\ main = "running"
  /\ currentText < MaxText
  /\ currentText' = currentText + 1
  /\ flags' = flags \cup {"dirty"}
  /\ UNCHANGED <<mainVars, active, listed, started, hbVars, card, clicks>>

\* What completed_tools lists after the tools of a set were appended to it.
Listing(S) == [t \in Tools |-> IF t \in S THEN listed[t] + 1 ELSE listed[t]]

\* mutant: the tools that are listed as completed stay active.
OnToolKeeps(t) ==
  /\ main = "running"
  /\ t \notin started
  /\ started' = started \cup {t}
  /\ listed' = Listing(active \ Workflows)
  /\ active' = active \cup {t}
  /\ flags' = flags \cup {"dirty"}
  /\ UNCHANGED <<mainVars, currentText, hbVars, card, clicks>>

\* A new tool completes those that are active, but for the workflows.
OnTool(t) ==
  /\ main = "running"
  /\ t \notin started
  /\ started' = started \cup {t}
  /\ listed' = Listing(active \ Workflows)
  /\ active' = (active \cap Workflows) \cup {t}
  /\ flags' = flags \cup {"dirty"}
  /\ UNCHANGED <<mainVars, currentText, hbVars, card, clicks>>

\* Late results of tools that a new one completed change nothing, and the success of a workflow
\* only says that it has begun.
OnToolResult(t, result) ==
  /\ main = "running"
  /\ t \in started
  /\ \/ /\ t \in active /\ ~(t \in Workflows /\ result = "success")
        /\ listed' = Listing({t})
        /\ active' = active \ {t}
     \/ /\ t \notin active \/ (t \in Workflows /\ result = "success")
        /\ UNCHANGED <<active, listed>>
  /\ flags' = flags \cup {"dirty"}
  /\ UNCHANGED <<mainVars, currentText, started, hbVars, card, clicks>>

\* _on_soft_timeout, called by the watcher, changes what is shown first.
SoftTimeout ==
  /\ main = "running"
  /\ "background" \notin flags
  /\ flags' = flags \cup {"background", "dirty"}
  /\ UNCHANGED <<mainVars, stateVars, hbVars, card, clicks>>

\* From its _replace_cancel_event on the clicks are for the next query; this one may be over.
SoftReplaces ==
  /\ "background" \in flags /\ "replaced" \notin flags
  /\ flags' = flags \cup {"replaced"}
  /\ UNCHANGED <<mainVars, stateVars, hbVars, card, clicks>>

----------------------------------------------------------------------------
(* _heartbeat_loop and _push_if_needed                                     *)

IntervalPasses ==
  /\ {"due", "stop"} \cap flags = {}
  /\ flags' = flags \cup {"due"}
  /\ UNCHANGED <<mainVars, stateVars, hbVars, card, clicks>>

Button == IF "background" \in flags THEN "none" ELSE "cancel"

\* mutant: without the forced push.
HbWakeDirty ==
  /\ hb = "sleep"
  /\ "stop" \notin flags
  /\ "dirty" \in flags
  /\ hb' = "render"
  /\ frame' = [frame EXCEPT !.button = Button]
  /\ UNCHANGED <<mainVars, flags, stateVars, lock, card, clicks>>

\* The snapshot of the flags decides whether to push, and about the button.  (update_heartbeat
\* ends a forced push; what the interval counts from shows at the next wake only.)
HbWake ==
  /\ hb = "sleep"
  /\ "stop" \notin flags
  /\ {"due", "dirty"} \cap flags # {}
  /\ hb' = "render"
  /\ flags' = flags \ {"due"}
  /\ frame' = [frame EXCEPT !.button = Button]
  /\ UNCHANGED <<mainVars, stateVars, lock, card, clicks>>

Stopped == {"stop", "cancel"} \cap flags # {}

HbSkips ==
  /\ hb \in {"render", "lock"}
  /\ hb = "lock" => lock = "free"
  /\ Stopped
  /\ hb' = "sleep"
  /\ frame' = Initial
  /\ UNCHANGED <<mainVars, flags, stateVars, lock, card, clicks>>

\* render_body: what is shown, of which the text stands for all, and the mode.  should_push always
\* says yes: the push is forced, or dirty is still set, since only the heartbeat clears it.
HbRender ==
  /\ hb = "render"
  /\ ~Stopped
  /\ hb' = "lock"
  /\ frame' = [frame EXCEPT !.text = currentText,
                            !.mode = IF "background" \in flags THEN "background"
                                     ELSE "foreground"]
  /\ UNCHANGED <<mainVars, flags, stateVars, lock, card, clicks>>

\* mutant: the flags are not looked at again inside the lock.
HbLockOnly ==
  /\ hb = "lock"
  /\ lock = "free"
  /\ hb' = "flight" /\ lock' = "heartbeat"
  /\ UNCHANGED <<mainVars, flags, stateVars, frame, card, clicks>>

HbLock ==
  /\ hb = "lock"
  /\ lock = "free"
  /\ ~Stopped
  /\ hb' = "flight" /\ lock' = "heartbeat"
  /\ UNCHANGED <<mainVars, flags, stateVars, frame, card, clicks>>

\* _patch_card_raw returns; its result is not looked at.
HbPatched ==
  /\ hb = "flight"
  /\ card # Notice("none")
  /\ card' = frame
  /\ hb' = "mark" /\ lock' = "free"
  /\ UNCHANGED <<mainVars, flags, stateVars, frame, clicks>>

HbPatchFails ==
  /\ hb = "flight"
  /\ card = Notice("none") \/ "fail" \in Hazards
  /\ hb' = "mark" /\ lock' = "free"
  /\ UNCHANGED <<mainVars, flags, stateVars, frame, card, clicks>>

HbMark ==                   \* mark_pushed
  /\ hb = "mark"
  /\ flags' = flags \ {"dirty"}
  /\ hb' = "sleep"
  /\ frame' = Initial
  /\ UNCHANGED <<mainVars, stateVars, lock, card, clicks>>

HbEnd ==
  /\ hb = "sleep"
  /\ "stop" \in flags
  /\ hb' = "gone"
  /\ UNCHANGED <<mainVars, flags, stateVars, frame, lock, card, clicks>>

----------------------------------------------------------------------------
(* The end of the call, in the query thread, and the user                  *)

\* The call returns or raises, or the query is refused before it; _stop_hb is set.
Stop(how) ==
  /\ main = "running"
  /\ how = "cancelled" => "cancel" \in flags
  /\ how = "refused" => started = {} /\ currentText = 0 /\ "background" \notin flags
  /\ main' = "stopping"
  /\ ending' = how
  /\ flags' = flags \cup {"stop"}
  /\ UNCHANGED <<reached, missed, stateVars, hbVars, card, clicks>>

\* What the last card lists; only that of an answer lists the tools.
Flush ==
  /\ listed' = IF ending = "answer" THEN Listing(active) ELSE listed
  /\ active' = IF ending = "answer" THEN {} ELSE active

\* card_patch_lock is taken and released: no patch of the heartbeat is in flight.  A refusal is
\* told in a card of its own, and the card of the query stays as it is.
Drain ==
  /\ main = "stopping"
  /\ lock = "free"
  /\ main' = IF ending = "refused" THEN "card" ELSE "patch"
  /\ Flush
  /\ UNCHANGED <<ending, reached, missed, flags, currentText, started, hbVars, card, clicks>>

\* mutant: the result of a call is not looked at.
AfterAny(call) == "done"

\* What is tried when a call failed: instead of the last patch a card of its own, but not for a
\* cancelled query; instead of that card a text, but not for an error (reply_card).
AfterFailed(call) ==
  IF call = "patch" /\ ending # "cancelled" THEN "card"
  ELSE IF call = "card" /\ ending \in {"answer", "refused"} THEN "text"
  ELSE "done"

CallWorks(call) ==
  /\ reached' = reached \cup {call}
  /\ \/ main' = "done" /\ UNCHANGED missed
     \/ "lost" \in Hazards /\ main' = AfterFailed(call) /\ missed' = missed \cup {call}

CallFails(call) ==
  /\ main' = AfterFailed(call) /\ missed' = missed \cup {call}
  /\ UNCHANGED reached

LastPatch ==
  /\ main = "patch"
  /\ card # Notice("none")
  /\ card' = Notice(ending)
  /\ CallWorks("patch")
  /\ UNCHANGED <<ending, flags, stateVars, hbVars, clicks>>

LastPatchFails ==
  /\ main = "patch"
  /\ card = Notice("none") \/ "fail" \in Hazards
  /\ CallFails("patch")
  /\ UNCHANGED <<ending, flags, stateVars, hbVars, card, clicks>>

\* _send_card_raw, which falls back to _send_text_raw; nobody is told when both fail.
SendInstead(call) ==
  /\ main = call
  /\ CallWorks(call) \/ ("fail" \in Hazards /\ CallFails(call))
  /\ UNCHANGED <<ending, flags, stateVars, hbVars, card, clicks>>

\* The cancel button of a card that some client still shows; the handler does not ask whether
\* the query still runs.
Click ==
  /\ clicks < MaxClicks
  /\ card # Notice("none")
  /\ clicks' = clicks + 1
  /\ card' = Notice("cancelling")
  /\ flags' = IF "replaced" \in flags THEN flags ELSE flags \cup {"cancel"}
  /\ UNCHANGED <<mainVars, stateVars, hbVars>>

\* /cancel: the event without the card.
CancelCommand ==
  /\ main = "running"
  /\ {"replaced", "cancel"} \cap flags = {}
  /\ flags' = flags \cup {"cancel"}
  /\ UNCHANGED <<mainVars, stateVars, hbVars, card, clicks>>

----------------------------------------------------------------------------
Callbacks ==
  \/ OnText \/ SoftTimeout \/ SoftReplaces
  \/ \E t \in Tools : OnTool(t) \/ \E result \in {"success", "error"} : OnToolResult(t, result)

HbStep == HbWake \/ HbRender \/ HbSkips \/ HbLock \/ HbMark \/ HbEnd

LastCard ==
  \/ Drain \/ LastPatch \/ LastPatchFails
  \/ \E call \in {"card", "text"} : SendInstead(call)

Ending == \E how \in Endings : Stop(how)

CardNext ==
  \/ Callbacks \/ IntervalPasses \/ HbStep \/ HbPatched \/ HbPatchFails
  \/ Ending \/ LastCard \/ Click \/ CancelCommand

\* Threads are scheduled, remote calls return, time passes, and a call that is repeated every
\* interval does not fail for ever.  How long the runner takes is not said here.
CardFairness ==
  /\ WF_cardVars(IntervalPasses)
  /\ WF_cardVars(HbStep)
  /\ WF_cardVars(HbPatched \/ HbPatchFails) /\ SF_cardVars(HbPatched)
  /\ WF_cardVars(LastCard)

CardSpec == CardInit /\ [][CardNext]_cardVars /\ CardFairness

----------------------------------------------------------------------------
(* Properties                                                              *)

\* The last card is final: once the query thread has drained the lock, no frame that the
\* heartbeat rendered before covers it; only a click can (the comment on the lock, _query.py).
Drained == main \in Calls \cup {"done"}

FinalStays == [][Drained => (card' \in {card, Notice(ending), Notice("cancelling")})]_cardVars

\* Every tool the runner reported is shown in exactly one way, running or completed, however
\* results, new tools and the end of the call follow each other; an answer lists all of them.
ToolsOnce ==
  /\ \A t \in Tools :
       listed[t] = IF t \in started \ active THEN 1 ELSE 0
  /\ active \subseteq started
  /\ (ending = "answer" /\ main \notin {"running", "stopping"}) => active = {}

Over == main # "running" \/ "cancel" \in flags \/ card = Notice("none")

\* What the runner says last is shown in the end, with the mode of the query and without a cancel
\* button that works no more, although a change between the rendering and mark_pushed loses its
\* mark and the result of a patch is not looked at.
CardFollows ==
  /\ \A n \in 1..MaxText : currentText = n ~> (Over \/ card.text >= n)
  /\ "background" \in flags ~>
       (Over \/ (card.mode = "background" /\ card.button = "none"))

\* What may be tried to tell the user of an ending.
Tried(how) ==
  UNION {IF how = "refused" THEN {} ELSE {"patch"},
         IF how = "cancelled" THEN {} ELSE {"card"},
         IF how \in {"answer", "refused"} THEN {"text"} ELSE {}}

\* How the query ended is on its card, where only a click may cover it, or was sent; or everything
\* that there is to try has failed: for an answer the last patch, the card and the text.
Told ==
  \/ "patch" \in reached /\ card \in {Notice(ending), Notice("cancelling")}
  \/ reached \cap {"card", "text"} # {}
  \/ missed = Tried(ending)

\* When a query has ended the heartbeat goes away, and the user is told, unless every call to tell him
\* failed (the last card of _do_query and its fallbacks).
UserIsTold == main = "stopping" ~> (main = "done" /\ hb = "gone" /\ Told)

=============================================================================
