------------------------------- MODULE PermGate -------------------------------
(***************************************************************************)
(* The approval of tool calls.  For every call the CLI starts a hook       *)
(* process (perm_hook.py), which connects to the socket of the bridge and  *)
(* waits; the bridge (perm.py) gives each connection a thread, which shows *)
(* a card with three buttons and waits too; a click arrives on the event   *)
(* thread (_card_action.py).  The two waits have the same length, but they *)
(* do not begin together.  All calls belong to one session namespace.      *)
(***************************************************************************)
EXTENDS Naturals, FiniteSets

CONSTANTS
  Calls,      \* tool calls
  Harmless,   \* the calls perm.py allows without asking
  MaxConns,   \* places in _conn_sem
  Wait,       \* the 300 seconds of both sides
  MaxClicks,  \* bound on the clicks of the user
  Hazards     \* what may go wrong: see HazardKinds

HazardKinds == {"card",    \* the card cannot be sent, or not patched
                "thread",  \* Thread.start raises
                "accept",  \* accept() raises, which ends the server
                "kill"}    \* the CLI is killed, and the hook with it

ASSUME PermAssumption ==
  /\ IsFiniteSet(Calls)
  /\ Harmless \subseteq Calls
  /\ MaxConns \in Nat \ {0} /\ Wait \in Nat \ {0} /\ MaxClicks \in Nat
  /\ Hazards \subseteq HazardKinds

VARIABLES
  hook,      \* where the hook process is; "allowed" and "denied" are its two exits
  env,       \* the calls whose CLI was started with FEISHU_PERM_YOLO=1
  conn,      \* where the connection and its thread are
  reply,     \* what is in the socket for the hook
  slots,     \* value of _conn_sem
  serving,   \* the accept loop runs
  pending,   \* keys of _perm_pending
  isSet,     \* the events in it that are set
  decision,  \* _perm_decision
  expired,   \* the threads whose wait() returned False
  verdict,   \* the decision the thread took out
  card,      \* what the card shows
  yolo,      \* _perm_yolo has the namespace, and it has not expired
  hookAge,   \* time since the hook sent its request, up to Wait
  waitAge,   \* time since the thread waits, up to Wait
  clicks,    \* how many clicks the user made
  lastClick  \* history: the last click that met its call still pending

serverVars == <<slots, serving>>
gateVars   == <<pending, isSet, decision, expired, verdict>>
userVars   == <<yolo, clicks, lastClick>>
ages       == <<hookAge, waitAge>>
vars == <<hook, env, conn, reply, serverVars, gateVars, card, userVars, ages>>

----------------------------------------------------------------------------
Buttons  == {"allow", "deny", "yolo"}
Consents == {"allow", "yolo"}
Handling == {"read", "card", "wait", "decide", "patch", "reply", "closing"}

TypeOK ==
  /\ hook \in [Calls -> {"new", "started", "asked", "allowed", "denied", "killed"}]
  /\ env \subseteq Calls
  /\ conn \in [Calls -> {"none", "backlog", "done"} \cup Handling]
  /\ reply \in [Calls -> {"none", "allow", "deny", "eof"}]
  /\ slots \in 0..MaxConns
  /\ serving \in {"up", "down"}
  /\ pending \subseteq Calls
  /\ isSet \subseteq pending
  /\ decision \in [Calls -> Buttons \cup {"none"}]
  /\ expired \subseteq Calls
  /\ verdict \in [Calls -> Buttons \cup {"none", "timeout"}]
  /\ card \in [Calls -> Buttons \cup {"none", "ask", "timeout"}]
  /\ yolo \in {"granted", "none"}
  /\ hookAge \in [Calls -> 0..Wait]
  /\ waitAge \in [Calls -> 0..Wait]
  /\ clicks \in Nat
  /\ lastClick \in [Calls -> Buttons \cup {"none"}]

Init ==
  /\ hook = [r \in Calls |-> "new"]
  /\ env = {}
  /\ conn = [r \in Calls |-> "none"]
  /\ reply = [r \in Calls |-> "none"]
  /\ slots = MaxConns
  /\ serving = "up"
  /\ pending = {}
  /\ isSet = {}
  /\ decision = [r \in Calls |-> "none"]
  /\ expired = {}
  /\ verdict = [r \in Calls |-> "none"]
  /\ card = [r \in Calls |-> "none"]
  /\ yolo = "none"
  /\ hookAge = [r \in Calls |-> 0]
  /\ waitAge = [r \in Calls |-> 0]
  /\ clicks = 0
  /\ lastClick = [r \in Calls |-> "none"]

----------------------------------------------------------------------------
HookTo(r, next) == hook' = [hook EXCEPT ![r] = next]
ConnTo(r, next) == conn' = [conn EXCEPT ![r] = next]

(* The CLI and its hook                                                    *)

StartCli(r) ==              \* build_env of the run that will make call r
  /\ hook[r] = "new"
  /\ HookTo(r, "started")
  /\ env' = IF yolo = "granted" THEN env \cup {r} ELSE env
  /\ UNCHANGED <<conn, reply, serverVars, gateVars, card, userVars, ages>>

HookPasses(r) ==
  /\ hook[r] = "started"
  /\ r \in env
  /\ HookTo(r, "allowed")
  /\ UNCHANGED <<env, conn, reply, serverVars, gateVars, card, userVars, ages>>

HookRefused(r) ==           \* nobody listens any more
  /\ hook[r] = "started"
  /\ r \notin env
  /\ serving = "down"
  /\ HookTo(r, "denied")
  /\ UNCHANGED <<env, conn, reply, serverVars, gateVars, card, userVars, ages>>

HookAsks(r) ==
  /\ hook[r] = "started"
  /\ r \notin env
  /\ serving = "up"
  /\ HookTo(r, "asked")
  /\ ConnTo(r, "backlog")
  /\ UNCHANGED <<env, reply, serverVars, gateVars, card, userVars, ages>>

HookReads(r) ==
  /\ hook[r] = "asked"
  /\ reply[r] # "none"
  /\ HookTo(r, IF reply[r] = "allow" THEN "allowed" ELSE "denied")
  /\ UNCHANGED <<env, conn, reply, serverVars, gateVars, card, userVars, ages>>

HookTimesOut(r) ==
  /\ hook[r] = "asked"
  /\ reply[r] = "none"
  /\ hookAge[r] = Wait
  /\ HookTo(r, "denied")
  /\ UNCHANGED <<env, conn, reply, serverVars, gateVars, card, userVars, ages>>

HookKilled(r) ==
  /\ "kill" \in Hazards
  /\ hook[r] \in {"started", "asked"}
  /\ HookTo(r, "killed")
  /\ UNCHANGED <<env, conn, reply, serverVars, gateVars, card, userVars, ages>>

----------------------------------------------------------------------------
(* _start_perm_server: the accept loop                                     *)

\* a place in _conn_sem, and a thread for it
Accept(r) ==
  /\ serving = "up"
  /\ conn[r] = "backlog"
  /\ slots > 0
  /\ slots' = slots - 1
  /\ ConnTo(r, "read")
  /\ UNCHANGED <<hook, env, reply, serving, gateVars, card, userVars, ages>>

\* The connection is closed at once: the hook reads the end of the stream.
Drop(r) ==
  /\ ConnTo(r, "done")
  /\ reply' = [reply EXCEPT ![r] = "eof"]
  /\ UNCHANGED <<hook, env, slots, gateVars, card, userVars, ages>>

AcceptFull(r) ==
  /\ serving = "up"
  /\ conn[r] = "backlog"
  /\ slots = 0
  /\ Drop(r)
  /\ UNCHANGED serving

AcceptNoThread(r) ==        \* the place is given back
  /\ "thread" \in Hazards
  /\ serving = "up"
  /\ conn[r] = "backlog"
  /\ slots > 0
  /\ Drop(r)
  /\ UNCHANGED serving

\* The loop ends and the listening socket is closed with it: what was not accepted is reset.
AcceptRaises ==
  /\ "accept" \in Hazards
  /\ serving = "up"
  /\ serving' = "down"
  /\ conn' = [r \in Calls |-> IF conn[r] = "backlog" THEN "done" ELSE conn[r]]
  /\ reply' = [r \in Calls |-> IF conn[r] = "backlog" THEN "eof" ELSE reply[r]]
  /\ UNCHANGED <<hook, env, slots, gateVars, card, userVars, ages>>

(* _handle_perm_conn                                                       *)

\* sendall: a hook that is gone gets nothing, and the exception is caught
Send(r, what) == reply' = IF hook[r] = "asked" THEN [reply EXCEPT ![r] = what] ELSE reply

ReadAllows(r) ==            \* the fast paths
  /\ conn[r] = "read"
  /\ yolo = "granted" \/ r \in Harmless
  /\ Send(r, "allow")
  /\ ConnTo(r, "closing")
  /\ UNCHANGED <<hook, env, serverVars, gateVars, card, userVars, ages>>

ReadRegisters(r) ==
  /\ conn[r] = "read"
  /\ yolo = "none" /\ r \notin Harmless
  /\ pending' = pending \cup {r}
  /\ ConnTo(r, "card")
  /\ UNCHANGED <<hook, env, reply, serverVars, isSet, decision, expired, verdict, card, userVars,
                 ages>>

SendCard(r) ==              \* the thread waits also when there is no card to click
  /\ conn[r] = "card"
  /\ \/ card' = [card EXCEPT ![r] = "ask"]
     \/ "card" \in Hazards /\ UNCHANGED card
  /\ ConnTo(r, "wait")
  /\ UNCHANGED <<hook, env, reply, serverVars, gateVars, userVars, ages>>

WaitReturns(r) ==
  /\ conn[r] = "wait"
  /\ r \in isSet
  /\ ConnTo(r, "decide")
  /\ UNCHANGED <<hook, env, reply, serverVars, gateVars, card, userVars, ages>>

\* mutant: no limit for a call whose card could not be sent
WaitExpiresWithCard(r) ==
  /\ conn[r] = "wait"
  /\ card[r] # "none"
  /\ waitAge[r] = Wait
  /\ expired' = expired \cup {r}
  /\ ConnTo(r, "decide")
  /\ UNCHANGED <<hook, env, reply, serverVars, pending, isSet, decision, verdict, card, userVars,
                 ages>>

WaitExpires(r) ==           \* also just as the event is set
  /\ conn[r] = "wait"
  /\ waitAge[r] = Wait
  /\ expired' = expired \cup {r}
  /\ ConnTo(r, "decide")
  /\ UNCHANGED <<hook, env, reply, serverVars, pending, isSet, decision, verdict, card, userVars,
                 ages>>

\* What the thread takes for the decision: a wait that ran out is a denial unless a click came
\* in before the lock was taken.
Verdict(r) ==
  IF decision[r] \in Consents THEN decision[r]
  ELSE IF r \in expired THEN "timeout" ELSE "deny"

Decide(r) ==
  /\ conn[r] = "decide"
  /\ verdict' = [verdict EXCEPT ![r] = Verdict(r)]
  /\ decision' = [decision EXCEPT ![r] = "none"]
  /\ pending' = pending \ {r}
  /\ isSet' = isSet \ {r}
  /\ ConnTo(r, "patch")
  /\ UNCHANGED <<hook, env, reply, serverVars, expired, card, userVars, ages>>

PatchCard(r) ==
  /\ conn[r] = "patch"
  /\ \/ card[r] # "none" /\ card' = [card EXCEPT ![r] = verdict[r]]
     \/ (card[r] = "none" \/ "card" \in Hazards) /\ UNCHANGED card
  /\ ConnTo(r, "reply")
  /\ UNCHANGED <<hook, env, reply, serverVars, gateVars, userVars, ages>>

\* mutant: only "allow" counts as an approval
ReplyAllowOnly(r) ==
  /\ conn[r] = "reply"
  /\ Send(r, IF verdict[r] = "allow" THEN "allow" ELSE "deny")
  /\ ConnTo(r, "closing")
  /\ UNCHANGED <<hook, env, serverVars, gateVars, card, userVars, ages>>

Reply(r) ==
  /\ conn[r] = "reply"
  /\ Send(r, IF verdict[r] \in Consents THEN "allow" ELSE "deny")
  /\ ConnTo(r, "closing")
  /\ UNCHANGED <<hook, env, serverVars, gateVars, card, userVars, ages>>

Close(r) ==
  /\ conn[r] = "closing"
  /\ ConnTo(r, "done")
  /\ slots' = slots + 1
  /\ UNCHANGED <<hook, env, reply, serving, gateVars, card, userVars, ages>>

----------------------------------------------------------------------------
(* The user and the time                                                   *)

\* mutant: the decision is stored whether or not the call is still pending
ClickUnchecked(r, button) ==
  /\ card[r] # "none"
  /\ clicks < MaxClicks
  /\ clicks' = clicks + 1
  /\ card' = [card EXCEPT ![r] = button]
  /\ decision' = [decision EXCEPT ![r] = button]
  /\ IF r \in pending
     THEN /\ isSet' = isSet \cup {r}
          /\ lastClick' = [lastClick EXCEPT ![r] = button]
          /\ yolo' = IF button = "yolo" THEN "granted" ELSE yolo
     ELSE UNCHANGED <<isSet, lastClick, yolo>>
  /\ UNCHANGED <<hook, env, conn, reply, serverVars, pending, expired, verdict, ages>>

\* mutant: the first click is kept
ClickFirst(r, button) ==
  /\ card[r] # "none"
  /\ clicks < MaxClicks
  /\ clicks' = clicks + 1
  /\ card' = [card EXCEPT ![r] = button]
  /\ IF r \in pending
     THEN /\ decision' = IF decision[r] = "none" THEN [decision EXCEPT ![r] = button] ELSE decision
          /\ isSet' = isSet \cup {r}
          /\ lastClick' = [lastClick EXCEPT ![r] = button]
          /\ yolo' = IF button = "yolo" THEN "granted" ELSE yolo
     ELSE UNCHANGED <<decision, isSet, lastClick, yolo>>
  /\ UNCHANGED <<hook, env, conn, reply, serverVars, pending, expired, verdict, ages>>

\* A click on a card as some client still shows it; the callback changes the card also when the
\* call is no longer pending.
Click(r, button) ==
  /\ card[r] # "none"
  /\ clicks < MaxClicks
  /\ clicks' = clicks + 1
  /\ card' = [card EXCEPT ![r] = button]
  /\ IF r \in pending
     THEN /\ decision' = [decision EXCEPT ![r] = button]
          /\ isSet' = isSet \cup {r}
          /\ lastClick' = [lastClick EXCEPT ![r] = button]
          /\ yolo' = IF button = "yolo" THEN "granted" ELSE yolo
     ELSE UNCHANGED <<decision, isSet, lastClick, yolo>>
  /\ UNCHANGED <<hook, env, conn, reply, serverVars, pending, expired, verdict, ages>>

Revoke ==                   \* /reset perm, or three hours
  /\ yolo = "granted"
  /\ yolo' = "none"
  /\ UNCHANGED <<hook, env, conn, reply, serverVars, gateVars, card, clicks, lastClick, ages>>

Older(age, r, running) == IF running /\ age[r] < Wait THEN [age EXCEPT ![r] = @ + 1] ELSE age

Tick(r) ==
  /\ hookAge' = Older(hookAge, r, hook[r] = "asked")
  /\ waitAge' = Older(waitAge, r, conn[r] = "wait")
  /\ UNCHANGED <<hook, env, conn, reply, serverVars, gateVars, card, userVars>>

----------------------------------------------------------------------------
HookStep(r) == HookPasses(r) \/ HookRefused(r) \/ HookAsks(r) \/ HookReads(r) \/ HookTimesOut(r)

AcceptStep(r) == Accept(r) \/ AcceptFull(r) \/ AcceptNoThread(r)

HandlerStep(r) ==
  \/ ReadAllows(r) \/ ReadRegisters(r) \/ SendCard(r) \/ WaitReturns(r) \/ WaitExpires(r)
  \/ Decide(r) \/ PatchCard(r) \/ Reply(r) \/ Close(r)

Next ==
  \/ \E r \in Calls : HookStep(r) \/ AcceptStep(r) \/ HandlerStep(r)
  \/ \E r \in Calls : StartCli(r) \/ HookKilled(r) \/ Tick(r)
  \/ \E r \in Calls, button \in Buttons : Click(r, button)
  \/ AcceptRaises
  \/ Revoke

Spec == Init /\ [][Next]_vars

\* Processes and threads are scheduled and time passes; the user need not click.
Fairness ==
  \A r \in Calls :
    WF_vars(HookStep(r)) /\ WF_vars(AcceptStep(r)) /\ WF_vars(HandlerStep(r)) /\ WF_vars(Tick(r))

FairSpec == Spec /\ Fairness

----------------------------------------------------------------------------
(* Properties                                                              *)

\* A call the user was asked about got through only by the user's last word on it: no timeout,
\* lost card, second click or race of a click with the end of the wait turns into an approval
\* (perm.py 237-274, perm_hook.py 52-68).
OnlyByConsent ==
  \A r \in Calls :
    hook[r] = "allowed" /\ verdict[r] # "none" => lastClick[r] \in Consents

\* A click that comes too late, or beside the thread that takes the decision out, leaves nothing
\* behind in the tables, which are never swept (perm.py 252-257, _card_action.py 41-48).
NoResidue ==
  \A r \in Calls :
    conn[r] \notin {"card", "wait", "decide"} => r \notin pending /\ decision[r] = "none"

\* The places of _conn_sem are exactly the threads at work, through refused connections and
\* failed thread starts (perm.py 306-328).
ConnBound ==
  slots + Cardinality({r \in Calls : conn[r] \in Handling}) = MaxConns

\* What the user approved in time is carried out: the hook denies a call the bridge allowed only
\* if its own five minutes, which begin earlier, were over (perm_hook.py 51-52, perm.py 250).
ApprovalArrives ==
  \A r \in Calls : hook[r] = "denied" /\ verdict[r] \in Consents => hookAge[r] = Wait

\* No thread keeps its place for ever, although the user never clicks, the card was never
\* shown, or the hook that asked is gone.
PlacesComeBack ==
  \A r \in Calls : conn[r] = "read" ~> conn[r] = "done"

=============================================================================
