------------------------------- MODULE ApiCalls -------------------------------
(***************************************************************************)
(* The backends that are called over HTTP, and the history of the          *)
(* conversation that is kept for them: _run_streaming_api with the file of *)
(* api_session.py, which a call loads first and replaces last ("whole"),   *)
(* and DeepSeekRunner, which takes a place of the pool, has a watcher, and *)
(* appends to the history it loads again after the answer ("append").      *)
(* One chat.  Its queries follow one another, but for those that have      *)
(* passed a soft timeout; a /btw to DeepSeek joins in at any time; /reset  *)
(* waits for nobody.                                                       *)
(***************************************************************************)
EXTENDS Naturals, Sequences, FiniteSets

CONSTANTS
  Queries,    \* the calls
  Asides,     \* those of /btw
  MaxProcs,   \* places of the pool
  MaxTries,   \* one more than the waits in _REQUEST_BACKOFF
  Room,       \* how many messages each history has room for (_MAX_HISTORY_TOKENS, _HISTORY_TURN_CAP)
  MaxResets,  \* bound on /reset
  ApiHazards     \* what may go wrong: see ApiHazardKinds

Modes == {"whole", "append"}

ApiHazardKinds == {"busy",   \* no connection, or 429 or 503
                "error",  \* the server refuses, or the stream breaks
                "stall",  \* the server sends nothing any more and keeps the connection
                "silent", \* the server is silent for as long as a timeout
                "disk",   \* a history cannot be written or removed
                "unread"} \* a history cannot be read

ASSUME ApiCallsAssumption ==
  /\ IsFiniteSet(Queries) /\ Asides \subseteq Queries
  /\ MaxProcs \in Nat \ {0} /\ MaxTries \in Nat \ {0} /\ MaxResets \in Nat
  /\ Room \in [Modes -> Nat \ {0, 1}]
  /\ ApiHazards \subseteq ApiHazardKinds

VARIABLES
  pc,         \* where each call is
  mode,       \* what it calls
  base,       \* the history it has loaded last
  text,       \* the calls that have got some text
  tries,      \* its attempts
  cancel,     \* those whose cancel_ev is set
  flag,       \* _cancelled_flag of a DeepSeekRunner
  background, \* those that have passed a soft timeout
  stalled,    \* those that wait for a server that sends nothing any more
  slots,      \* value of the semaphore
  hist,       \* the histories on disk
  resets,
  said,       \* history: what was asked and answered since the last /reset
  raced,      \* history: the calls whose history was written after they loaded it, or not read
  torn        \* history: the modes whose history such a call has replaced since it was cleared last,
              \* or that could not be written or cleared

callVars == <<pc, mode, base, text, tries>>
flagVars == <<cancel, flag, background, stalled>>
diskVars == <<hist, said, raced, torn>>
apiVars == <<callVars, flagVars, slots, resets, diskVars>>

----------------------------------------------------------------------------
Turn(q) == <<<<q, "user">>, <<q, "assistant">>>>
MessagesOf == Queries \X {"user", "assistant"}

Holding == {"build", "post", "stream", "check", "reload", "write"}
Holders == {q \in Queries : mode[q] = "append" /\ pc[q] \in Holding}

\* Types; and a DeepSeek call has its place until it ends, and gives it back once.
ApiTypeOK ==
  /\ pc \in [Queries -> {"new", "load", "waiting", "done"} \cup Holding]
  /\ mode \in [Queries -> Modes]
  /\ base \in [Queries -> Seq(MessagesOf)]
  /\ text \in SUBSET Queries
  /\ tries \in [Queries -> 0..MaxTries]
  /\ cancel \in SUBSET Queries /\ flag \in SUBSET Queries
  /\ background \in SUBSET Queries /\ stalled \in SUBSET Queries
  /\ slots + Cardinality(Holders) = MaxProcs
  /\ resets \in 0..MaxResets
  /\ hist \in [Modes -> Seq(MessagesOf)] /\ said \in [Modes -> Seq(MessagesOf)]
  /\ raced \in SUBSET Queries /\ torn \in SUBSET Modes

ApiInit ==
  /\ pc = [q \in Queries |-> "new"] /\ mode = [q \in Queries |-> "whole"]
  /\ base = [q \in Queries |-> <<>>] /\ text = {} /\ tries = [q \in Queries |-> 0]
  /\ cancel = {} /\ flag = {} /\ background = {} /\ stalled = {}
  /\ slots = MaxProcs
  /\ resets = 0
  /\ hist = [k \in Modes |-> <<>>] /\ said = [k \in Modes |-> <<>>]
  /\ raced = {} /\ torn = {}

----------------------------------------------------------------------------
Goto(q, next) == pc' = [pc EXCEPT ![q] = next]

\* mutant: a place is given back also by a call that still waited for one.
EndsReleasing(q) ==
  /\ Goto(q, "done")
  /\ base' = [base EXCEPT ![q] = <<>>]
  /\ tries' = [tries EXCEPT ![q] = 0]
  /\ text' = text \ {q}
  /\ cancel' = cancel \ {q} /\ flag' = flag \ {q}
  /\ background' = background \ {q} /\ stalled' = stalled \ {q}
  /\ slots' = IF mode[q] = "append" THEN slots + 1 ELSE slots
  /\ UNCHANGED mode

\* run() or _run_streaming_api returns or raises, and its place is given back.
Ends(q) ==
  /\ Goto(q, "done")
  /\ base' = [base EXCEPT ![q] = <<>>]
  /\ tries' = [tries EXCEPT ![q] = 0]
  /\ text' = text \ {q}
  /\ cancel' = cancel \ {q} /\ flag' = flag \ {q}
  /\ background' = background \ {q} /\ stalled' = stalled \ {q}
  /\ slots' = IF q \in Holders THEN slots + 1 ELSE slots
  /\ UNCHANGED mode

Active(q) == pc[q] \notin {"new", "done"}

\* A query has the chat to itself until it passes a soft timeout, a /btw the lock of the /btws.
Begin(q, k) ==
  /\ pc[q] = "new"
  /\ q \notin Asides => \A p \in Queries \ Asides : Active(p) => p \in background
  /\ q \in Asides => k = "append" /\ \A p \in Asides : ~Active(p)
  /\ Goto(q, IF k = "whole" THEN "load" ELSE "waiting")
  /\ mode' = [mode EXCEPT ![q] = k]
  /\ UNCHANGED <<base, text, tries, flagVars, slots, resets, diskVars>>

\* load_history, _load_history: what cannot be read is taken for an empty history.
LoadHistory(q) ==
  \/ /\ base' = [base EXCEPT ![q] = hist[mode[q]]]
     /\ raced' = raced \ {q}
  \/ /\ "unread" \in ApiHazards /\ hist[mode[q]] # <<>>
     /\ base' = [base EXCEPT ![q] = <<>>]
     /\ raced' = raced \cup {q}

Load(q) ==
  /\ pc[q] = "load"
  /\ Goto(q, "stream")
  /\ LoadHistory(q)
  /\ UNCHANGED <<mode, text, tries, flagVars, slots, resets, hist, said, torn>>

(* DeepSeekRunner.run and _stream_chat *)

Acquire(q) ==
  /\ pc[q] = "waiting"
  /\ slots > 0
  /\ slots' = slots - 1
  /\ Goto(q, "build")
  /\ UNCHANGED <<mode, base, text, tries, flagVars, resets, diskVars>>

WaitCancelled(q) ==         \* looked at every second
  /\ pc[q] = "waiting"
  /\ slots = 0
  /\ q \in cancel
  /\ Ends(q)
  /\ UNCHANGED <<resets, diskVars>>

Build(q) ==                 \* _build_messages; the watcher runs
  /\ pc[q] = "build"
  /\ Goto(q, "post")
  /\ LoadHistory(q)
  /\ UNCHANGED <<mode, text, tries, flagVars, slots, resets, hist, said, torn>>

PostFlagged(q) ==           \* before an attempt, or in the wait before it
  /\ pc[q] = "post"
  /\ q \in flag /\ q \notin stalled
  /\ Goto(q, "check")
  /\ UNCHANGED <<mode, base, text, tries, flagVars, slots, resets, diskVars>>

PostAccepted(q) ==
  /\ pc[q] = "post"
  /\ q \notin stalled
  /\ Goto(q, "stream")
  /\ tries' = [tries EXCEPT ![q] = 0]
  /\ UNCHANGED <<mode, base, text, flagVars, slots, resets, diskVars>>

\* mutant: without a last attempt.
PostBusyForEver(q) ==
  /\ pc[q] = "post"
  /\ "busy" \in ApiHazards /\ q \notin stalled
  /\ tries' = [tries EXCEPT ![q] = (@ + 1) % MaxTries]
  /\ UNCHANGED <<pc, mode, base, text, flagVars, slots, resets, diskVars>>

PostBusy(q) ==
  /\ pc[q] = "post"
  /\ "busy" \in ApiHazards /\ q \notin stalled
  /\ \/ /\ tries[q] + 1 < MaxTries
        /\ tries' = [tries EXCEPT ![q] = @ + 1]
        /\ UNCHANGED <<pc, mode, base, text, flagVars, slots>>
     \/ tries[q] + 1 >= MaxTries /\ Ends(q)
  /\ UNCHANGED <<resets, diskVars>>

----------------------------------------------------------------------------
(* The answer: _consume_sse, and the loop of _run_streaming_api            *)

\* What a line, or a chunk, is given up for.
GivenUp(q) == q \in cancel \cup flag

Line(q) ==
  /\ pc[q] = "stream"
  /\ q \notin stalled
  /\ \/ /\ ~GivenUp(q)
        /\ text' = IF mode[q] = "append" THEN text \cup {q} ELSE text
        /\ UNCHANGED <<pc, flag>>
     \/ /\ GivenUp(q)
        /\ Goto(q, "check")
        /\ flag' = IF mode[q] = "append" THEN flag \cup {q} ELSE flag
        /\ UNCHANGED text
  /\ UNCHANGED <<mode, base, tries, cancel, background, stalled, slots, resets, diskVars>>

StreamEnds(q) ==
  /\ pc[q] = "stream"
  /\ q \notin stalled
  /\ Goto(q, "check")
  /\ UNCHANGED <<mode, base, text, tries, flagVars, slots, resets, diskVars>>

Fails(q) ==                 \* the exception goes through: the next backend is tried
  /\ pc[q] \in {"post", "stream"}
  /\ "error" \in ApiHazards /\ q \notin stalled
  /\ Ends(q)
  /\ UNCHANGED <<resets, diskVars>>

Stalls(q) ==                \* DeepSeek only: there is no timeout for reading
  /\ q \in Holders
  /\ pc[q] \in {"post", "stream"}
  /\ "stall" \in ApiHazards
  /\ stalled' = stalled \cup {q}
  /\ UNCHANGED <<callVars, cancel, flag, background, slots, resets, diskVars>>

Refused(q) == IF mode[q] = "append" THEN q \in flag ELSE q \in cancel

CheckCancelled(q) ==
  /\ pc[q] = "check"
  /\ Refused(q)
  /\ Ends(q)
  /\ UNCHANGED <<resets, diskVars>>

\* Only DeepSeek leaves an answer without text out of the history.
CheckEmpty(q) ==
  /\ pc[q] = "check"
  /\ ~Refused(q)
  /\ mode[q] = "append" /\ q \notin text
  /\ Ends(q)
  /\ UNCHANGED <<resets, diskVars>>

\* (Nobody looks at the cancellation any more.)
CheckAnswered(q) ==
  /\ pc[q] = "check"
  /\ ~Refused(q)
  /\ \/ mode[q] = "whole" /\ Goto(q, "write")
     \/ mode[q] = "append" /\ q \in text /\ Goto(q, "reload")
  /\ text' = text \ {q}
  /\ cancel' = cancel \ {q}
  /\ UNCHANGED <<mode, base, tries, flag, background, stalled, slots, resets, diskVars>>

\* mutant: the history that was sent is the one that is extended.
ReloadNot(q) ==
  /\ pc[q] = "reload"
  /\ Goto(q, "write")
  /\ raced' = raced \ {q}
  /\ UNCHANGED <<mode, base, text, tries, flagVars, slots, resets, hist, said, torn>>

Reload(q) ==
  /\ pc[q] = "reload"
  /\ Goto(q, "write")
  /\ LoadHistory(q)
  /\ UNCHANGED <<mode, text, tries, flagVars, slots, resets, hist, said, torn>>

\* mutant: the oldest messages are kept.
TrimNewest(s, n) == SubSeq(s, 1, IF Len(s) <= n THEN Len(s) ELSE n)

\* truncate_history, and the cut of _save_history: the last messages are kept, whether or not the
\* first of them is a question.
Trim(s, n) == SubSeq(s, IF Len(s) <= n THEN 1 ELSE Len(s) - n + 1, Len(s))

\* The calls that have loaded the history that they will replace.
InWindow(k) ==
  {q \in Queries : mode[q] = k /\ pc[q] \in IF k = "whole" THEN {"stream", "check", "write"}
                                             ELSE {"write"}}

\* save_history, _save_history: a failure is not reported.
Write(q) ==
  LET k == mode[q] IN
  /\ pc[q] = "write"
  /\ \/ /\ hist' = [hist EXCEPT ![k] = Trim(base[q] \o Turn(q), Room[k])]
        /\ torn' = IF q \in raced THEN torn \cup {k} ELSE torn
     \/ "disk" \in ApiHazards /\ torn' = torn \cup {k} /\ UNCHANGED hist
  /\ said' = [said EXCEPT ![k] = @ \o Turn(q)]
  /\ raced' = (raced \cup InWindow(k)) \ {q}
  /\ Ends(q)
  /\ UNCHANGED resets

----------------------------------------------------------------------------
(* The watcher of DeepSeekRunner, and the user                             *)

Watched(q) == q \in Holders \ flag

\* The flag and the event are looked at until then.
Undecided(q) == pc[q] \notin {"reload", "write"}

WatchCancel(q) ==
  /\ Watched(q)
  /\ q \in cancel
  /\ flag' = flag \cup {q}
  /\ UNCHANGED <<callVars, cancel, background, stalled, slots, resets, diskVars>>

WatchHard(q) ==
  /\ Watched(q) /\ Undecided(q)
  /\ "silent" \in ApiHazards /\ q \in background \cup Asides
  /\ flag' = flag \cup {q}
  /\ UNCHANGED <<callVars, cancel, background, stalled, slots, resets, diskVars>>

\* The soft timeout of the watcher; a call of the other kind passes that of the command line it was
\* tried with before.  A /btw has no callback for it.
SoftTimeout(q) ==
  /\ "silent" \in ApiHazards
  /\ q \notin Asides
  /\ Watched(q) \/ pc[q] = "load"
  /\ background' = background \cup {q}
  /\ UNCHANGED <<callVars, cancel, flag, stalled, slots, resets, diskVars>>

Cancel(q) ==                \* neither a /btw nor a query in the background can be cancelled
  /\ Active(q) /\ Undecided(q)
  /\ q \notin Asides \cup background
  /\ cancel' = cancel \cup {q}
  /\ UNCHANGED <<callVars, flag, background, stalled, slots, resets, diskVars>>

\* Histories are cleared, one after the other; in one step since no call uses both.  One that fails
\* keeps the old history.
ClearHistories(cleared, failed) ==
  /\ \A k \in failed : "disk" \in ApiHazards /\ hist[k] # <<>>
  /\ hist' = [k \in Modes |-> IF k \in cleared \ failed THEN <<>> ELSE hist[k]]
  /\ said' = [k \in Modes |-> IF k \in cleared THEN <<>> ELSE said[k]]
  /\ torn' = (torn \ cleared) \cup failed
  /\ raced' = raced \cup UNION {InWindow(k) : k \in cleared \ failed}

\* /reset of all backends or of one, and the session guard and /compact, which clear the session of a
\* chat: clear_history and _clear_sid.
Reset ==
  /\ resets < MaxResets
  /\ resets' = resets + 1
  /\ \E cleared \in SUBSET Modes \ {{}} : \E failed \in SUBSET cleared : ClearHistories(cleared, failed)
  /\ UNCHANGED <<callVars, flagVars, slots>>

----------------------------------------------------------------------------
\* What the thread of the call does, with the answers of a server that has not stalled.
CallStep(q) ==
  \/ Load(q) \/ Acquire(q) \/ WaitCancelled(q) \/ Build(q)
  \/ PostFlagged(q) \/ PostAccepted(q) \/ PostBusy(q)
  \/ StreamEnds(q) \/ Fails(q)
  \/ CheckCancelled(q) \/ CheckEmpty(q) \/ CheckAnswered(q) \/ Reload(q) \/ Write(q)

WatchStep(q) == WatchCancel(q) \/ WatchHard(q) \/ SoftTimeout(q)

ApiNext ==
  \/ \E q \in Queries :
       CallStep(q) \/ Line(q) \/ WatchStep(q) \/ Stalls(q) \/ Cancel(q)
       \/ \E k \in Modes : Begin(q, k)
  \/ Reset

\* Threads are scheduled, and a server that has not stalled goes on and ends its answer.
ApiFairness == \A q \in Queries : WF_apiVars(CallStep(q))

ApiSpec == ApiInit /\ [][ApiNext]_apiVars /\ ApiFairness

----------------------------------------------------------------------------
(* Properties                                                              *)

\* What the next call is sent is the conversation: every answer in the order in which they were
\* given, one turn each, none of a call that was cancelled or has failed, the newest that there is
\* room for, and nothing from before the last clear; although a /btw, a query in the background and
\* /reset come between the steps of a call.  Excepted is a history that was written by a call after
\* another one, or a clear, had written it since it was loaded, for DeepSeek since it was loaded
\* again; by a call that could not read it; and one that could not be written or cleared
\* (api_session.py 46-94, runner_deepseek.py 100-126).
HistoryIsConversation == \A k \in Modes \ torn : hist[k] = Trim(said[k], Room[k])

ApiWaiting == {q \in Queries : pc[q] \in {"new", "waiting"}}

ApiPool == INSTANCE RunnerPool WITH Runners <- Queries, waiting <- ApiWaiting, placed <- Holders

\* The calls to DeepSeek use the places of the pool as the processes of the command lines do: one
\* place for a call, taken when there is one and given back once, whether the call is answered,
\* fails, is cancelled or gives up while it waits.
CallsUsePool == ApiPool!Spec

\* A call ends, whatever fails, unless a server has stalled; then the other ones can still be
\* cancelled, also while they wait for the place it keeps.
CallsEnd ==
  /\ \A q \in Queries : Active(q) ~> (pc[q] = "done" \/ stalled # {})
  /\ \A q \in Queries \ Asides : q \in cancel ~> (q \notin cancel \/ q \in stalled)

=============================================================================
