--------------------------- MODULE RunnerLifecycle ---------------------------
(***************************************************************************)
(* BaseProcessRunner.run() for several runners that share the pool of AI   *)
(* processes: the run thread, the _watch thread that polls for the end, a  *)
(* cancellation or silence, and the CLI process, whose pipe may be kept    *)
(* open by the children it leaves behind.  A retry continues as the same   *)
(* runner, with a new object.  Time is counted per runner, in steps that   *)
(* make the difference between the two timeouts.                           *)
(***************************************************************************)
EXTENDS Naturals, FiniteSets

CONSTANTS
  Runners,    \* calls of run()
  MaxProcs,   \* places in _ai_proc_sem
  Soft, Hard, \* RESPONSE_TIMEOUT and HARD_TIMEOUT
  CanRetry,   \* the runners with allow_retry and a session id
  Cancellable \* the runners that were given a cancel_ev

ASSUME RunnerAssumption ==
  /\ IsFiniteSet(Runners)
  /\ MaxProcs \in Nat \ {0}
  /\ Soft \in Nat /\ Hard \in Nat /\ Soft < Hard
  /\ CanRetry \subseteq Runners
  /\ Cancellable \subseteq Runners

VARIABLES
  pc,          \* where the run thread is
  slots,       \* value of the semaphore
  proc,        \* the CLI process
  rc,          \* its return code: "0", "1", or -9 sent by "watch", "cleanup" or the OS ("oom")
  pipe,        \* the runners whose stdout pipe is open or has something left to read
  text,        \* _result_text: "none", "partial", "complete"
  failure,     \* the runners whose body raised before or while it started the process
  completed,   \* _completed
  watch,       \* where the watch thread is
  idle,        \* now - _last_activity_ts, up to Hard
  cancelEv,    \* the runners whose cancel_ev is set
  cancelled,   \* _cancelled_flag
  watchKilled, \* _watch_killed
  softFired,   \* soft_fired of the watcher
  retried,     \* the runners that run as the clone
  outcome      \* what run() returned or raised

procVars  == <<proc, rc, pipe>>
flagVars  == <<completed, cancelled, watchKilled, failure>>
clockVars == <<idle>>
objectVars == <<procVars, text, flagVars, watch, clockVars, softFired>>
vars == <<pc, slots, objectVars, cancelEv, retried, outcome>>

----------------------------------------------------------------------------
Holding == {"popen", "started", "reading", "closing", "release"}
PCs == {"waiting", "polling", "check", "done"} \cup Holding
Sigkill == {"watch", "cleanup", "oom"}
Outcomes == {"none", "answer", "cancelled", "timeout", "killed", "error"}

Holders == {r \in Runners : pc[r] \in Holding}

TypeOK ==
  /\ pc \in [Runners -> PCs]
  /\ slots \in 0..MaxProcs
  /\ proc \in [Runners -> {"none", "alive", "dead"}]
  /\ rc \in [Runners -> {"0", "1"} \cup Sigkill]
  /\ pipe \subseteq Runners
  /\ text \in [Runners -> {"none", "partial", "complete"}]
  /\ failure \subseteq Runners
  /\ completed \subseteq Runners
  /\ watch \in [Runners -> {"off", "poll", "look", "kill"}]
  /\ idle \in [Runners -> 0..Hard]
  /\ cancelEv \subseteq Runners
  /\ cancelled \subseteq Runners
  /\ watchKilled \subseteq Runners
  /\ softFired \subseteq Runners
  /\ retried \subseteq Runners
  /\ outcome \in [Runners -> Outcomes]

Init ==
  /\ pc = [r \in Runners |-> "waiting"]
  /\ slots = MaxProcs
  /\ proc = [r \in Runners |-> "none"]
  /\ rc = [r \in Runners |-> "0"]
  /\ pipe = {}
  /\ text = [r \in Runners |-> "none"]
  /\ failure = {}
  /\ completed = {}
  /\ watch = [r \in Runners |-> "off"]
  /\ idle = [r \in Runners |-> 0]
  /\ cancelEv = {}
  /\ cancelled = {}
  /\ watchKilled = {}
  /\ softFired = {}
  /\ retried = {}
  /\ outcome = [r \in Runners |-> "none"]

----------------------------------------------------------------------------
Goto(r, next) == pc' = [pc EXCEPT ![r] = next]

\* The runner object is dropped, with the round its watcher may still be in: that touches the
\* object only, except for the soft-timeout callback, whose late calls are in ChatQuery.
Discard(r) ==
  /\ proc' = [proc EXCEPT ![r] = "none"]
  /\ rc' = [rc EXCEPT ![r] = "0"]
  /\ pipe' = pipe \ {r}
  /\ text' = [text EXCEPT ![r] = "none"]
  /\ completed' = completed \ {r}
  /\ cancelled' = cancelled \ {r}
  /\ watchKilled' = watchKilled \ {r}
  /\ failure' = failure \ {r}
  /\ watch' = [watch EXCEPT ![r] = "off"]
  /\ idle' = [idle EXCEPT ![r] = 0]
  /\ softFired' = softFired \ {r}

\* run() returns or raises
Ends(r, how) ==
  /\ Goto(r, "done")
  /\ outcome' = [outcome EXCEPT ![r] = how]
  /\ Discard(r)

\* SIGKILL: nothing happens to a process that has already exited
Kill(r, who) ==
  IF proc[r] = "alive"
  THEN proc' = [proc EXCEPT ![r] = "dead"] /\ rc' = [rc EXCEPT ![r] = who]
  ELSE UNCHANGED <<proc, rc>>

(* _acquire_ai_sem                                                         *)

Acquire(r) ==
  /\ pc[r] = "waiting"
  /\ slots > 0
  /\ slots' = slots - 1
  /\ Goto(r, "popen")
  /\ UNCHANGED <<objectVars, cancelEv, retried,
                 outcome>>

AcquireTimesOut(r) ==       \* after one second
  /\ pc[r] = "waiting"
  /\ slots = 0
  /\ Goto(r, "polling")
  /\ UNCHANGED <<slots, objectVars, cancelEv, retried, outcome>>

PollCancel(r) ==
  /\ pc[r] = "polling"
  /\ \/ r \in cancelEv /\ Ends(r, "cancelled")
     \/ r \notin cancelEv /\ Goto(r, "waiting") /\ UNCHANGED <<objectVars, outcome>>
  /\ UNCHANGED <<slots, cancelEv, retried>>

\* The body of run() ends, and its finally begins: nobody reads the pipe any more.
Close(r) ==
  /\ Goto(r, "closing")
  /\ completed' = completed \cup {r}
  /\ pipe' = pipe \ {r}
  /\ UNCHANGED <<slots, cancelled, watchKilled, cancelEv, softFired, retried, outcome>>

(* The body of run()                                                       *)

Popen(r) ==
  /\ pc[r] = "popen"
  /\ Goto(r, "started")
  /\ proc' = [proc EXCEPT ![r] = "alive"]
  /\ pipe' = pipe \cup {r}
  /\ UNCHANGED <<slots, rc, text, flagVars, watch, clockVars, cancelEv, softFired, retried,
                 outcome>>

PopenFails(r) ==            \* no such CLI
  /\ pc[r] = "popen"
  /\ failure' = failure \cup {r}
  /\ Close(r)
  /\ UNCHANGED <<proc, rc, text, watch, clockVars>>

Start(r) ==                 \* stdin written, the two threads started
  /\ pc[r] = "started"
  /\ Goto(r, "reading")
  /\ watch' = [watch EXCEPT ![r] = "poll"]
  /\ UNCHANGED <<slots, procVars, text, flagVars, clockVars, cancelEv, softFired, retried,
                 outcome>>

StartFails(r) ==            \* the write to stdin fails: the process is gone, or hangs
  /\ pc[r] = "started"
  /\ failure' = failure \cup {r}
  /\ Close(r)
  /\ UNCHANGED <<proc, rc, text, watch, clockVars>>

\* A line is read: _touch_activity, on stderr too
Touch(r) ==
  /\ pc[r] = "reading"
  /\ r \in pipe
  /\ idle' = [idle EXCEPT ![r] = 0]

ReadLine(r) ==              \* a piece of the answer, or a line without text
  /\ Touch(r)
  /\ text' \in {text, [text EXCEPT ![r] = "partial"]}
  /\ UNCHANGED <<pc, slots, procVars, flagVars, watch, cancelEv, softFired, retried, outcome>>

ReadResult(r) ==            \* the terminal envelope ends the loop
  /\ Touch(r)
  /\ text' = [text EXCEPT ![r] = IF @ = "none" THEN "none" ELSE "complete"]
  /\ Close(r)
  /\ UNCHANGED <<proc, rc, failure, watch>>

ReadEof(r) ==
  /\ pc[r] = "reading"
  /\ r \notin pipe
  /\ Close(r)
  /\ UNCHANGED <<proc, rc, text, failure, watch, clockVars>>

\* mutant: the place is given back without waiting for the process
WaitNot(r) ==
  /\ pc[r] = "closing"
  /\ Goto(r, "release")
  /\ UNCHANGED <<slots, objectVars, cancelEv, retried, outcome>>

WaitProc(r) ==
  /\ pc[r] = "closing"
  /\ proc[r] # "alive"
  /\ Goto(r, "release")
  /\ UNCHANGED <<slots, objectVars, cancelEv, retried, outcome>>

\* mutant: the kill of the cleanup is not flagged
WaitExpiresUnflagged(r) ==
  /\ pc[r] = "closing"
  /\ proc[r] = "alive"
  /\ Kill(r, "cleanup")
  /\ Goto(r, "release")
  /\ UNCHANGED <<slots, pipe, text, flagVars, watch, clockVars, cancelEv, softFired, retried, outcome>>

WaitExpires(r) ==           \* five seconds; the kill is its own, and is waited for
  /\ pc[r] = "closing"
  /\ proc[r] = "alive"
  /\ watchKilled' = watchKilled \cup {r}
  /\ Kill(r, "cleanup")
  /\ Goto(r, "release")
  /\ UNCHANGED <<slots, pipe, text, completed, cancelled, failure, watch, clockVars,
                 cancelEv, softFired, retried, outcome>>

Release(r) ==               \* an exception of the body goes on from here
  /\ pc[r] = "release"
  /\ slots' = slots + 1
  /\ \/ r \in failure /\ Ends(r, "error")
     \/ r \notin failure /\ Goto(r, "check") /\ UNCHANGED <<objectVars, outcome>>
  /\ UNCHANGED <<cancelEv, retried>>

----------------------------------------------------------------------------
(* After the finally.  Only a return code without any text is an error.    *)

Failed(r) == r \notin cancelled /\ rc[r] # "0" /\ text[r] = "none"

Conclude(r, how) ==
  /\ pc[r] = "check"
  /\ Ends(r, how)
  /\ UNCHANGED <<slots, cancelEv, retried>>

RaiseCancelled(r) == r \in cancelled /\ Conclude(r, "cancelled")

ReturnText(r) == r \notin cancelled /\ ~Failed(r) /\ Conclude(r, "answer")

RaiseKilled(r) ==           \* _on_kill_signal
  /\ Failed(r)
  /\ rc[r] \in Sigkill
  /\ Conclude(r, IF r \in watchKilled THEN "timeout" ELSE "killed")

RaiseError(r) == Failed(r) /\ rc[r] = "1" /\ r \notin CanRetry \ retried /\ Conclude(r, "error")

Retry(r) ==                 \* clear the session, run the clone
  /\ pc[r] = "check"
  /\ Failed(r) /\ rc[r] = "1" /\ r \in CanRetry \ retried
  /\ retried' = retried \cup {r}
  /\ Goto(r, "waiting")
  /\ Discard(r)
  /\ UNCHANGED <<slots, cancelEv, outcome>>

----------------------------------------------------------------------------
(* _watch: one round of its loop tests the end, the cancellation and the   *)
(* idle time one after the other.                                          *)

WatchKeeps == <<pc, slots, text, completed, failure, clockVars, cancelEv, retried, outcome>>

WatchTo(r, next) == watch' = [watch EXCEPT ![r] = next]

WatchPoll(r) ==
  /\ watch[r] = "poll"
  /\ WatchTo(r, IF r \in completed THEN "off" ELSE "look")
  /\ UNCHANGED <<WatchKeeps, procVars, cancelled, watchKilled, softFired>>

\* mutant: the flags are set and the watcher returns without the kill
WatchCancelSpares(r) ==
  /\ watch[r] = "look"
  /\ r \in cancelEv
  /\ cancelled' = cancelled \cup {r}
  /\ watchKilled' = watchKilled \cup {r}
  /\ WatchTo(r, "off")
  /\ UNCHANGED <<WatchKeeps, procVars, softFired>>

WatchCancel(r) ==
  /\ watch[r] = "look"
  /\ r \in cancelEv
  /\ cancelled' = cancelled \cup {r}
  /\ watchKilled' = watchKilled \cup {r}
  /\ WatchTo(r, "kill")
  /\ UNCHANGED <<WatchKeeps, procVars, softFired>>

WatchHard(r) ==
  /\ watch[r] = "look"
  /\ r \notin cancelEv
  /\ idle[r] >= Hard
  /\ watchKilled' = watchKilled \cup {r}
  /\ WatchTo(r, "kill")
  /\ UNCHANGED <<WatchKeeps, procVars, cancelled, softFired>>

WatchSoft(r) ==             \* fires on_soft_timeout once, then sleeps as in every round
  /\ watch[r] = "look"
  /\ r \notin cancelEv
  /\ idle[r] < Hard
  /\ softFired' = IF idle[r] >= Soft THEN softFired \cup {r} ELSE softFired
  /\ WatchTo(r, "poll")
  /\ UNCHANGED <<WatchKeeps, procVars, cancelled, watchKilled>>

WatchKill(r) ==
  /\ watch[r] = "kill"
  /\ Kill(r, "watch")
  /\ WatchTo(r, "off")
  /\ UNCHANGED <<WatchKeeps, pipe, cancelled, watchKilled, softFired>>

(* The process, the time and the user                                      *)

Exit(r) ==
  /\ proc[r] = "alive"
  /\ proc' = [proc EXCEPT ![r] = "dead"]
  /\ rc' \in {[rc EXCEPT ![r] = code] : code \in {"0", "1", "oom"}}
  /\ UNCHANGED <<pc, slots, pipe, text, flagVars, watch, clockVars, cancelEv, softFired, retried,
                 outcome>>

PipeCloses(r) ==            \* the process, or the last child that inherited the pipe, lets go of it
  /\ r \in pipe
  /\ pipe' = pipe \ {r}
  /\ UNCHANGED <<pc, slots, proc, rc, text, flagVars, watch, clockVars, cancelEv, softFired,
                 retried, outcome>>

Age(r) ==                   \* until the loop ends: the watcher of an ended one stops looking
  /\ pc[r] # "done" /\ r \notin completed
  /\ idle[r] < Hard
  /\ idle' = [idle EXCEPT ![r] = @ + 1]
  /\ UNCHANGED <<pc, slots, procVars, text, flagVars, watch, cancelEv, softFired, retried, outcome>>

Cancel(r) ==
  /\ r \in Cancellable
  /\ pc[r] # "done"
  /\ cancelEv' = cancelEv \cup {r}
  /\ UNCHANGED <<pc, slots, procVars, text, flagVars, watch, clockVars, softFired, retried, outcome>>

----------------------------------------------------------------------------
RunStep(r) ==
  \/ Acquire(r) \/ AcquireTimesOut(r) \/ PollCancel(r)
  \/ Popen(r) \/ PopenFails(r) \/ Start(r) \/ StartFails(r)
  \/ ReadEof(r) \/ WaitProc(r) \/ WaitExpires(r) \/ Release(r)
  \/ RaiseCancelled(r) \/ ReturnText(r) \/ RaiseKilled(r) \/ RaiseError(r) \/ Retry(r)

WatchStep(r) ==
  WatchPoll(r) \/ WatchCancel(r) \/ WatchHard(r) \/ WatchSoft(r) \/ WatchKill(r)

ProcessStep(r) == ReadLine(r) \/ ReadResult(r) \/ Exit(r)

Next ==
  \E r \in Runners :
    RunStep(r) \/ WatchStep(r) \/ ProcessStep(r) \/ PipeCloses(r) \/ Age(r) \/ Cancel(r)

Spec == Init /\ [][Next]_vars

\* Threads are scheduled, time passes, and the pipe of a dead process closes.  A process need
\* never write, and never exit.
Fairness ==
  \A r \in Runners :
    /\ WF_vars(RunStep(r))
    /\ WF_vars(WatchStep(r))
    /\ WF_vars(proc[r] = "dead" /\ PipeCloses(r))
    /\ WF_vars(Age(r))

FairSpec == Spec /\ Fairness

----------------------------------------------------------------------------
(* Properties                                                              *)

Alive == {r \in Runners : proc[r] = "alive"}

\* The semaphore bounds the processes themselves, not only the run() calls that hold a place:
\* a place is given back only when the process is dead, and none is lost on the way through
\* the failures, cancellations and retries (runner_base.py 732-811).
PoolBound ==
  /\ Alive \subseteq Holders
  /\ slots + Cardinality(Holders) = MaxProcs

\* A user who cancels gets no answer and no error from a process his cancellation killed,
\* although its text so far and its return code would pass for an answer or a timeout
\* (runner_base.py 574-582, 813).
CancelWins ==
  [][\A r \in Runners :
        r \in cancelled /\ rc[r] = "watch" /\ pc[r] # "done" /\ pc'[r] = "done"
          => outcome'[r] = "cancelled"]_vars

\* run() puts the blame for a killed process on the operating system only when the process was
\* not killed by its own watcher or cleanup (runner_base.py 476-514, 793-797).
BlameIsRight ==
  [][\A r \in Runners : outcome'[r] = "killed" /\ outcome[r] # "killed" => rc[r] = "oom"]_vars

\* The two verdicts on a killed process.
VerdictIsRight == CancelWins /\ BlameIsRight

\* A cancelled query ends: before, during and between the processes of its two attempts, and
\* also when its process never falls silent.
CancelEnds ==
  \A r \in Runners : r \in cancelEv ~> pc[r] = "done"

\* A process that stays silent is not waited for for ever: it writes again, or the loop that
\* reads it ends.
SilenceEnds ==
  \A r \in Runners : pc[r] = "reading" ~> pc[r] # "reading" \/ idle[r] = 0

\* Neither a user who has cancelled nor a process that hangs keeps run() from ending.
RunEnds == CancelEnds /\ SilenceEnds

\* The run() waits for a place, or is about to do so for its second attempt.
Wants(r) ==
  \/ pc[r] \in {"waiting", "polling"}
  \/ pc[r] = "check" /\ Failed(r) /\ rc[r] = "1" /\ r \in CanRetry \ retried

Waiting == {r \in Runners : Wants(r)}

Pool == INSTANCE RunnerPool WITH waiting <- Waiting, placed <- Holders \cup Alive

\* run() and its semaphore implement the pool, each process counted as long as it lives.
ImplementsPool == Pool!Spec

=============================================================================
