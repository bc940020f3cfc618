------------------------------- MODULE Sessions -------------------------------
(***************************************************************************)
(* What a chat knows and how it is kept within bounds: the session of a    *)
(* backend (its id on disk, and the documents it has been given), the log  *)
(* of the conversation, and the session memory that is summed up from it.  *)
(* Queries, the session guard that runs inside them, /compact, /reset,     *)
(* /memory clear and the threads that sum up run concurrently              *)
(* (session_guard.py, memory.py, _context_cache.py, commands.py,           *)
(* handlers/_query.py, runner_base.py).                                    *)
(* One chat, one command-line backend and one document, which every query  *)
(* mentions.                                                               *)
(***************************************************************************)
EXTENDS Integers

CONSTANTS
  Queries,     \* the queries of the chat; a soft timeout lets the next one begin before the last ends
  MaxTurns,    \* max_turns of the policy
  MaxCommands, \* bound on the commands that clear or sum up
  Hazards      \* what may go wrong: see HazardKinds

HazardKinds == {"disk",   \* the memory file, or the file of the session's id, cannot be written
                "slow",   \* a summary is not there in time
                "model"}  \* a call of a model fails

ASSUME SessionsAssumption ==
  MaxTurns \in Nat \ {0} /\ MaxCommands \in Nat /\ Hazards \subseteq HazardKinds

\* Who asks maybe_auto_update for a summary: the guard and /compact wait for its end, a query that
\* has ended, a milestone and /reset do not ("aside").
Waiters == {"guard", "compact"}
Callers == Waiters \cup {"aside"}

VARIABLES
  \* the session of the backend
  sid,      \* the id on disk; 0 when there is none
  fresh,    \* the last id the backend has given
  given,    \* the sessions that the body of the document was sent to
  record,   \* _doc_injection_seen: {"doc"} when the record of the document is there
  turns,    \* the turns counted for the session
  torn,     \* history: {"torn"} when the session was last cleared under a running query, or since
            \* then a query has ended whose id could not be saved
  \* the memory
  log,      \* the entries of the conversation in the log
  memory,   \* the entries that the session memory covers
  lock,     \* the update lock: "free" or who has it
  update,   \* the thread of maybe_auto_update of each caller
  upto,     \* the entries it has read
  answer,   \* what on_done was told
  \* the queries and the guard
  pc,       \* where each query is
  text,     \* what it sends of the document: the "body" or a "marker"
  using,    \* the session it uses; 0 for a new one
  guard,    \* where the guard is
  \* the commands
  compact,  \* where /compact is
  commands, \* the commands so far
  \* history
  base,     \* the entries in the log when the guard, and when /compact, asked for a summary
  excuse    \* who could not be given one

sessionVars == <<sid, fresh, given, record, torn>>
memoryVars  == <<memory, lock, update, upto, answer>>
queryVars   == <<pc, text, using>>
vars == <<sessionVars, turns, log, memoryVars, queryVars, guard, compact, commands, base, excuse>>

----------------------------------------------------------------------------
TypeOK ==
  /\ sid \in Nat /\ fresh \in Nat /\ sid <= fresh
  /\ given \in SUBSET (1..fresh)
  /\ record \in SUBSET {"doc"} /\ torn \in SUBSET {"torn"}
  /\ turns \in Nat
  /\ log \in Nat /\ memory \in Nat
  /\ lock \in {"free", "waiter"} \cup Callers
  /\ update \in [Callers -> {"idle", "start", "read", "save", "after"}]
  /\ upto \in [Callers -> Nat]
  /\ answer \in [Waiters -> {"none", "ok", "busy", "failed"}]
  /\ pc \in [Queries -> {"new", "asked", "resumed", "again", "opened", "counting", "guarded",
                         "answered", "committed", "done"}]
  /\ text \in [Queries -> {"body", "marker"}]
  /\ using \in [Queries -> 0..fresh]
  /\ guard \in {"off", "first", "wait", "locked", "again", "second", "clear", "mark"}
  /\ compact \in {"off", "waits", "clear", "done"}
  /\ commands \in 0..MaxCommands
  /\ base \in [Waiters -> Nat]
  /\ excuse \in SUBSET Waiters

Init ==
  /\ sid = 0 /\ fresh = 0 /\ given = {} /\ record = {} /\ torn = {}
  /\ turns = 0 /\ log = 0 /\ memory = 0
  /\ lock = "free"
  /\ update = [c \in Callers |-> "idle"]
  /\ upto = [c \in Callers |-> 0]
  /\ answer = [w \in Waiters |-> "none"]
  /\ pc = [q \in Queries |-> "new"]
  /\ text = [q \in Queries |-> "marker"]
  /\ using = [q \in Queries |-> 0]
  /\ guard = "off"
  /\ compact = "off" /\ commands = 0
  /\ base = [w \in Waiters |-> 0]
  /\ excuse = {}

----------------------------------------------------------------------------
(* The session                                                             *)

\* A query that has read the records or loaded the id, and has not committed its own record.
Running(q) == pc[q] \notin {"new", "committed", "done"}

\* mutant: the records of the session stay.
ClearSidOnly(under) ==
  /\ sid' = 0
  /\ torn' = IF under = {} THEN {} ELSE {"torn"}
  /\ UNCHANGED <<fresh, given, record>>

\* _clear_sid: the records of the session go with its id, in one step: a query that begins between
\* the two is one it happens under as well.  under are those queries.
ClearSid(under) ==
  /\ sid' = 0 /\ record' = {}
  /\ torn' = IF under = {} THEN {} ELSE {"torn"}
  /\ UNCHANGED <<fresh, given>>

AllRunning == {q \in Queries : Running(q)}

----------------------------------------------------------------------------
(* maybe_auto_update                                                       *)

\* on_done; who does not wait passes none.
Tell(c, what) == answer' = [w \in Waiters |-> IF w = c THEN what ELSE answer[w]]

\* The thread is started; a caller has one at a time in the model.
StartUpdate(c) ==
  /\ update[c] = "idle"
  /\ update' = [update EXCEPT ![c] = "start"]
  /\ Tell(c, "none")
  /\ UNCHANGED <<memory, lock, upto>>

\* Who waits for a summary before the session is cleared.
Waiting == {w \in {"guard"} : guard \notin {"off", "mark"}}
           \cup {w \in {"compact"} : compact \in {"waits", "clear"}}

\* For those who do not wait for it: none is added to one that has not ended.
MayStartAside == StartUpdate("aside") \/ UNCHANGED memoryVars

\* mutant: the lock is not looked at.
LockAnyhow(c) ==
  /\ update[c] = "start"
  /\ lock' = c
  /\ update' = [update EXCEPT ![c] = "read"]
  /\ upto' = [upto EXCEPT ![c] = log]
  /\ UNCHANGED <<sessionVars, turns, log, memory, answer, queryVars, guard, compact, commands,
                 base, excuse>>

\* The lock is not waited for; with it, the log is read; the code reads its last 50
\* entries only.
Lock(c) ==
  /\ update[c] = "start"
  /\ lock = "free"
  /\ lock' = c
  /\ update' = [update EXCEPT ![c] = "read"]
  /\ upto' = [upto EXCEPT ![c] = log]
  /\ UNCHANGED <<sessionVars, turns, log, memory, answer, queryVars, guard, compact, commands,
                 base, excuse>>

LockBusy(c) ==
  /\ update[c] = "start"
  /\ lock # "free"
  /\ update' = [update EXCEPT ![c] = "idle"]
  /\ Tell(c, "busy")
  /\ UNCHANGED <<sessionVars, turns, log, memory, lock, upto, queryVars, guard, compact, commands,
                 base, excuse>>

\* generate_memory: a summary; or there is nothing to sum up, the model fails or is not useful, or
\* it takes more than MEMORY_GENERATION_TIMEOUT and is left to end without effect.
Summarise(c) ==
  /\ update[c] = "read"
  /\ \/ /\ upto[c] > 0
        /\ update' = [update EXCEPT ![c] = "save"]
        /\ UNCHANGED <<answer, excuse>>
     \/ /\ upto[c] = 0 \/ Hazards \cap {"model", "slow"} # {}
        /\ update' = [update EXCEPT ![c] = "after"]
        /\ Tell(c, "failed")
        /\ excuse' = excuse \cup ({c} \cap {"guard"} \cap Waiting)
  /\ UNCHANGED <<sessionVars, turns, log, memory, lock, upto, queryVars, guard, compact, commands,
                 base>>

\* save_memory says whether it succeeded; the caller is told that it did.
SaveMemory(c) ==
  /\ update[c] = "save"
  /\ update' = [update EXCEPT ![c] = "after"]
  /\ Tell(c, "ok")
  /\ \/ memory' = upto[c] /\ UNCHANGED excuse
     \/ /\ "disk" \in Hazards
        /\ excuse' = excuse \cup ({c} \cap Waiting)
        /\ UNCHANGED memory
  /\ UNCHANGED <<sessionVars, turns, log, lock, upto, queryVars, guard, compact, commands, base>>

\* The cascade is dispatched, and the lock is released last.
Unlock(c) ==
  /\ update[c] = "after"
  /\ update' = [update EXCEPT ![c] = "idle"]
  /\ lock' = "free"
  /\ upto' = [upto EXCEPT ![c] = 0]
  /\ UNCHANGED <<sessionVars, turns, log, memory, answer, queryVars, guard, compact, commands,
                 base, excuse>>

----------------------------------------------------------------------------
(* A query                                                                 *)

\* The message is in the log, and the document is looked up in the records.
Ask(q) ==
  /\ pc[q] = "new"
  /\ pc' = [pc EXCEPT ![q] = "asked"]
  /\ log' = log + 1
  /\ text' = [text EXCEPT ![q] = IF record = {} THEN "body" ELSE "marker"]
  /\ UNCHANGED <<sessionVars, turns, memoryVars, using, guard, compact, commands, base, excuse>>

\* The message is sent to a session.
Send(q, session) ==
  /\ using' = [using EXCEPT ![q] = session]
  /\ given' = given \cup {id \in {session} : text[q] = "body"}
  /\ UNCHANGED <<sid, record, torn, turns, log, memoryVars, text, guard, compact, commands, base,
                 excuse>>

\* To the session on disk, or to a new one.
Resume(q) ==
  /\ pc[q] = "asked"
  /\ sid # 0
  /\ pc' = [pc EXCEPT ![q] = "resumed"]
  /\ Send(q, sid)
  /\ UNCHANGED fresh

Open(q) ==
  /\ (pc[q] = "asked" /\ sid = 0) \/ pc[q] = "again"
  /\ pc' = [pc EXCEPT ![q] = "opened"]
  /\ Send(q, fresh + 1)
  /\ fresh' = fresh + 1

Called(q) == pc[q] \in {"resumed", "opened"}

\* The first event names the session, whose id is saved; a save that fails changes nothing, as if
\* the event had not come.
Named(q) ==
  /\ Called(q)
  /\ sid' = using[q]
  /\ UNCHANGED <<fresh, given, record, torn, turns, log, memoryVars, queryVars, guard, compact,
                 commands, base, excuse>>

\* The process dies in a session that it was to resume: the session is cleared, and the same message
\* will be sent to a new one, with the body or only with the marker.
Retry(q) ==
  /\ "model" \in Hazards
  /\ pc[q] = "resumed"
  /\ pc' = [pc EXCEPT ![q] = "again"]
  /\ ClearSid(AllRunning \ {r \in {q} : text[r] = "body"})
  /\ UNCHANGED <<turns, log, memoryVars, text, using, guard, compact, commands, base, excuse>>

\* The query is over.
Ends(q) ==
  /\ pc' = [pc EXCEPT ![q] = "done"]
  /\ text' = [text EXCEPT ![q] = "marker"]
  /\ using' = [using EXCEPT ![q] = 0]

\* The call fails for good or is cancelled.
Fails(q) ==
  /\ "model" \in Hazards
  /\ Called(q)
  /\ Ends(q)
  /\ UNCHANGED <<sessionVars, turns, log, memoryVars, guard, compact, commands, base, excuse>>

\* The event of the result: the id is saved again; a save that fails is ignored, and the session is
\* lost unless its id was saved before.
Result(q) ==
  /\ Called(q)
  /\ pc' = [pc EXCEPT ![q] = "counting"]
  /\ \/ sid' = using[q] /\ UNCHANGED torn
     \/ "disk" \in Hazards /\ sid # using[q] /\ torn' = {"torn"} /\ UNCHANGED sid
  /\ UNCHANGED <<fresh, given, record, turns, log, memoryVars, text, using, guard, compact,
                 commands, base, excuse>>

----------------------------------------------------------------------------
(* The session guard, in the thread that reads the answer                  *)

\* maybe_auto_reset counts the turn; one reset at a time.
Count(q) ==
  /\ pc[q] = "counting"
  /\ turns' = turns + 1
  /\ \/ /\ turns' >= MaxTurns /\ guard = "off"
        /\ pc' = [pc EXCEPT ![q] = "guarded"]
        /\ guard' = "first"
     \/ /\ turns' < MaxTurns \/ guard # "off"
        /\ pc' = [pc EXCEPT ![q] = "answered"]
        /\ UNCHANGED guard
  /\ UNCHANGED <<sessionVars, log, memoryVars, text, using, compact, commands, base, excuse>>

GuardStays == <<turns, queryVars, compact, commands>>

\* _settle_memory_before_reset, twice at most.
Settle ==
  /\ guard \in {"first", "again"}
  /\ guard' = IF guard = "first" THEN "wait" ELSE "second"
  /\ StartUpdate("guard")
  /\ base' = [base EXCEPT !["guard"] = log]
  /\ excuse' = excuse \ {"guard"}
  /\ UNCHANGED <<sessionVars, log, GuardStays>>

Settled ==
  /\ guard \in {"wait", "second"}
  /\ answer["guard"] # "none"
  /\ \/ guard = "wait" /\ answer["guard"] = "busy" /\ guard' = "locked" /\ UNCHANGED excuse
     \/ /\ guard = "second" \/ answer["guard"] # "busy"
        /\ guard' = "clear"
        /\ excuse' = IF answer["guard"] = "busy" THEN excuse \cup {"guard"} ELSE excuse
  /\ UNCHANGED <<sessionVars, log, memoryVars, GuardStays, base>>

\* After 130 seconds, or 130 seconds for the lock: the session is cleared all the same.
SettleTimesOut ==
  /\ "slow" \in Hazards
  /\ \/ guard \in {"wait", "second"} /\ answer["guard"] = "none" /\ guard' = "clear"
        /\ excuse' = excuse \cup {"guard"}
     \/ guard = "locked" /\ lock # "free" /\ guard' = "again" /\ UNCHANGED excuse
  /\ UNCHANGED <<sessionVars, log, memoryVars, GuardStays, base>>

\* The lock is waited for by taking it.
WaitLock ==
  /\ guard = "locked" /\ lock = "free"
  /\ lock' = "waiter"
  /\ guard' = "again"
  /\ UNCHANGED <<sessionVars, log, memory, update, upto, answer, GuardStays, base, excuse>>

ReleaseLock ==
  /\ lock = "waiter"
  /\ lock' = "free"
  /\ UNCHANGED <<sessionVars, log, memory, update, upto, answer, GuardStays, guard, base, excuse>>

\* The session and its counters are cleared.
GuardClears ==
  /\ guard = "clear"
  /\ guard' = "mark"
  /\ ClearSid(AllRunning)
  /\ turns' = 0
  /\ base' = [base EXCEPT !["guard"] = 0] /\ excuse' = excuse \ {"guard"}
  /\ UNCHANGED <<log, memoryVars, queryVars, compact, commands>>

\* record_milestone: an entry, and another summary unless the last one was within a minute.
GuardMarks ==
  /\ guard = "mark"
  /\ guard' = "off"
  /\ log' = log + 1
  /\ MayStartAside
  /\ \E q \in Queries : pc[q] = "guarded" /\ pc' = [pc EXCEPT ![q] = "answered"]
  /\ UNCHANGED <<sessionVars, turns, text, using, compact, commands, base, excuse>>

----------------------------------------------------------------------------
(* The end of a query                                                      *)

\* The records of the bodies are committed when the backend has answered.
Commit(q) ==
  /\ pc[q] = "answered"
  /\ pc' = [pc EXCEPT ![q] = "committed"]
  /\ record' = IF text[q] = "body" THEN {"doc"} ELSE record
  /\ UNCHANGED <<sid, fresh, given, torn, turns, log, memoryVars, text, using, guard, compact,
                 commands, base, excuse>>

\* The answer is in the log, then _post_query_memory_hook asks for a summary when it is time.
Finish(q) ==
  /\ pc[q] = "committed"
  /\ Ends(q)
  /\ log' = log + 1
  /\ MayStartAside
  /\ UNCHANGED <<sessionVars, turns, guard, compact, commands, base, excuse>>

----------------------------------------------------------------------------
(* The commands                                                            *)

CommandStays == <<queryVars, guard>>

CompactBegins ==
  /\ compact = "off"
  /\ commands < MaxCommands
  /\ commands' = commands + 1
  /\ compact' = "waits"
  /\ StartUpdate("compact")
  /\ base' = [base EXCEPT !["compact"] = log]
  /\ UNCHANGED <<sessionVars, turns, log, CommandStays, excuse>>

\* mutant: an update that is under way is as good as an own one.
CompactHeardBusy ==
  /\ compact = "waits"
  /\ answer["compact"] # "none"
  /\ compact' = IF answer["compact"] \in {"ok", "busy"} THEN "clear" ELSE "done"
  /\ UNCHANGED <<sessionVars, turns, log, memoryVars, CommandStays, commands, base, excuse>>

\* Only a success clears the session; a wait of 150 seconds counts as a failure.
CompactHeard ==
  /\ compact = "waits"
  /\ \/ answer["compact"] = "ok" /\ compact' = "clear"
     \/ answer["compact"] \in {"busy", "failed"} /\ compact' = "done"
     \/ "slow" \in Hazards /\ answer["compact"] = "none" /\ compact' = "done"
  /\ UNCHANGED <<sessionVars, turns, log, memoryVars, CommandStays, commands, base, excuse>>

CompactClears ==
  /\ compact = "clear"
  /\ compact' = "done"
  /\ ClearSid(AllRunning)
  /\ base' = [base EXCEPT !["compact"] = 0] /\ excuse' = excuse \ {"compact"}
  /\ UNCHANGED <<turns, log, memoryVars, CommandStays, commands>>

\* /reset: a summary is asked for, the session and its counters are cleared at once.
Reset ==
  /\ commands < MaxCommands
  /\ commands' = commands + 1
  /\ MayStartAside
  /\ ClearSid(AllRunning)
  /\ turns' = 0
  /\ UNCHANGED <<log, CommandStays, compact, base, excuse>>

\* /memory clear session and /reset memory, without the update lock.
ClearMemory ==
  /\ commands < MaxCommands
  /\ commands' = commands + 1
  /\ memory' = 0
  /\ excuse' = excuse \cup Waiting
  /\ UNCHANGED <<sessionVars, turns, log, lock, update, upto, answer, CommandStays, compact, base>>

----------------------------------------------------------------------------
QueryStep(q) ==
  \/ Ask(q) \/ Resume(q) \/ Open(q) \/ Retry(q) \/ Fails(q) \/ Result(q)
  \/ Count(q) \/ Commit(q) \/ Finish(q)

UpdateStep(c) == Lock(c) \/ LockBusy(c) \/ Summarise(c) \/ SaveMemory(c) \/ Unlock(c)

GuardStep ==
  \/ Settle \/ Settled \/ SettleTimesOut \/ WaitLock \/ ReleaseLock
  \/ GuardClears \/ GuardMarks

CompactStep == CompactHeard \/ CompactClears

Next ==
  \/ \E q \in Queries : QueryStep(q) \/ Named(q)
  \/ \E c \in Callers : UpdateStep(c)
  \/ GuardStep \/ CompactStep
  \/ CompactBegins \/ Reset \/ ClearMemory

Spec == Init /\ [][Next]_vars

----------------------------------------------------------------------------
(* Properties                                                              *)

\* A document is left out of a message only if the session it goes to has it: the records go with
\* the session and are kept only for what a backend has answered, through failed calls, retries and
\* queries that overlap (_context_cache.py 573-582); except after the session was cleared under a
\* query that was under way, or its id could not be saved (chat_state.py 147-152).
DocKnown == record # {} /\ sid # 0 /\ torn = {} => sid \in given

\* The session memory never goes back to an older state of the conversation, whoever sums up at the
\* same time, unless the user clears it.
MemoryForward == [][memory' < memory => memory' = 0 /\ commands' = commands + 1]_vars

\* The session is cleared, for /compact or by the guard, when the memory covers what was said before
\* ("only clear the sid after the summary actually landed", commands.py 3070; session_guard.py 63-83);
\* for /compact the memory file may have failed to be written, for the guard the summary too, and
\* the user may have cleared the memory meanwhile.
KeptBeforeCleared ==
  [][/\ compact = "clear" /\ compact' = "done" => memory >= base["compact"] \/ "compact" \in excuse
     /\ guard = "clear" /\ guard' = "mark" => memory >= base["guard"] \/ "guard" \in excuse]_vars

=============================================================================
