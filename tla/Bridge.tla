-------------------------------- MODULE Bridge --------------------------------
(***************************************************************************)
(* The life of the bridge process: bridge.py (main, shutdown, the notice   *)
(* after a restart), /upgrade in commands.py, the deduplication of events  *)
(* in dedup.py with its copy on disk, the head of handle_message, and its  *)
(* branch for voice messages with the merge buffer of voice/merge.py.      *)
(* The main thread, the upgrade thread, timers and queries run             *)
(* concurrently; a service manager may start the process again.            *)
(***************************************************************************)
EXTENDS Naturals, Sequences, FiniteSets

CONSTANTS
  Messages,     \* of one chat
  Voices,       \* those that are voice messages
  MaxMerge,     \* VOICE_MAX_MERGE; 1 also stands for VOICE_MERGE_WINDOW_SEC = 0
  Cap,          \* DEDUP_CAP
  Managers,     \* what restarts the process, a subset of ManagerKinds
  Upgrades,     \* the /upgrade commands there may be
  MaxSends,     \* bound on the deliveries
  Hazards       \* what may go wrong: see HazardKinds

HazardKinds == {"thread",   \* a thread, or a timer, cannot be started
                "age"}      \* entries of the table are older than 24 hours when it is loaded

\* launchd restarts always, the unit of systemd after a failure only.
ManagerKinds == {"always", "on-failure"}

Nobody == "nobody"

ASSUME BridgeAssumption ==
  /\ Voices \subseteq Messages /\ Nobody \notin Messages
  /\ Cap \in Nat \ {0} /\ MaxMerge \in Nat \ {0} /\ MaxSends \in Nat
  /\ IsFiniteSet(Upgrades)
  /\ Managers \subseteq ManagerKinds /\ Hazards \subseteq HazardKinds

VARIABLES
  main,      \* the main thread: "up" in the loop of the websocket, "transcribe" when it waits there
             \* for a transcription, "drain" in the shutdown sequence, "notice" while a
             \* new process sends its notice; "exited" with code 0 or "failed": no process
  manager,   \* what restarts the process
  stopping,  \* {"flag"} when _shutting_down is set
  upgrade,   \* where the thread of each /upgrade is: "new" before the command, "over" after its end
  marker,    \* how many _restart_notify.json there are, 0 or 1
  notices,   \* history: how many "upgrade complete" cards were sent
  seen,      \* _seen_msg_ids, oldest first
  saved,     \* the copy on disk
  timer,     \* {"save"} when a save is pending
  running,   \* messages whose query runs
  runs,      \* history: how often each message was handed to a query
  sends,     \* how many deliveries there were
  lost,      \* history: messages that were evicted, or not on disk when the process ended, or too
             \* old when the table was loaded
  clip,      \* the voice message that is being transcribed
  buffer,    \* _buffers: those that wait to be merged
  armed,     \* the timer in _timers that has not fired yet: {"timer"}, or {"dead"} when it could not
             \* be started
  waiting,   \* how many timers have fired and wait for _meta
  texts,     \* history: voice messages that were transcribed
  unheard    \* history: those that were in the buffer when the process ended, or in a batch whose
             \* thread could not be started

processVars == <<main, stopping>>
upgradeVars == <<upgrade, marker, notices>>
dedupVars   == <<seen, saved, timer, lost>>
queryVars   == <<running, runs, sends>>
voiceVars   == <<clip, buffer, armed, waiting, texts, unheard>>
vars == <<processVars, manager, upgradeVars, dedupVars, queryVars, voiceVars>>

----------------------------------------------------------------------------
InSeq(s) == {s[i] : i \in DOMAIN s}
Alive    == main \notin {"exited", "failed"}
Flushed  == main = "drain"

\* Types; and once the shutdown sequence has saved the table of seen messages nothing is added,
\* so an orderly end of the process forgets no message.
TypeOK ==
  /\ main \in {"up", "transcribe", "drain", "notice", "exited", "failed"}
  /\ manager \in Managers
  /\ stopping \in SUBSET {"flag"}
  /\ upgrade \in [Upgrades -> {"new", "prepare", "wait", "exec", "over"}]
  /\ marker \in 0..1 /\ notices \in Nat
  /\ seen \in Seq(Messages) /\ Len(seen) <= Cap
  /\ saved \in Seq(Messages)
  /\ timer \in SUBSET {"save"}
  /\ running \in SUBSET Messages
  /\ runs \in [Messages -> Nat] /\ sends \in 0..MaxSends
  /\ lost \in SUBSET Messages
  /\ clip \in Voices \cup {Nobody} /\ (clip # Nobody <=> main = "transcribe")
  /\ buffer \in Seq(Voices) /\ Len(buffer) < MaxMerge
  /\ armed \in {{}, {"timer"}, {"dead"}} /\ waiting \in Nat
  /\ texts \in SUBSET Voices /\ unheard \in SUBSET Voices
  /\ Flushed => saved = seen

Init ==
  /\ main = "up"
  /\ manager \in Managers
  /\ stopping = {}
  /\ upgrade = [u \in Upgrades |-> "new"] /\ marker = 0 /\ notices = 0
  /\ seen = <<>> /\ saved = <<>> /\ timer = {} /\ lost = {}
  /\ running = {} /\ runs = [m \in Messages |-> 0] /\ sends = 0
  /\ clip = Nobody /\ buffer = <<>> /\ armed = {} /\ waiting = 0
  /\ texts = {} /\ unheard = {}

----------------------------------------------------------------------------
(* handle_message, on the thread of the websocket, and _is_duplicate       *)

\* The oldest entry is dropped when there are more than DEDUP_CAP.
Remember(m) ==
  LET all == Append(seen, m) IN
  \/ /\ Len(all) <= Cap
     /\ seen' = all
     /\ UNCHANGED lost
  \/ /\ Len(all) > Cap
     /\ seen' = Tail(all)
     /\ lost' = lost \cup {Head(all)}

\* When the thread cannot be started the message is not handled, and stays remembered.
Start(m) ==
  \/ /\ running' = running \cup {m}
     /\ runs' = [runs EXCEPT ![m] = @ + 1]
  \/ "thread" \in Hazards /\ UNCHANGED <<running, runs>>

\* Feishu delivers a message, perhaps again.  A new one is remembered before anything is done with
\* it, then it is refused (the user is told to come back), or a query is started, or a voice
\* message is transcribed.
Deliver(m) ==
  /\ main = "up"
  /\ sends < MaxSends
  /\ sends' = sends + 1
  /\ \/ /\ m \in InSeq(seen)
        /\ UNCHANGED <<main, clip, running, runs, dedupVars>>
     \/ /\ m \notin InSeq(seen)
        /\ Remember(m)
        /\ timer' = {"save"}
        /\ \/ /\ stopping # {}
              /\ UNCHANGED <<main, clip, running, runs>>
           \/ /\ stopping = {} /\ m \notin Voices
              /\ Start(m)
              /\ UNCHANGED <<main, clip>>
           \/ /\ stopping = {} /\ m \in Voices
              /\ main' = "transcribe" /\ clip' = m
              /\ UNCHANGED <<running, runs>>
        /\ UNCHANGED saved
  /\ UNCHANGED <<stopping, manager, upgradeVars, buffer, armed, waiting, texts,
                 unheard>>

QueryEnds(m) ==
  /\ m \in running
  /\ running' = running \ {m}
  /\ UNCHANGED <<processVars, manager, upgradeVars, dedupVars, runs, sends, voiceVars>>

SaveDedup ==                \* _save_to_disk of the timer
  /\ Alive
  /\ timer # {}
  /\ timer' = {}
  /\ saved' = seen
  /\ UNCHANGED <<processVars, manager, upgradeVars, seen, lost, queryVars, voiceVars>>

----------------------------------------------------------------------------
(* Voice messages: the end of the branch in handle_message, and merge.py   *)

\* _flush_locked: a timer that has not fired is cancelled, and the batch, which is out of the buffer
\* by then, becomes one query, in the name of its first message; or nothing at all when its thread
\* cannot be started.
Flush(batch) ==
  /\ buffer' = <<>> /\ armed' = {}
  /\ \/ /\ running' = IF batch = <<>> THEN running ELSE running \cup {Head(batch)}
        /\ runs' = [m \in Messages |-> IF m \in InSeq(batch) THEN runs[m] + 1 ELSE runs[m]]
        /\ UNCHANGED unheard
     \/ /\ "thread" \in Hazards
        /\ unheard' = unheard \cup InSeq(batch)
        /\ UNCHANGED <<running, runs>>

\* mutant: the timer before is cancelled, and one is started for the first message only.
AddVoiceArmsFirst(m) ==
  \/ /\ Len(buffer) + 1 >= MaxMerge
     /\ Flush(Append(buffer, m))
  \/ /\ Len(buffer) + 1 < MaxMerge
     /\ buffer' = Append(buffer, m)
     /\ armed' = IF buffer = <<>> THEN {"timer"} ELSE {}
     /\ UNCHANGED <<running, runs, unheard>>

\* add_voice: a full batch is flushed at once, else the timer is started anew.  One that cannot be
\* started is left in _timers, and the batch waits for the next message, which cancels it.
AddVoice(m) ==
  \/ /\ Len(buffer) + 1 >= MaxMerge
     /\ Flush(Append(buffer, m))
  \/ /\ Len(buffer) + 1 < MaxMerge
     /\ buffer' = Append(buffer, m)
     /\ armed' = {"timer"} \/ ("thread" \in Hazards /\ armed' = {"dead"})
     /\ UNCHANGED <<running, runs, unheard>>

\* The text is there.  It is not asked again whether the process is to stop.
Heard ==
  /\ main = "transcribe"
  /\ main' = "up" /\ clip' = Nobody
  /\ AddVoice(clip)
  /\ texts' = texts \cup {clip}
  /\ UNCHANGED <<stopping, manager, upgradeVars, dedupVars, sends, waiting>>

\* Too long, no download, no text: the user is told.
NotHeard ==
  /\ main = "transcribe"
  /\ main' = "up" /\ clip' = Nobody
  /\ UNCHANGED <<stopping, manager, upgradeVars, dedupVars, queryVars, buffer, armed,
                 waiting, texts, unheard>>

\* The window of the timer is over.  From here on it cannot be cancelled.
TimerFires ==
  /\ "timer" \in armed
  /\ armed' = {}
  /\ waiting' = waiting + 1
  /\ UNCHANGED <<processVars, manager, upgradeVars, dedupVars, queryVars, clip, buffer, texts,
                 unheard>>

\* _on_timer has _meta.  It flushes what there is by now, which a later message may have begun.
OnTimer ==
  /\ waiting > 0
  /\ waiting' = waiting - 1
  /\ Flush(buffer)
  /\ UNCHANGED <<processVars, manager, upgradeVars, dedupVars, sends, clip, texts>>

----------------------------------------------------------------------------
(* The end of the process                                                  *)

\* mutant: the next process starts with an empty table.
NewTableEmpty ==
  /\ seen' = <<>> /\ timer' = {}
  /\ lost' = lost \cup (InSeq(seen) \ InSeq(saved))

\* The next process loads the table from disk when it handles its first message, without the
\* entries that are too old by then; the oldest come first.
NewTable ==
  /\ \E old \in 0..Len(saved) :
       /\ old > 0 => "age" \in Hazards
       /\ seen' = SubSeq(saved, old + 1, Len(saved))
  /\ timer' = {}
  /\ lost' = lost \cup (InSeq(seen) \ InSeq(seen'))

\* Whatever ends the process takes its threads with it.
ThreadsEnd ==
  /\ stopping' = {}
  /\ upgrade' = [u \in Upgrades |-> IF upgrade[u] = "new" THEN "new" ELSE "over"]
  /\ NewTable
  /\ running' = {}
  /\ clip' = Nobody /\ buffer' = <<>> /\ armed' = {} /\ waiting' = 0
  /\ unheard' = unheard \cup InSeq(buffer)
  /\ UNCHANGED <<manager, saved, runs, sends, notices, texts>>

Sigterm ==                  \* of an operator, or of the memory watchdog
  /\ Alive
  /\ stopping = {}
  /\ stopping' = {"flag"}
  /\ UNCHANGED <<main, manager, upgradeVars, dedupVars, queryVars, voiceVars>>

\* The loop polls the flag; main comes out of it and the shutdown sequence saves the table.
LeaveLoop ==
  /\ main = "up"
  /\ stopping # {}
  /\ main' = "drain"
  /\ saved' = seen
  /\ UNCHANGED <<stopping, manager, upgradeVars, seen, timer, lost, queryVars, voiceVars>>

\* mutant: without the minute.
MainReturnsIdle ==
  /\ main = "drain" /\ running = {}
  /\ main' = "exited"
  /\ ThreadsEnd
  /\ UNCHANGED marker

\* wait_for_idle returns, at the latest after a minute, and main two seconds later.
MainReturns ==
  /\ main = "drain"
  /\ main' = "exited"
  /\ ThreadsEnd
  /\ UNCHANGED marker

Crash ==
  /\ Alive
  /\ main' = "failed"
  /\ ThreadsEnd
  /\ UNCHANGED marker

\* mutant: the marker is deleted after the card was sent.
StartUpKeeps ==
  /\ main' = IF marker = 1 THEN "notice" ELSE "up"
  /\ UNCHANGED marker

\* main: the lock is free again, the state is loaded, and if there is a marker it is deleted
\* before the card is sent.
StartUp ==
  /\ main' = IF marker = 1 THEN "notice" ELSE "up"
  /\ marker' = 0

Restart ==
  /\ main = "failed" \/ (main = "exited" /\ manager = "always")
  /\ StartUp
  /\ UNCHANGED <<stopping, manager, upgrade, notices, dedupVars, queryVars, voiceVars>>

\* _post_init_notify; the card may fail, and is not sent when the marker is older than 300 s.
Notify ==
  /\ main = "notice"
  /\ main' = "up"
  /\ notices' \in {notices, notices + 1}
  /\ UNCHANGED <<stopping, manager, upgrade, marker, dedupVars, queryVars, voiceVars>>

----------------------------------------------------------------------------
(* /upgrade: nothing keeps two of them apart                               *)

UpgradeStep(u, from, to) ==
  /\ upgrade[u] = from
  /\ upgrade' = [upgrade EXCEPT ![u] = to]
  /\ UNCHANGED <<main, manager, notices, dedupVars, queryVars, voiceVars>>

\* handle_message has asked before whether the process is to stop.
UpgradeBegins(u) ==
  /\ main = "up"
  /\ stopping = {}
  /\ UpgradeStep(u, "new", "prepare")
  /\ UNCHANGED <<stopping, marker>>

\* git, pip and the import of the new code: a failure, or nothing new, ends it.
UpgradeGivesUp(u) == UpgradeStep(u, "prepare", "over") /\ UNCHANGED <<stopping, marker>>

UpgradeStops(u) ==          \* set_shutting_down
  /\ UpgradeStep(u, "prepare", "wait")
  /\ stopping' = {"flag"}
  /\ UNCHANGED marker

\* After wait_for_idle and the notices to busy chats; a card and a second for it to arrive follow.
\* The write may fail; a marker that is there already is replaced.
UpgradeMarks(u) ==
  /\ UpgradeStep(u, "wait", "exec")
  /\ marker' \in {marker, 1}
  /\ UNCHANGED stopping

\* os.execv replaces the process and waits neither for the main thread nor for another upgrade.
Exec(u) ==
  /\ upgrade[u] = "exec"
  /\ ThreadsEnd
  /\ StartUp

\* sys.exit in this thread ends only the thread.
ExecFails(u) == UpgradeStep(u, "exec", "over") /\ UNCHANGED <<stopping, marker>>

----------------------------------------------------------------------------
Upgrade(u) ==
  UpgradeGivesUp(u) \/ UpgradeStops(u) \/ UpgradeMarks(u) \/ Exec(u) \/ ExecFails(u)

MainThread == Heard \/ NotHeard \/ LeaveLoop \/ MainReturns \/ Notify

VoiceTimer == TimerFires \/ OnTimer

Next ==
  \/ \E m \in Messages : Deliver(m) \/ QueryEnds(m)
  \/ VoiceTimer \/ SaveDedup \/ Sigterm \/ MainThread \/ Crash \/ Restart
  \/ \E u \in Upgrades : UpgradeBegins(u) \/ Upgrade(u)

\* The main thread is scheduled, its waits are bounded, and the recogniser returns: nothing limits a
\* transcription here.  No other thread is needed for the process to end.
Fairness == WF_vars(MainThread)

Spec == Init /\ [][Next]_vars /\ Fairness

----------------------------------------------------------------------------
(* Properties                                                              *)

\* A message starts a second query only after the full table evicted it, or after the process
\* ended without saving it, by a crash or by the execv of an upgrade that came first, or after it
\* was dropped for its age: one that was ever taken, also by a process before this one, stays in
\* the table.
HandledOnce ==
  \A m \in Messages \ lost : runs[m] + (IF m \in InSeq(seen) THEN 0 ELSE 1) <= 1

\* The upgrades that have written their marker, or are over without one.
Spent == {u \in Upgrades : upgrade[u] \in {"exec", "over"}}

\* However the process crashes and restarts and two upgrades overtake each other, each of them is
\* announced as complete at most once, and none that is not through.
NoticeOnce == notices + marker + (IF main = "notice" THEN 1 ELSE 0) <= Cardinality(Spent)

\* Once the flag is set the process ends or is replaced, whichever thread comes first and however
\* long the queries take.
StopsInTheEnd == stopping # {} ~> stopping = {}

\* A voice message that was transcribed is handed to a query or waits in the buffer, unless the
\* process ended while it waited or the thread of its batch could not be started; and while one
\* waits a timer runs or has fired, whatever timers were cancelled or came late: it does not wait for
\* ever, unless the timer of the message that came last could not be started.
VoiceIsHeard ==
  /\ \A m \in texts : m \in InSeq(buffer) \/ runs[m] > 0 \/ m \in unheard
  /\ buffer # <<>> => "timer" \in armed \/ waiting > 0 \/ armed = {"dead"}

=============================================================================
