------------------------------ MODULE ChatStore ------------------------------
(***************************************************************************)
(* What the bridge remembers of a chat and what it does by the clock:      *)
(* the state of the chats with its debounced save (chat_state.py), the     *)
(* commands that change it, the cron scheduler and the watcher of the      *)
(* background tasks (bridge.py, bg_runner.py).  Commands, the save timer,  *)
(* the scheduler, the watcher and the processes that start tasks run       *)
(* concurrently; the bridge may be stopped or crash and is started again.  *)
(***************************************************************************)
EXTENDS Integers

CONSTANTS
  Crons,     \* ids of scheduled jobs
  Tasks,     \* ids of background tasks
  Phases,    \* when, before the slot, the first tick may come
  Late,      \* bound on how much longer than a minute a tick may come after the one before
  MaxEdits,  \* bound on the changes by commands
  MaxStops,  \* bound on the stops and crashes of the bridge
  MaxStuck,  \* bound on how often the descriptor of a task cannot be removed
  Hazards    \* what may go wrong: see HazardKinds

HazardKinds == {"disk",     \* a file cannot be written or removed
                "thread",   \* a thread cannot be started
                "pid"}      \* the pid of a task that has ended is that of a process

\* The times of _process_cron_tick in units of 5 seconds: the scheduler sleeps for 60, a slot is
\* due for 65, and a job rests for 50 after it was fired.  The slot of the jobs is at 0.
Sleep  == 12
Window == 13
Rest   == 10
Never  == -100              \* before any time of the model
End    == Window + Sleep    \* no tick begins after it

ASSUME ChatStoreAssumption ==
  /\ Phases \subseteq -Sleep..-1 /\ Late \in Nat
  /\ MaxEdits \in Nat /\ MaxStops \in Nat /\ MaxStuck \in Nat
  /\ Hazards \subseteq HazardKinds

VARIABLES
  bridge,    \* "up" or "down"
  memory,    \* _chat_state_store: the state of each job in the field "crons", and the settings
  disk,      \* state.json
  timer,     \* {"save"} while the save timer runs
  unsaved,   \* history: {"failed"} when the last save failed
  wanted,    \* history: the jobs the user wants, as far as a restart did not forget them
  clock,     \* when the last tick of the scheduler began
  tick,      \* the jobs in the copy of the field that the tick has not looked at yet
  result,    \* for each job, what the tick is about to persist
  fired,     \* _last_fired
  runs,      \* history: how often each job was started since it was due
  kept,      \* history: the jobs that were there ever since before they were due, without a stop
             \* of the bridge or a failure to start them
  file,      \* the descriptor of each task: "none", "torn" while it is written, or "written"
  process,   \* the process of each task: "none", "runs", "ended", or "reused" when it has ended and
             \* its pid is that of another process, or of a zombie that nobody has waited for
  scan,      \* the tasks in the copy of the watcher that it has not looked at yet
  ending,    \* tasks whose end is about to be reported, after remove_task
  reports,   \* history: how often the end of each task was reported
  stuck,     \* history: how often the descriptor of each task could not be removed
  hurt,      \* history: tasks whose report was lost to a stop or to a failing thread, or whose
             \* descriptor was left unreadable by a stop or a failing write
  edits, stops

storeVars == <<memory, disk, timer, unsaved>>
cronVars  == <<clock, tick, result, fired, runs>>
taskVars  == <<file, process, scan, ending, reports, stuck, hurt>>
vars == <<bridge, storeVars, wanted, kept, cronVars, taskVars, edits, stops>>

----------------------------------------------------------------------------
Stores == [jobs : [Crons -> {"absent", "new", "ok", "error"}], settings : Nat]
Jobs(store) == {c \in Crons : store.jobs[c] # "absent"}

TypeOK ==
  /\ bridge \in {"up", "down"}
  /\ memory \in Stores /\ disk \in Stores
  /\ timer \in SUBSET {"save"} /\ unsaved \in SUBSET {"failed"}
  /\ wanted \in SUBSET Crons /\ kept \in SUBSET Crons
  /\ clock \in Int
  /\ tick \in SUBSET Crons
  /\ result \in [Crons -> {"none", "ok", "error"}]
  /\ fired \in [Crons -> Int] /\ runs \in [Crons -> Nat]
  /\ file \in [Tasks -> {"none", "torn", "written"}]
  /\ process \in [Tasks -> {"none", "runs", "ended", "reused"}]
  /\ scan \in SUBSET Tasks /\ ending \in SUBSET Tasks /\ hurt \in SUBSET Tasks
  /\ reports \in [Tasks -> Nat] /\ stuck \in [Tasks -> Nat]
  /\ \A t \in ending : file[t] = "none" \/ (file[t] = "written" /\ stuck[t] > 0)
  /\ edits \in 0..MaxEdits /\ stops \in 0..MaxStops

Init ==
  /\ bridge = "up"
  /\ memory \in [jobs : [Crons -> {"absent", "new"}], settings : {0}]
  /\ disk = memory
  /\ timer = {} /\ unsaved = {}
  /\ wanted = Jobs(memory) /\ kept = Jobs(memory)
  /\ clock \in Phases
  /\ tick = {} /\ result = [c \in Crons |-> "none"]
  /\ fired = [c \in Crons |-> Never] /\ runs = [c \in Crons |-> 0]
  /\ file = [t \in Tasks |-> "none"] /\ process = [t \in Tasks |-> "none"]
  /\ scan = {} /\ ending = {} /\ hurt = {}
  /\ reports = [t \in Tasks |-> 0] /\ stuck = [t \in Tasks |-> 0]
  /\ edits = 0 /\ stops = 0

----------------------------------------------------------------------------
(* The store and the commands                                              *)

\* mutant: a change that does not schedule a save.
SetFieldOnly(new) == memory' = new /\ UNCHANGED <<disk, timer, unsaved>>

\* _set_chat_field and _schedule_save, which starts the timer again.
SetField(new) == memory' = new /\ timer' = {"save"} /\ UNCHANGED <<disk, unsaved>>

Edit ==
  /\ bridge = "up"
  /\ edits < MaxEdits
  /\ edits' = edits + 1
  /\ UNCHANGED <<bridge, cronVars, taskVars, stops>>

\* /cd, /lock, /voice, /effort, /lang, /rename: one field is set.
SetSetting ==
  /\ Edit
  /\ SetField([memory EXCEPT !.settings = @ + 1])
  /\ UNCHANGED <<wanted, kept>>

\* /cron add and /cron del read, change and set the field under _cron_lock.
AddCron(c) ==
  /\ Edit
  /\ memory.jobs[c] = "absent"
  /\ SetField([memory EXCEPT !.jobs[c] = "new"])
  /\ wanted' = wanted \cup {c}
  /\ UNCHANGED kept

DeleteCron(c) ==
  /\ Edit
  /\ memory.jobs[c] # "absent"
  /\ SetField([memory EXCEPT !.jobs[c] = "absent"])
  /\ wanted' = wanted \ {c} /\ kept' = kept \ {c}

\* _save_state; a failure is logged and not repeated.
Save ==
  /\ bridge = "up"
  /\ timer # {}
  /\ timer' = {}
  /\ \/ disk' = memory /\ unsaved' = {}
     \/ "disk" \in Hazards /\ unsaved' = {"failed"} /\ UNCHANGED disk
  /\ UNCHANGED <<bridge, memory, wanted, kept, cronVars, taskVars, edits, stops>>

----------------------------------------------------------------------------
(* The cron scheduler                                                      *)

\* The first tick comes when the bridge starts, the next ones a minute after the end of the one
\* before, which takes some time itself.
TickBegins ==
  /\ bridge = "up"
  /\ tick = {} /\ \A c \in Crons : result[c] = "none"
  /\ \E late \in 0..Late : clock' = clock + Sleep + late
  /\ clock' <= End
  /\ tick' = Jobs(memory)
  /\ UNCHANGED <<bridge, storeVars, wanted, kept, result, fired, runs, taskVars, edits, stops>>

\* mutant: a job that was fired in this window rests as long as the window.
DueRested(c) == clock >= 0 /\ clock < Window - Sleep

Due(c) == clock >= 0 /\ clock < Window /\ clock - fired[c] > Rest

NotDue(c) ==
  /\ c \in tick
  /\ ~Due(c)
  /\ tick' = tick \ {c}
  /\ UNCHANGED <<bridge, storeVars, wanted, kept, clock, result, fired, runs, taskVars, edits,
                 stops>>

\* The time is recorded before the thread is started; a job that was deleted after the tick took
\* its copy is started all the same.
Fire(c) ==
  /\ c \in tick
  /\ \A d \in Crons : result[d] = "none"
  /\ Due(c)
  /\ tick' = tick \ {c}
  /\ fired' = [fired EXCEPT ![c] = clock]
  /\ \/ /\ runs' = [runs EXCEPT ![c] = @ + 1]
        /\ result' = [result EXCEPT ![c] = "ok"]
        /\ UNCHANGED kept
     \/ /\ "thread" \in Hazards
        /\ result' = [result EXCEPT ![c] = "error"]
        /\ kept' = kept \ {c}
        /\ UNCHANGED runs
  /\ UNCHANGED <<bridge, storeVars, wanted, clock, taskVars, edits, stops>>

\* mutant: the result is set without looking whether the job is still there.
PersistAlways(c) ==
  /\ result[c] # "none"
  /\ SetField([memory EXCEPT !.jobs[c] = result[c]])
  /\ result' = [result EXCEPT ![c] = "none"]
  /\ UNCHANGED <<bridge, wanted, kept, clock, tick, fired, runs, taskVars, edits, stops>>

\* _persist_cron_result reads the field again, under _cron_lock.
Persist(c) ==
  /\ result[c] # "none"
  /\ result' = [result EXCEPT ![c] = "none"]
  /\ \/ memory.jobs[c] # "absent" /\ SetField([memory EXCEPT !.jobs[c] = result[c]])
     \/ memory.jobs[c] = "absent" /\ UNCHANGED storeVars
  /\ UNCHANGED <<bridge, wanted, kept, clock, tick, fired, runs, taskVars, edits, stops>>

----------------------------------------------------------------------------
(* Background tasks                                                        *)

Others == <<bridge, storeVars, wanted, kept, cronVars, edits, stops>>

\* start_bg_task, in the process of the MCP server: the process is started first, the descriptor
\* is written next and not at once.
Launch(t) ==
  /\ process[t] = "none"
  /\ process' = [process EXCEPT ![t] = "runs"]
  /\ UNCHANGED <<Others, file, scan, ending, reports, stuck, hurt>>

WriteBegins(t) ==
  /\ process[t] # "none" /\ file[t] = "none"
  /\ reports[t] = 0 /\ t \notin ending \cup hurt
  /\ file' = [file EXCEPT ![t] = "torn"]
  /\ UNCHANGED <<Others, process, scan, ending, reports, stuck, hurt>>

WriteEnds(t) ==
  /\ file[t] = "torn" /\ t \notin scan \cup hurt
  /\ file' = [file EXCEPT ![t] = "written"]
  /\ UNCHANGED <<Others, process, scan, ending, reports, stuck, hurt>>

\* Once it has ended, its pid may come to be that of another process, and be free again.
ProcessEnds(t) ==
  /\ \/ process[t] \in {"runs", "reused"} /\ process' = [process EXCEPT ![t] = "ended"]
     \/ /\ "pid" \in Hazards /\ process[t] = "ended"
        /\ process' = [process EXCEPT ![t] = "reused"]
  /\ UNCHANGED <<Others, file, scan, ending, reports, stuck, hurt>>

PidAlive(t) == process[t] \in {"runs", "reused"}

\* load_active_tasks skips what it cannot parse.
ScanBegins ==
  /\ bridge = "up"
  /\ scan = {} /\ ending = {}
  /\ scan' = {t \in Tasks : file[t] = "written"}
  /\ UNCHANGED <<Others, file, process, ending, reports, stuck, hurt>>

CheckNotDue(t) ==
  /\ t \in scan /\ file[t] = "written" /\ ending = {}
  /\ PidAlive(t)
  /\ scan' = scan \ {t}
  /\ UNCHANGED <<Others, file, process, ending, reports, stuck, hurt>>

\* update_last_check writes the descriptor again, in two steps as above; the report of the
\* progress is a query like any other, and is left out.
CheckBegins(t) ==
  /\ t \in scan /\ file[t] = "written" /\ ending = {}
  /\ PidAlive(t)
  /\ file' = [file EXCEPT ![t] = "torn"]
  /\ UNCHANGED <<Others, process, scan, ending, reports, stuck, hurt>>

\* A write that fails is swallowed and leaves the descriptor torn; when the thread of the progress
\* report cannot be started the scan is given up.
CheckEnds(t) ==
  /\ t \in scan /\ file[t] = "torn"
  /\ \/ file' = [file EXCEPT ![t] = "written"] /\ UNCHANGED hurt
     \/ "disk" \in Hazards /\ hurt' = hurt \cup {t} /\ UNCHANGED file
  /\ \/ scan' = scan \ {t}
     \/ "thread" \in Hazards /\ scan' = {}
  /\ UNCHANGED <<Others, process, ending, reports, stuck>>

\* mutant: the descriptor is left to the next scan.
FinalKeeps(t) ==
  /\ t \in scan /\ file[t] = "written" /\ ending = {}
  /\ ~PidAlive(t)
  /\ ending' = {t}
  /\ UNCHANGED <<Others, file, process, scan, reports, stuck, hurt>>

\* mutant: the descriptor is removed and the task forgotten.
FinalSilent(t) ==
  /\ t \in scan /\ file[t] = "written" /\ ending = {}
  /\ ~PidAlive(t)
  /\ file' = [file EXCEPT ![t] = "none"]
  /\ scan' = scan \ {t}
  /\ UNCHANGED <<Others, process, ending, reports, stuck, hurt>>

\* remove_task, which swallows a failing unlink, then the thread that reports: it is started in
\* both cases.
Final(t) ==
  /\ t \in scan /\ file[t] = "written" /\ ending = {}
  /\ ~PidAlive(t)
  /\ ending' = {t}
  /\ \/ file' = [file EXCEPT ![t] = "none"] /\ UNCHANGED stuck
     \/ /\ "disk" \in Hazards /\ stuck[t] < MaxStuck
        /\ stuck' = [stuck EXCEPT ![t] = @ + 1]
        /\ UNCHANGED file
  /\ UNCHANGED <<Others, process, scan, reports, hurt>>

\* Those of a set that the next scan will not find.
Lost(S) == {t \in S : file[t] # "written"}

\* When the thread cannot be started the scan is given up.
Report(t) ==
  /\ t \in ending
  /\ ending' = {}
  /\ \/ /\ reports' = [reports EXCEPT ![t] = @ + 1]
        /\ scan' = scan \ {t}
        /\ UNCHANGED hurt
     \/ /\ "thread" \in Hazards
        /\ hurt' = hurt \cup Lost({t})
        /\ scan' = {}
        /\ UNCHANGED reports
  /\ UNCHANGED <<Others, file, process, stuck>>

----------------------------------------------------------------------------
(* The end of the process and the next one                                 *)

\* The shutdown sequence does not flush the pending save, so an orderly stop and a crash leave
\* the same behind: what is on disk.
Stop ==
  /\ bridge = "up"
  /\ stops < MaxStops
  /\ stops' = stops + 1
  /\ bridge' = "down"
  /\ timer' = {} /\ unsaved' = {}
  /\ tick' = {} /\ result' = [c \in Crons |-> "none"]
  /\ kept' = {}
  /\ scan' = {} /\ ending' = {}
  /\ hurt' = hurt \cup Lost(ending \cup scan)
  /\ UNCHANGED <<memory, disk, wanted, clock, fired, runs, file, process, reports, stuck, edits>>

\* _load_global_state; the first tick begins at once and knows no earlier one.
Restart ==
  /\ bridge = "down"
  /\ bridge' = "up"
  /\ memory' = disk
  /\ wanted' = Jobs(disk)
  /\ \E pause \in {1, Sleep} : clock' = clock + pause
  /\ tick' = IF clock' <= End THEN Jobs(disk) ELSE {}
  /\ fired' = [c \in Crons |-> Never]
  /\ UNCHANGED <<disk, timer, unsaved, kept, result, runs, taskVars, edits, stops>>

----------------------------------------------------------------------------
Commands  == SetSetting \/ \E c \in Crons : AddCron(c) \/ DeleteCron(c)
Scheduler == TickBegins \/ \E c \in Crons : NotDue(c) \/ Fire(c) \/ Persist(c)
Launcher  == \E t \in Tasks : Launch(t) \/ WriteBegins(t) \/ WriteEnds(t) \/ ProcessEnds(t)
Watcher   ==
  \/ ScanBegins
  \/ \E t \in Tasks : CheckNotDue(t) \/ CheckBegins(t) \/ CheckEnds(t) \/ Final(t) \/ Report(t)

Next == Commands \/ Save \/ Scheduler \/ Launcher \/ Watcher \/ Stop \/ Restart

\* The threads and the timer are scheduled, and the bridge is started again.
Fairness ==
  /\ WF_vars(Save) /\ WF_vars(Restart) /\ WF_vars(Watcher)
  /\ \A t \in Tasks : SF_vars(Final(t)) /\ WF_vars(Report(t))

Spec == Init /\ [][Next]_vars /\ Fairness

----------------------------------------------------------------------------
(* Properties                                                              *)

\* The jobs are those the user wants: no result of a run brings back a job that was deleted
\* meanwhile or loses one that was added, whatever copies the scheduler works on.
JobsAsWanted == bridge = "up" => Jobs(memory) = wanted

\* A job that is there when it is due is started in its slot, provided a tick takes less than five
\* seconds; and it is started at most twice, the second time when the first tick came in the first
\* five seconds of the slot.
SlotHonoured ==
  \A c \in kept :
    /\ runs[c] <= 2
    /\ (clock >= Window /\ tick = {}) => runs[c] >= 1

\* A change reaches the disk unless the bridge stops before or the save fails.
ChangesAreSaved == memory # disk ~> (memory = disk \/ bridge = "down" \/ unsaved # {})

\* What the bridge, or the next one, still knows of a task: its descriptor, or that its end is about
\* to be reported; or its end was reported, or the report has been lost to a stop or a failing thread.
Known(t) == file[t] # "none" \/ t \in ending \/ reports[t] > 0 \/ t \in hurt

\* No step forgets a task: its descriptor goes away only for its report, and the report only when it
\* was given, through stops and restarts at any point of the scan and of the writing of descriptors
\* (_start_bg_watcher, bg_runner.remove_task).
TasksKept == [][\A t \in Tasks : Known(t) => Known(t)']_vars

\* The end of a background task is reported, once and once more for each time its descriptor could not
\* be removed, also after a restart; unless the bridge stops or fails to start the thread between the
\* removal of the descriptor and the report, or the pid of the task is that of another process by then.
EndIsReported ==
  \A t \in Tasks :
    /\ [](reports[t] <= 1 + stuck[t])
    /\ (process[t] = "ended" /\ file[t] = "written") ~>
         (reports[t] > 0 \/ t \in hurt \/ process[t] = "reused")

=============================================================================
