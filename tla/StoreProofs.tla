----------------------------- MODULE StoreProofs -----------------------------
(***************************************************************************)
(* Proofs about what is kept from one query to the next: the state of a    *)
(* chat, its jobs and its tasks (ChatStore), for any jobs, tasks, phases   *)
(* and bounds, and the histories of the backends that are called over HTTP *)
(* (ApiCalls), for any calls, places and room.                             *)
(***************************************************************************)
EXTENDS ChatStore, ApiCalls, TLAPS, FiniteSetTheorems, SequenceTheorems

----------------------------------------------------------------------------
(* ChatStore: types                                                        *)

LEMMA InitTypes == Init => TypeOK
  BY ChatStoreAssumption
  DEF Init, TypeOK, Stores, Jobs, Sleep, Never

\* The field of a job, and a setting, can be set.
LEMMA StoresEdited ==
  ASSUME NEW store \in Stores, NEW c \in Crons, NEW state \in {"absent", "new", "ok", "error"}
  PROVE  [store EXCEPT !.jobs[c] = state] \in Stores
  BY DEF Stores

LEMMA CommandTypes ==
  ASSUME TypeOK, Commands
  PROVE  TypeOK'
<1> USE DEF Edit, SetField, cronVars, taskVars
<1>1. edits' \in 0..MaxEdits
  BY ChatStoreAssumption DEF Commands, SetSetting, AddCron, DeleteCron, TypeOK
<1>2. CASE SetSetting
  <2>1. memory' \in Stores
    BY <1>2 DEF SetSetting, TypeOK, Stores
  <2> QED
    BY <1>1, <1>2, <2>1 DEF SetSetting, TypeOK
<1>3. ASSUME NEW c \in Crons, AddCron(c)
      PROVE  TypeOK'
  <2>1. memory' \in Stores
    BY <1>3, StoresEdited DEF AddCron, TypeOK
  <2> QED
    BY <1>1, <1>3, <2>1 DEF AddCron, TypeOK
<1>4. ASSUME NEW c \in Crons, DeleteCron(c)
      PROVE  TypeOK'
  <2>1. memory' \in Stores
    BY <1>4, StoresEdited DEF DeleteCron, TypeOK
  <2> QED
    BY <1>1, <1>4, <2>1 DEF DeleteCron, TypeOK
<1> QED
  BY <1>2, <1>3, <1>4 DEF Commands

LEMMA SchedulerTypes ==
  ASSUME TypeOK, Scheduler
  PROVE  TypeOK'
<1> USE DEF storeVars, taskVars
<1>1. CASE TickBegins
  <2>1. clock' \in Int /\ tick' \in SUBSET Crons
    BY <1>1, ChatStoreAssumption DEF TickBegins, TypeOK, Sleep, Jobs
  <2> QED
    BY <1>1, <2>1 DEF TickBegins, TypeOK
<1>2. ASSUME NEW c \in Crons, NotDue(c)
      PROVE  TypeOK'
  BY <1>2 DEF NotDue, TypeOK
<1>3. ASSUME NEW c \in Crons, Fire(c)
      PROVE  TypeOK'
  BY <1>3 DEF Fire, TypeOK
<1>4. ASSUME NEW c \in Crons, Persist(c)
      PROVE  TypeOK'
  <2>1. result' \in [Crons -> {"none", "ok", "error"}] /\ result[c] \in {"ok", "error"}
    BY <1>4 DEF Persist, TypeOK
  <2>2. CASE SetField([memory EXCEPT !.jobs[c] = result[c]])
    <3>1. memory' \in Stores
      BY <2>1, <2>2, StoresEdited DEF SetField, TypeOK
    <3> QED
      BY <1>4, <2>1, <2>2, <3>1 DEF Persist, SetField, TypeOK
  <2>3. CASE UNCHANGED storeVars
    BY <1>4, <2>1, <2>3 DEF Persist, TypeOK
  <2> QED
    BY <1>4, <2>2, <2>3 DEF Persist
<1> QED
  BY <1>1, <1>2, <1>3, <1>4 DEF Scheduler

LEMMA TaskTypes ==
  ASSUME TypeOK, Launcher \/ Watcher
  PROVE  TypeOK'
<1> USE DEF Others, storeVars, cronVars, TypeOK
<1>1. CASE ScanBegins
  BY <1>1 DEF ScanBegins
<1>2. ASSUME NEW t \in Tasks,
             Launch(t) \/ WriteBegins(t) \/ WriteEnds(t) \/ ProcessEnds(t)
      PROVE  TypeOK'
  <2>1. CASE Launch(t) \/ ProcessEnds(t)
    BY <2>1 DEF Launch, ProcessEnds
  <2>2. CASE WriteBegins(t)
    BY <2>2 DEF WriteBegins
  <2>3. CASE WriteEnds(t)
    BY <2>3 DEF WriteEnds
  <2> QED
    BY <1>2, <2>1, <2>2, <2>3
<1>3. ASSUME NEW t \in Tasks, CheckNotDue(t) \/ CheckBegins(t)
      PROVE  TypeOK'
  BY <1>3 DEF CheckNotDue, CheckBegins
<1>4. ASSUME NEW t \in Tasks, CheckEnds(t)
      PROVE  TypeOK'
  <2>1. /\ file' \in [Tasks -> {"none", "torn", "written"}]
        /\ scan' \in SUBSET Tasks /\ hurt' \in SUBSET Tasks
        /\ UNCHANGED <<Others, process, ending, reports, stuck>>
    BY <1>4 DEF CheckEnds
  <2>2. \A u \in ending : u # t /\ file'[u] = file[u]
    BY <1>4 DEF CheckEnds
  <2> QED
    BY <2>1, <2>2
<1>5. ASSUME NEW t \in Tasks, Final(t)
      PROVE  TypeOK'
  <2>1. CASE file' = [file EXCEPT ![t] = "none"] /\ UNCHANGED stuck
    BY <1>5, <2>1 DEF Final
  <2>2. CASE stuck' = [stuck EXCEPT ![t] = @ + 1] /\ UNCHANGED file
    BY <1>5, <2>2 DEF Final
  <2> QED
    BY <1>5, <2>1, <2>2 DEF Final
<1>6. ASSUME NEW t \in Tasks, Report(t)
      PROVE  TypeOK'
  BY <1>6 DEF Report, Lost
<1> QED
  BY <1>1, <1>2, <1>3, <1>4, <1>5, <1>6 DEF Launcher, Watcher

LEMMA StoreTypeStep ==
  ASSUME TypeOK, [Next]_vars
  PROVE  TypeOK'
<1>1. CASE UNCHANGED vars
  BY <1>1 DEF vars, storeVars, cronVars, taskVars, TypeOK
<1>2. CASE Save
  BY <1>2 DEF Save, cronVars, taskVars, TypeOK
<1>3. CASE Stop
  BY <1>3, ChatStoreAssumption DEF Stop, Lost, TypeOK
<1>4. CASE Restart
  <2>1. clock' \in Int
    BY <1>4 DEF Restart, TypeOK, Sleep
  <2> QED
    BY <1>4, <2>1 DEF Restart, TypeOK, Jobs, taskVars, Never
<1> QED
  BY <1>1, <1>2, <1>3, <1>4, CommandTypes, SchedulerTypes, TaskTypes DEF Next

\* The types of ChatStore; a task whose end is about to be reported has a descriptor only if that could
\* not be removed: nothing else makes the next bridge report it again.
THEOREM StoreTypeSafe == Spec => []TypeOK
<1>1. TypeOK /\ [Next]_vars => TypeOK'
  BY StoreTypeStep
<1> QED
  BY <1>1, InitTypes, PTL DEF Spec

----------------------------------------------------------------------------
(* ChatStore: the jobs                                                     *)

\* A tick ends with the bridge, so nothing is persisted while it is down.
DownInv == bridge = "down" => tick = {} /\ \A c \in Crons : result[c] = "none"

LEMMA DownStep ==
  ASSUME TypeOK, DownInv, [Next]_vars
  PROVE  DownInv'
<1> USE DEF DownInv
<1>1. CASE Next
  <2>1. CASE Commands
    BY <2>1 DEF Commands, SetSetting, AddCron, DeleteCron, Edit, cronVars
  <2>2. CASE Scheduler
    <3>1. CASE TickBegins \/ \E c \in Crons : NotDue(c) \/ Fire(c)
      BY <3>1 DEF TickBegins, NotDue, Fire, TypeOK
    <3>2. ASSUME NEW c \in Crons, Persist(c)
          PROVE  DownInv'
      BY <3>2 DEF Persist, TypeOK
    <3> QED
      BY <2>2, <3>1, <3>2 DEF Scheduler
  <2>3. CASE Save \/ Launcher \/ Watcher
    BY <2>3 DEF Save, Launcher, Launch, WriteBegins, WriteEnds, ProcessEnds, Watcher, ScanBegins,
                CheckNotDue, CheckBegins, CheckEnds, Final, Report, Others, cronVars
  <2>4. CASE Stop \/ Restart
    BY <2>4 DEF Stop, Restart
  <2> QED
    BY <1>1, <2>1, <2>2, <2>3, <2>4 DEF Next
<1> QED
  BY <1>1 DEF vars, cronVars

\* The jobs after one of them is set.
LEMMA JobsEdited ==
  ASSUME NEW store \in Stores, NEW c \in Crons, NEW state \in {"absent", "new", "ok", "error"}
  PROVE  Jobs([store EXCEPT !.jobs[c] = state]) =
           IF state = "absent" THEN Jobs(store) \ {c} ELSE Jobs(store) \cup {c}
  BY DEF Jobs, Stores

LEMMA WantedStep ==
  ASSUME TypeOK, DownInv, JobsAsWanted, [Next]_vars
  PROVE  JobsAsWanted'
<1> USE DEF JobsAsWanted
<1>1. CASE SetSetting
  <2>1. memory'.jobs = memory.jobs
    BY <1>1 DEF SetSetting, SetField, TypeOK, Stores
  <2> QED
    BY <1>1, <2>1 DEF SetSetting, Edit, Jobs
<1>2. ASSUME NEW c \in Crons, AddCron(c)
      PROVE  JobsAsWanted'
  <2>1. Jobs(memory') = Jobs(memory) \cup {c}
    BY <1>2, JobsEdited DEF AddCron, SetField, TypeOK
  <2> QED
    BY <1>2, <2>1 DEF AddCron, Edit
<1>3. ASSUME NEW c \in Crons, DeleteCron(c)
      PROVE  JobsAsWanted'
  <2>1. Jobs(memory') = Jobs(memory) \ {c}
    BY <1>3, JobsEdited DEF DeleteCron, SetField, TypeOK
  <2> QED
    BY <1>3, <2>1 DEF DeleteCron, Edit
<1>4. ASSUME NEW c \in Crons, Persist(c)
      PROVE  JobsAsWanted'
  <2>1. CASE UNCHANGED storeVars
    BY <1>4, <2>1 DEF Persist, storeVars
  <2>2. CASE memory.jobs[c] # "absent" /\ SetField([memory EXCEPT !.jobs[c] = result[c]])
    <3>1. result[c] \in {"ok", "error"}
      BY <1>4 DEF Persist, TypeOK
    <3>2. Jobs(memory') = Jobs(memory) \cup {c} /\ c \in Jobs(memory)
      BY <2>2, <3>1, JobsEdited DEF SetField, TypeOK, Jobs
    <3> QED
      BY <1>4, <3>2 DEF Persist
  <2> QED
    BY <1>4, <2>1, <2>2 DEF Persist
<1>5. CASE TickBegins \/ \E c \in Crons : NotDue(c) \/ Fire(c)
  BY <1>5 DEF TickBegins, NotDue, Fire, storeVars
<1>6. CASE Save \/ Launcher \/ Watcher
  BY <1>6 DEF Save, Launcher, Launch, WriteBegins, WriteEnds, ProcessEnds, Watcher, ScanBegins,
              CheckNotDue, CheckBegins, CheckEnds, Final, Report, Others, storeVars
<1>7. CASE Stop \/ Restart
  BY <1>7 DEF Stop, Restart
<1>8. CASE UNCHANGED vars
  BY <1>8 DEF vars, storeVars
<1> QED
  BY <1>1, <1>2, <1>3, <1>4, <1>5, <1>6, <1>7, <1>8 DEF Next, Commands, Scheduler

\* No result of a run brings a deleted job back or loses one, for any jobs and any number of stops:
\* _persist_cron_result looks at the field again, and a result does not outlive the bridge.
THEOREM WantedSafe == Spec => []JobsAsWanted
<1>1. Init => DownInv /\ JobsAsWanted
  BY DEF Init, DownInv, JobsAsWanted
<1>2. TypeOK /\ DownInv /\ JobsAsWanted /\ [Next]_vars => (DownInv /\ JobsAsWanted)'
  BY DownStep, WantedStep
<1> QED
  BY <1>1, <1>2, StoreTypeSafe, PTL DEF Spec

----------------------------------------------------------------------------
(* ChatStore: the slot                                                     *)

\* A job that was there since before it was due: while the first tick that can see the slot is under
\* way it is started once, and again only by a tick that begins 12 units after the slot did.
SlotOf(c) ==
  /\ bridge = "up" /\ c \in Jobs(memory)
  /\ clock < 0 => clock >= -Sleep /\ tick = {} /\ runs[c] = 0 /\ fired[c] = Never
  /\ (clock >= 0 /\ clock < Sleep) =>
        \/ c \in tick /\ runs[c] = 0 /\ fired[c] = Never
        \/ c \notin tick /\ runs[c] = 1 /\ fired[c] = clock
  /\ clock = Sleep =>
        \/ c \in tick /\ runs[c] = 0 /\ fired[c] = Never
        \/ c \in tick /\ runs[c] = 1 /\ fired[c] = 0
        \/ c \notin tick /\ runs[c] \in 1..2
  /\ clock > Sleep => runs[c] \in 1..2

SlotInv == \A c \in kept : SlotOf(c)

\* The variables that a slot depends on, where the jobs stay.
LEMMA SlotStays ==
  ASSUME SlotInv, kept' \subseteq kept, UNCHANGED <<bridge, clock, tick, runs, fired>>,
         \A c \in kept' : c \in Jobs(memory) => c \in Jobs(memory')
  PROVE  SlotInv'
  BY DEF SlotInv, SlotOf

LEMMA FireStep ==
  ASSUME TypeOK, SlotInv, NEW d \in Crons, Fire(d)
  PROVE  SlotInv'
<1> SUFFICES ASSUME NEW c \in kept'
             PROVE  SlotOf(c)'
  BY DEF SlotInv
<1>1. /\ c \in kept /\ SlotOf(c) /\ c \in Crons
      /\ memory' = memory /\ bridge' = bridge /\ clock' = clock
      /\ tick' = tick \ {d}
      /\ d \in tick /\ clock >= 0 /\ clock < Window /\ clock - fired[d] > Rest
      /\ clock \in Int /\ runs[c] \in Nat
  BY DEF Fire, SlotInv, storeVars, TypeOK, Due
<1>2. CASE c = d
  <2>1. runs'[c] = runs[c] + 1 /\ fired'[c] = clock
    BY <1>1, <1>2 DEF Fire, TypeOK
  <2> QED
    BY <1>1, <1>2, <2>1 DEF SlotOf, Jobs, Sleep, Window, Rest, Never
<1>3. CASE c # d
  <2>1. runs'[c] = runs[c] /\ fired'[c] = fired[c]
    BY <1>1, <1>3 DEF Fire, TypeOK
  <2> QED
    BY <1>1, <1>3, <2>1 DEF SlotOf, Jobs
<1> QED
  BY <1>2, <1>3

LEMMA SlotStep ==
  ASSUME Late <= 1, TypeOK, SlotInv, [Next]_vars
  PROVE  SlotInv'
<1>1. CASE Commands
  <2>1. CASE SetSetting
    <3>1. memory'.jobs = memory.jobs
      BY <2>1 DEF SetSetting, SetField, TypeOK, Stores
    <3> QED
      BY <2>1, <3>1, SlotStays DEF SetSetting, Edit, cronVars, Jobs
  <2>2. ASSUME NEW c \in Crons, AddCron(c)
        PROVE  SlotInv'
    <3>1. Jobs(memory') = Jobs(memory) \cup {c}
      BY <2>2, JobsEdited DEF AddCron, SetField, TypeOK
    <3> QED
      BY <2>2, <3>1, SlotStays DEF AddCron, Edit, cronVars
  <2>3. ASSUME NEW c \in Crons, DeleteCron(c)
        PROVE  SlotInv'
    <3>1. Jobs(memory') = Jobs(memory) \ {c} /\ kept' = kept \ {c}
      BY <2>3, JobsEdited DEF DeleteCron, SetField, TypeOK
    <3> QED
      BY <2>3, <3>1, SlotStays DEF DeleteCron, Edit, cronVars
  <2> QED
    BY <1>1, <2>1, <2>2, <2>3 DEF Commands
<1>2. CASE TickBegins
  <2> SUFFICES ASSUME NEW c \in kept
               PROVE  SlotOf(c)'
    BY <1>2 DEF TickBegins, SlotInv
  <2>1. /\ SlotOf(c) /\ tick = {} /\ tick' = Jobs(memory)
        /\ UNCHANGED <<bridge, memory, runs, fired>>
        /\ clock \in Int /\ runs[c] \in Nat
    BY <1>2 DEF TickBegins, SlotInv, storeVars, TypeOK
  <2>2. clock' = clock + Sleep \/ clock' = clock + Sleep + 1
    <3>1. PICK late \in 0..Late : clock' = clock + Sleep + late
      BY <1>2 DEF TickBegins
    <3>2. late = 0 \/ late = 1
      BY <3>1, ChatStoreAssumption
    <3> QED
      BY <2>1, <3>1, <3>2 DEF Sleep
  <2>3. bridge' = "up" /\ c \in Jobs(memory') /\ c \in tick'
    BY <2>1 DEF SlotOf
  <2>4. CASE clock < 0
    <3>1. clock' \in 0..Sleep /\ runs'[c] = 0 /\ fired'[c] = Never
      BY <2>1, <2>2, <2>4 DEF SlotOf, Sleep
    <3> QED
      BY <2>3, <3>1 DEF SlotOf, Sleep
  <2>5. CASE clock >= 0 /\ clock < Sleep
    <3>1. runs'[c] = 1 /\ clock' >= Sleep /\ clock' \in Int /\ (clock' = Sleep => fired'[c] = 0)
      BY <2>1, <2>2, <2>5 DEF SlotOf, Sleep
    <3> QED
      BY <2>3, <3>1 DEF SlotOf, Sleep
  <2>6. CASE clock >= Sleep
    <3>1. runs'[c] \in 1..2 /\ clock' > Sleep /\ clock' \in Int
      BY <2>1, <2>2, <2>6 DEF SlotOf, Sleep
    <3> QED
      BY <2>3, <3>1 DEF SlotOf, Sleep
  <2> QED
    BY <2>1, <2>4, <2>5, <2>6 DEF Sleep
<1>3. ASSUME NEW d \in Crons, NotDue(d)
      PROVE  SlotInv'
  <2> SUFFICES ASSUME NEW c \in kept
               PROVE  SlotOf(c)'
    BY <1>3 DEF NotDue, SlotInv
  <2>1. /\ SlotOf(c) /\ tick' = tick \ {d} /\ d \in tick
        /\ UNCHANGED <<bridge, memory, runs, fired, clock>>
        /\ ~(clock >= 0 /\ clock < Window /\ clock - fired[d] > Rest)
        /\ clock \in Int /\ runs[c] \in Nat
    BY <1>3 DEF NotDue, SlotInv, storeVars, TypeOK, Due
  <2> QED
    BY <2>1 DEF SlotOf, Jobs, Sleep, Window, Rest, Never
<1>4. ASSUME NEW d \in Crons, Persist(d)
      PROVE  SlotInv'
  <2>1. CASE UNCHANGED storeVars
    BY <1>4, <2>1, SlotStays DEF Persist, storeVars
  <2>2. CASE memory.jobs[d] # "absent" /\ SetField([memory EXCEPT !.jobs[d] = result[d]])
    <3>1. result[d] \in {"ok", "error"}
      BY <1>4 DEF Persist, TypeOK
    <3>2. Jobs(memory') = Jobs(memory) \cup {d}
      BY <2>2, <3>1, JobsEdited DEF SetField, TypeOK
    <3> QED
      BY <1>4, <3>2, SlotStays DEF Persist
  <2> QED
    BY <1>4, <2>1, <2>2 DEF Persist
<1>5. CASE Save \/ Launcher \/ Watcher
  <2>1. UNCHANGED <<bridge, memory, kept, clock, tick, runs, fired>>
    BY <1>5 DEF Save, Launcher, Launch, WriteBegins, WriteEnds, ProcessEnds, Watcher, ScanBegins,
                CheckNotDue, CheckBegins, CheckEnds, Final, Report, Others, storeVars, cronVars
  <2> QED
    BY <2>1, SlotStays
<1>6. CASE Stop
  BY <1>6 DEF Stop, SlotInv
<1>7. CASE Restart
  BY <1>7 DEF Restart, SlotInv, SlotOf
<1>8. CASE UNCHANGED vars
  BY <1>8, SlotStays DEF vars, storeVars, cronVars
<1> QED
  BY <1>1, <1>2, <1>3, <1>4, <1>5, <1>6, <1>7, <1>8, FireStep DEF Next, Scheduler

\* A job that is there when it is due is started in its slot and at most twice, for any jobs and
\* whenever the first tick comes, if a tick is never late by more than one unit, that is, five
\* seconds: the slot is one unit longer than the sleep of the scheduler.
THEOREM SlotSafe == Late <= 1 => (Spec => []SlotHonoured)
<1> SUFFICES ASSUME Late <= 1
             PROVE  Spec => []SlotHonoured
  OBVIOUS
<1>1. Init => SlotInv
  <2> SUFFICES ASSUME Init, NEW c \in kept
               PROVE  SlotOf(c)
    BY DEF SlotInv
  <2>1. c \in Jobs(memory) /\ c \in Crons
    BY DEF Init, Jobs
  <2>2. clock \in -Sleep..-1
    BY ChatStoreAssumption DEF Init
  <2>3. bridge = "up" /\ tick = {} /\ runs[c] = 0 /\ fired[c] = Never
    BY <2>1 DEF Init
  <2> QED
    BY <2>1, <2>2, <2>3 DEF SlotOf, Sleep
<1>2. TypeOK /\ SlotInv /\ [Next]_vars => SlotInv'
  BY SlotStep
<1>3. TypeOK /\ SlotInv => SlotHonoured
  BY DEF SlotInv, SlotOf, SlotHonoured, TypeOK, Sleep, Window
<1> QED
  BY <1>1, <1>2, <1>3, StoreTypeSafe, PTL DEF Spec

----------------------------------------------------------------------------
(* ChatStore: the end of a task                                            *)

\* There is one report for the descriptor and one more for each time that it could not be removed:
\* what is still on disk, and what is about to be reported, have not had theirs.
ReportInv ==
  \A t \in Tasks :
    /\ reports[t] <= 1 + stuck[t]
    /\ file[t] # "none" \/ t \in ending => reports[t] <= stuck[t]
    /\ file[t] # "none" /\ t \in ending => reports[t] < stuck[t]

LEMMA ReportStep ==
  ASSUME TypeOK, ReportInv, [Next]_vars
  PROVE  ReportInv'
<1>1. CASE Launcher
  BY <1>1 DEF Launcher, Launch, WriteBegins, WriteEnds, ProcessEnds, ReportInv, TypeOK
<1>2. CASE Watcher
  <2>1. CASE ScanBegins
    BY <2>1 DEF ScanBegins, ReportInv
  <2>2. ASSUME NEW t \in Tasks, CheckNotDue(t) \/ CheckBegins(t) \/ CheckEnds(t) \/ Final(t)
        PROVE  ReportInv'
    BY <2>2 DEF CheckNotDue, CheckBegins, CheckEnds, Final, ReportInv, TypeOK
  <2>3. ASSUME NEW t \in Tasks, Report(t)
        PROVE  ReportInv'
    BY <2>3 DEF Report, ReportInv, TypeOK
  <2> QED
    BY <1>2, <2>1, <2>2, <2>3 DEF Watcher
<1>3. CASE Stop
  BY <1>3 DEF Stop, ReportInv
<1>4. CASE Commands \/ Save \/ Scheduler \/ Restart \/ UNCHANGED vars
  <2>1. UNCHANGED <<reports, file, ending, stuck>>
    BY <1>4 DEF Commands, SetSetting, AddCron, DeleteCron, Edit, Save, Scheduler, TickBegins, NotDue,
                Fire, Persist, Restart, vars, taskVars
  <2> QED
    BY <2>1 DEF ReportInv
<1> QED
  BY <1>1, <1>2, <1>3, <1>4 DEF Next

\* The first half of EndIsReported: the end of a task is reported at most once and once more for each
\* time its descriptor could not be removed, however often the bridge is stopped between the steps of
\* the watcher, for any tasks; with a disk that does not fail, at most once.
THEOREM ReportedOnce ==
  /\ Spec => [](\A t \in Tasks : reports[t] <= 1 + stuck[t])
  /\ "disk" \notin Hazards => (Spec => [](\A t \in Tasks : reports[t] <= 1))
<1> DEFINE Unstuck == "disk" \notin Hazards => \A t \in Tasks : stuck[t] = 0
<1>1. Init => ReportInv /\ Unstuck
  BY DEF Init, ReportInv
<1>2. TypeOK /\ ReportInv /\ [Next]_vars => ReportInv'
  BY ReportStep
<1>3. Unstuck /\ [Next]_vars => Unstuck'
  <2> SUFFICES ASSUME Unstuck, [Next]_vars, "disk" \notin Hazards
               PROVE  stuck' = stuck
    OBVIOUS
  <2> QED
    BY DEF Next, Commands, SetSetting, AddCron, DeleteCron, Edit, Save, Scheduler, TickBegins, NotDue,
           Fire, Persist, Restart, Stop, Launcher, Launch, WriteBegins, WriteEnds, ProcessEnds, Watcher,
           ScanBegins, CheckNotDue, CheckBegins, CheckEnds, Final, Report, vars, taskVars
<1>4. ReportInv => \A t \in Tasks : reports[t] <= 1 + stuck[t]
  BY DEF ReportInv
<1>5. "disk" \notin Hazards => (TypeOK /\ ReportInv /\ Unstuck => \A t \in Tasks : reports[t] <= 1)
  BY DEF ReportInv, TypeOK
<1>6. Spec => [](TypeOK /\ ReportInv /\ Unstuck)
  BY <1>1, <1>2, <1>3, StoreTypeSafe, PTL DEF Spec
<1>7. Spec => [](\A t \in Tasks : reports[t] <= 1 + stuck[t])
  BY <1>4, <1>6, PTL
<1>8. ASSUME "disk" \notin Hazards
      PROVE  Spec => [](\A t \in Tasks : reports[t] <= 1)
  <2>1. TypeOK /\ ReportInv /\ Unstuck => \A t \in Tasks : reports[t] <= 1
    BY <1>5, <1>8
  <2> QED
    BY <1>6, <2>1, PTL
<1> QED
  BY <1>7, <1>8

\* The watcher reports one end at a time.
EndingInv == \A t, u \in ending : t = u

LEMMA EndingStep ==
  ASSUME EndingInv, [Next]_vars
  PROVE  EndingInv'
<1>1. UNCHANGED ending \/ ending' = {} \/ \E t \in Tasks : ending' = {t}
  BY DEF Next, Commands, SetSetting, AddCron, DeleteCron, Edit, Save, Scheduler, TickBegins, NotDue,
         Fire, Persist, Restart, Stop, Launcher, Launch, WriteBegins, WriteEnds, ProcessEnds, Watcher,
         ScanBegins, CheckNotDue, CheckBegins, CheckEnds, Final, Report, vars, taskVars
<1> QED
  BY <1>1 DEF EndingInv

\* No step of the bridge, of a launcher or of the clock forgets a task, for any tasks and however
\* often the bridge is stopped: what is removed from the disk is about to be reported, and what is
\* about to be reported was reported, or is on disk still, or is counted as lost.
THEOREM KeptTasks == Spec => TasksKept
<1> USE DEF Known
<1>1. TypeOK /\ EndingInv /\ [Next]_vars => [\A t \in Tasks : Known(t) => Known(t)']_vars
  <2> SUFFICES ASSUME TypeOK, EndingInv, Next, NEW t \in Tasks, Known(t)
               PROVE  Known(t)'
    OBVIOUS
  <2>1. CASE Launcher
    BY <2>1 DEF Launcher, Launch, WriteBegins, WriteEnds, ProcessEnds, TypeOK
  <2>2. CASE ScanBegins
    BY <2>2 DEF ScanBegins
  <2>3. ASSUME NEW u \in Tasks, CheckNotDue(u) \/ CheckBegins(u) \/ CheckEnds(u)
        PROVE  Known(t)'
    BY <2>3 DEF CheckNotDue, CheckBegins, CheckEnds, TypeOK
  <2>4. ASSUME NEW u \in Tasks, Final(u)
        PROVE  Known(t)'
    BY <2>4 DEF Final, TypeOK
  <2>5. ASSUME NEW u \in Tasks, Report(u)
        PROVE  Known(t)'
    <3>1. CASE t = u
      BY <2>5, <3>1 DEF Report, Lost, TypeOK
    <3>2. CASE t # u
      <4>1. t \notin ending
        BY <2>5, <3>2 DEF Report, EndingInv
      <4> QED
        BY <2>5, <3>2, <4>1 DEF Report, TypeOK
    <3> QED
      BY <3>1, <3>2
  <2>6. CASE Stop
    BY <2>6 DEF Stop, Lost
  <2>7. CASE Commands \/ Save \/ Scheduler \/ Restart
    BY <2>7 DEF Commands, SetSetting, AddCron, DeleteCron, Edit, Save, Scheduler, TickBegins, NotDue,
                Fire, Persist, Restart, taskVars
  <2> QED
    BY <2>1, <2>2, <2>3, <2>4, <2>5, <2>6, <2>7 DEF Next, Watcher
<1>2. Init => EndingInv
  BY DEF Init, EndingInv
<1>3. EndingInv /\ [Next]_vars => EndingInv'
  BY EndingStep
<1> QED
  BY <1>1, <1>2, <1>3, StoreTypeSafe, PTL DEF Spec, TasksKept

----------------------------------------------------------------------------
(* ChatStore: the save timer                                               *)

\* A change that is not on disk has a timer that will save it, or is one whose save has failed.
SaveArmed == bridge = "up" /\ memory # disk => timer # {} \/ unsaved # {}

LEMMA SaveStep ==
  ASSUME SaveArmed, [Next]_vars
  PROVE  SaveArmed'
<1> USE DEF SaveArmed, storeVars
<1>1. CASE Commands
  <2>1. timer' = {"save"}
    BY <1>1 DEF Commands, SetSetting, AddCron, DeleteCron, SetField
  <2> QED
    BY <2>1
<1>2. CASE Scheduler
  <2>1. UNCHANGED <<bridge, storeVars>> \/ timer' = {"save"}
    BY <1>2 DEF Scheduler, TickBegins, NotDue, Fire, Persist, SetField
  <2> QED
    BY <2>1
<1>3. CASE Save
  BY <1>3 DEF Save
<1>4. CASE Launcher \/ Watcher
  BY <1>4 DEF Launcher, Launch, WriteBegins, WriteEnds, ProcessEnds, Watcher, ScanBegins, CheckNotDue,
              CheckBegins, CheckEnds, Final, Report, Others
<1>5. CASE Stop \/ Restart
  BY <1>5 DEF Stop, Restart
<1>6. CASE UNCHANGED vars
  BY <1>6 DEF vars
<1> QED
  BY <1>1, <1>2, <1>3, <1>4, <1>5, <1>6 DEF Next

\* What ChangesAreSaved rests on: at no time is a change in memory only with nothing that will write
\* it, unless its save has failed, for any jobs and commands, with the results of the scheduler in
\* between (_schedule_save, _save_state).
THEOREM ArmedSafe == Spec => []SaveArmed
<1>1. Init => SaveArmed
  BY DEF Init, SaveArmed
<1>2. SaveArmed /\ [Next]_vars => SaveArmed'
  BY SaveStep
<1> QED
  BY <1>1, <1>2, PTL DEF Spec

----------------------------------------------------------------------------
(* ApiCalls: types, and the places of the pool                             *)

\* Only a call of DeepSeek waits for a place, asks for attempts and loads the history again.
ModeInv ==
  \A q \in Queries :
    /\ pc[q] \in {"waiting", "build", "post", "reload"} => mode[q] = "append"
    /\ pc[q] = "load" => mode[q] = "whole"

\* The types without the count of the places.
FieldsOK ==
  /\ pc \in [Queries -> {"new", "load", "waiting", "done"} \cup Holding]
  /\ mode \in [Queries -> Modes]
  /\ base \in [Queries -> Seq(MessagesOf)]
  /\ text \in SUBSET Queries
  /\ tries \in [Queries -> 0..MaxTries]
  /\ cancel \in SUBSET Queries /\ flag \in SUBSET Queries
  /\ background \in SUBSET Queries /\ stalled \in SUBSET Queries
  /\ slots \in Nat
  /\ resets \in 0..MaxResets
  /\ hist \in [Modes -> Seq(MessagesOf)] /\ said \in [Modes -> Seq(MessagesOf)]
  /\ raced \in SUBSET Queries /\ torn \in SUBSET Modes

PlacesInv == FieldsOK /\ ModeInv /\ slots + Cardinality(Holders) = MaxProcs

LEMMA PlacesTyped == PlacesInv => ApiTypeOK
  BY DEF PlacesInv, FieldsOK, ApiTypeOK

LEMMA HoldersCount == IsFiniteSet(Holders) /\ Cardinality(Holders) \in Nat
<1>1. Holders \subseteq Queries
  BY DEF Holders
<1> QED
  BY <1>1, ApiCallsAssumption, FS_Subset, FS_CardinalityType

\* A call that goes on from one step to the next where it keeps its place, or has none.
Moves(q) ==
  \E next \in {"new", "load", "waiting", "done"} \cup Holding :
    /\ pc' = [pc EXCEPT ![q] = next]
    /\ next \in Holding <=> pc[q] \in Holding

LEMMA PlacesStay ==
  ASSUME PlacesInv, UNCHANGED <<mode, slots>>,
         UNCHANGED pc \/ \E q \in Queries : Moves(q),
         FieldsOK', ModeInv'
  PROVE  PlacesInv'
<1>1. Holders' = Holders
  BY DEF Holders, Moves, PlacesInv, FieldsOK
<1> QED
  BY <1>1 DEF PlacesInv

LEMMA TurnType ==
  ASSUME NEW q \in Queries
  PROVE  Turn(q) \in Seq(MessagesOf)
<1>1. <<q, "user">> \in MessagesOf /\ <<q, "assistant">> \in MessagesOf
  BY DEF MessagesOf
<1> QED
  BY <1>1 DEF Turn

LEMMA TrimType ==
  ASSUME NEW S, NEW s \in Seq(S), NEW n \in Nat \ {0}
  PROVE  Trim(s, n) \in Seq(S)
<1>1. Len(s) \in Nat /\ \A i \in 1..Len(s) : s[i] \in S
  BY LenProperties, ElementOfSeq
<1>2. CASE Len(s) <= n
  BY <1>1, <1>2, SubSeqProperties DEF Trim
<1>3. CASE ~(Len(s) <= n)
  <2>1. Len(s) - n + 1 \in 1..Len(s)
    BY <1>1, <1>3
  <2>2. SubSeq(s, Len(s) - n + 1, Len(s)) \in Seq(S)
    BY <1>1, <2>1, SubSeqProperties
  <2> QED
    BY <1>3, <2>2 DEF Trim
<1> QED
  BY <1>2, <1>3

\* A call that ends gives back the place it has.
LEMMA EndsPlaces ==
  ASSUME PlacesInv, NEW q \in Queries, Ends(q), UNCHANGED resets,
         hist' \in [Modes -> Seq(MessagesOf)], said' \in [Modes -> Seq(MessagesOf)],
         raced' \in SUBSET Queries, torn' \in SUBSET Modes
  PROVE  PlacesInv'
<1>1. /\ pc' = [pc EXCEPT ![q] = "done"] /\ mode' = mode
      /\ slots' = IF q \in Holders THEN slots + 1 ELSE slots
  BY DEF Ends, Goto
<1>2. FieldsOK'
  <2>1. base' \in [Queries -> Seq(MessagesOf)]
    BY EmptySeq DEF Ends, PlacesInv, FieldsOK
  <2>2. slots' \in Nat
    BY <1>1 DEF PlacesInv, FieldsOK
  <2>3. tries' \in [Queries -> 0..MaxTries]
    BY ApiCallsAssumption DEF Ends, PlacesInv, FieldsOK
  <2>4. pc' \in [Queries -> {"new", "load", "waiting", "done"} \cup Holding] /\ mode' = mode
    BY <1>1 DEF PlacesInv, FieldsOK
  <2>5. /\ text' \in SUBSET Queries /\ cancel' \in SUBSET Queries /\ flag' \in SUBSET Queries
        /\ background' \in SUBSET Queries /\ stalled' \in SUBSET Queries
    BY DEF Ends, PlacesInv, FieldsOK
  <2> QED
    BY <2>1, <2>2, <2>3, <2>4, <2>5 DEF PlacesInv, FieldsOK
<1>3. ModeInv'
  BY <1>1 DEF ModeInv, PlacesInv, FieldsOK
<1>4. Holders' = Holders \ {q}
  BY <1>1 DEF Holders, Holding, PlacesInv, FieldsOK
<1>5. slots' + Cardinality(Holders') = MaxProcs
  <2>1. CASE q \in Holders
    <3>1. Cardinality(Holders') = Cardinality(Holders) - 1
      BY <1>4, <2>1, HoldersCount, FS_RemoveElement
    <3> QED
      BY <1>1, <2>1, <3>1, HoldersCount DEF PlacesInv, FieldsOK
  <2>2. CASE q \notin Holders
    <3>1. Holders' = Holders
      BY <1>4, <2>2
    <3> QED
      BY <1>1, <2>2, <3>1 DEF PlacesInv
  <2> QED
    BY <2>1, <2>2
<1> QED
  BY <1>2, <1>3, <1>5 DEF PlacesInv

LEMMA CallPlaces ==
  ASSUME PlacesInv, NEW q \in Queries, CallStep(q)
  PROVE  PlacesInv'
<1> USE DEF Goto, flagVars, diskVars, callVars
<1> DEFINE Simple == Load(q) \/ Build(q) \/ Reload(q)
<1>1. CASE Simple
  <2>0. base' \in [Queries -> Seq(MessagesOf)] /\ raced' \in SUBSET Queries
    <3>1. hist[mode[q]] \in Seq(MessagesOf) /\ LoadHistory(q)
      BY <1>1 DEF Load, Build, Reload, PlacesInv, FieldsOK
    <3> QED
      <4>1. base' = [base EXCEPT ![q] = hist[mode[q]]] \/ base' = [base EXCEPT ![q] = <<>>]
        BY <3>1 DEF LoadHistory
      <4>2. base' \in [Queries -> Seq(MessagesOf)]
        BY <3>1, <4>1, EmptySeq DEF PlacesInv, FieldsOK
      <4>3. raced' \in SUBSET Queries
        BY <3>1 DEF LoadHistory, PlacesInv, FieldsOK
      <4> QED
        BY <4>2, <4>3
  <2>1. FieldsOK' /\ ModeInv'
    BY <1>1, <2>0 DEF Load, Build, Reload, PlacesInv, FieldsOK, ModeInv, Holding
  <2>2. UNCHANGED <<mode, slots>>
    BY <1>1 DEF Load, Build, Reload
  <2>3. CASE ~Load(q)
    <3>1. Moves(q)
      BY <1>1, <2>3 DEF Build, Reload, Moves, Holding
    <3> QED
      BY <2>1, <2>2, <3>1, PlacesStay
  <2>4. CASE Load(q)
    <3>1. Holders' = Holders
      BY <2>4 DEF Load, Holders, PlacesInv, FieldsOK, ModeInv
    <3> QED
      BY <2>1, <2>2, <3>1 DEF PlacesInv
  <2> QED
    BY <2>3, <2>4
<1>2. CASE Acquire(q)
  <2>1. FieldsOK' /\ ModeInv'
    BY <1>2 DEF Acquire, PlacesInv, FieldsOK, ModeInv, Holding
  <2>2. Holders' = Holders \cup {q} /\ q \notin Holders
    BY <1>2 DEF Acquire, Holders, Holding, PlacesInv, FieldsOK, ModeInv
  <2>3. Cardinality(Holders') = Cardinality(Holders) + 1
    BY <2>2, HoldersCount, FS_AddElement
  <2>4. slots' = slots - 1 /\ slots \in Nat
    BY <1>2 DEF Acquire, PlacesInv, FieldsOK
  <2> QED
    BY <2>1, <2>3, <2>4, HoldersCount, ApiCallsAssumption DEF PlacesInv
<1>3. CASE PostFlagged(q) \/ PostAccepted(q) \/ StreamEnds(q) \/ CheckAnswered(q)
  <2>1. UNCHANGED <<mode, slots>> /\ Moves(q)
    BY <1>3 DEF PostFlagged, PostAccepted, StreamEnds, CheckAnswered, Moves, Holding
  <2>2. /\ UNCHANGED <<base, flag, background, stalled, resets, diskVars>>
        /\ tries' \in {tries, [tries EXCEPT ![q] = 0]}
        /\ text' \in {text, text \ {q}} /\ cancel' \in {cancel, cancel \ {q}}
    BY <1>3 DEF PostFlagged, PostAccepted, StreamEnds, CheckAnswered
  <2> 0 \in 0..MaxTries
    BY ApiCallsAssumption
  <2>3. /\ tries' \in [Queries -> 0..MaxTries]
        /\ pc' \in [Queries -> {"new", "load", "waiting", "done"} \cup Holding]
    BY <2>1, <2>2 DEF Moves, PlacesInv, FieldsOK
  <2>4. FieldsOK'
    BY <2>1, <2>2, <2>3 DEF PlacesInv, FieldsOK
  <2>5. ModeInv'
    BY <1>3 DEF PostFlagged, PostAccepted, StreamEnds, CheckAnswered, PlacesInv, FieldsOK, ModeInv
  <2> QED
    BY <2>1, <2>4, <2>5, PlacesStay
<1>4. CASE PostBusy(q) /\ ~Ends(q)
  <2>1. UNCHANGED <<mode, slots, pc>>
    BY <1>4 DEF PostBusy
  <2>2. UNCHANGED <<pc, mode, base, text, flagVars, slots, resets, diskVars>>
    BY <1>4 DEF PostBusy
  <2>3. tries' \in [Queries -> 0..MaxTries]
    <3>1. tries[q] \in 0..MaxTries /\ MaxTries \in Nat
      BY ApiCallsAssumption DEF PlacesInv, FieldsOK
    <3>2. tries[q] + 1 < MaxTries /\ tries' = [tries EXCEPT ![q] = tries[q] + 1]
      BY <1>4 DEF PostBusy
    <3> QED
      BY <3>1, <3>2 DEF PlacesInv, FieldsOK
  <2>4. FieldsOK' /\ ModeInv'
    BY <2>2, <2>3 DEF PlacesInv, FieldsOK, ModeInv
  <2> QED
    BY <2>1, <2>4, PlacesStay
<1>5. CASE /\ WaitCancelled(q) \/ PostBusy(q) \/ Fails(q) \/ CheckCancelled(q) \/ CheckEmpty(q)
           /\ Ends(q)
  <2>1. UNCHANGED <<resets, hist, said, raced, torn>>
    BY <1>5 DEF WaitCancelled, PostBusy, Fails, CheckCancelled, CheckEmpty
  <2> QED
    BY <1>5, <2>1, EndsPlaces DEF PlacesInv, FieldsOK
<1>6. CASE Write(q)
  <2> DEFINE k == mode[q]
  <2>1. Ends(q) /\ UNCHANGED resets /\ k \in Modes
    BY <1>6 DEF Write, PlacesInv, FieldsOK
  <2>2. /\ hist[k] \in Seq(MessagesOf) /\ said[k] \in Seq(MessagesOf)
        /\ base[q] \o Turn(q) \in Seq(MessagesOf) /\ said[k] \o Turn(q) \in Seq(MessagesOf)
    BY <2>1, TurnType DEF PlacesInv, FieldsOK
  <2>3. Trim(base[q] \o Turn(q), Room[k]) \in Seq(MessagesOf)
    BY <2>1, <2>2, TrimType, ApiCallsAssumption
  <2>4. hist' \in [Modes -> Seq(MessagesOf)]
    BY <1>6, <2>2, <2>3 DEF Write, PlacesInv, FieldsOK
  <2>5. said' \in [Modes -> Seq(MessagesOf)]
    BY <1>6, <2>2 DEF Write, PlacesInv, FieldsOK
  <2>6. raced' \in SUBSET Queries /\ torn' \in SUBSET Modes
    BY <1>6, <2>1 DEF Write, InWindow, PlacesInv, FieldsOK
  <2> QED
    BY <2>1, <2>4, <2>5, <2>6, EndsPlaces
<1>7. CASE WaitCancelled(q) \/ Fails(q) \/ CheckCancelled(q) \/ CheckEmpty(q)
  <2>1. Ends(q)
    BY <1>7 DEF WaitCancelled, Fails, CheckCancelled, CheckEmpty
  <2> QED
    BY <1>5, <1>7, <2>1
<1> QED
  BY <1>1, <1>2, <1>3, <1>4, <1>5, <1>6, <1>7 DEF CallStep

LEMMA PlacesStep ==
  ASSUME PlacesInv, [ApiNext]_apiVars
  PROVE  PlacesInv'
<1> USE DEF Goto, flagVars, diskVars, callVars
<1>1. ASSUME NEW q \in Queries, Line(q)
      PROVE  PlacesInv'
  <2>1. UNCHANGED <<mode, slots>> /\ (UNCHANGED pc \/ Moves(q))
    BY <1>1 DEF Line, Moves, Holding
  <2>2. FieldsOK' /\ ModeInv'
    BY <1>1 DEF Line, PlacesInv, FieldsOK, ModeInv, Holding
  <2> QED
    BY <2>1, <2>2, PlacesStay
<1>2. ASSUME NEW q \in Queries, WatchStep(q) \/ Stalls(q) \/ Cancel(q)
      PROVE  PlacesInv'
  <2>1. UNCHANGED <<mode, slots, pc>>
    BY <1>2 DEF WatchStep, WatchCancel, WatchHard, SoftTimeout, Stalls, Cancel
  <2>2. FieldsOK' /\ ModeInv'
    BY <1>2 DEF WatchStep, WatchCancel, WatchHard, SoftTimeout, Stalls, Cancel, PlacesInv, FieldsOK,
                ModeInv
  <2> QED
    BY <2>1, <2>2, PlacesStay
<1>3. ASSUME NEW q \in Queries, NEW k \in Modes, Begin(q, k)
      PROVE  PlacesInv'
  <2>1. Holders' = Holders
    BY <1>3 DEF Begin, Holders, Holding, PlacesInv, FieldsOK
  <2>2. FieldsOK' /\ ModeInv'
    BY <1>3 DEF Begin, PlacesInv, FieldsOK, ModeInv, Modes
  <2> QED
    BY <1>3, <2>1, <2>2 DEF Begin, PlacesInv
<1>4. CASE Reset
  <2>1. UNCHANGED <<mode, slots, pc>>
    BY <1>4 DEF Reset
  <2>2. FieldsOK' /\ ModeInv'
    <3>1. PICK cleared \in SUBSET Modes, failed \in SUBSET Modes : ClearHistories(cleared, failed)
      BY <1>4 DEF Reset
    <3>2. /\ hist' \in [Modes -> Seq(MessagesOf)] /\ said' \in [Modes -> Seq(MessagesOf)]
          /\ raced' \in SUBSET Queries /\ torn' \in SUBSET Modes
      BY <3>1, EmptySeq DEF ClearHistories, InWindow, PlacesInv, FieldsOK
    <3> QED
      BY <1>4, <3>2, ApiCallsAssumption DEF Reset, PlacesInv, FieldsOK, ModeInv
  <2> QED
    BY <2>1, <2>2, PlacesStay
<1>5. CASE UNCHANGED apiVars
  <2>1. FieldsOK' /\ ModeInv' /\ UNCHANGED <<mode, slots, pc>>
    BY <1>5 DEF apiVars, PlacesInv, FieldsOK, ModeInv
  <2> QED
    BY <2>1, PlacesStay
<1> QED
  BY <1>1, <1>2, <1>3, <1>4, <1>5, CallPlaces DEF ApiNext

LEMMA PlacesSafe == ApiSpec => []PlacesInv
<1>1. ApiInit => PlacesInv
  <2> SUFFICES ASSUME ApiInit
               PROVE  PlacesInv
    OBVIOUS
  <2>1. FieldsOK /\ ModeInv
    BY EmptySeq, ApiCallsAssumption DEF ApiInit, FieldsOK, ModeInv, Modes
  <2>2. Holders = {} /\ slots = MaxProcs
    BY DEF ApiInit, Holders, Holding
  <2> QED
    BY <2>1, <2>2, FS_EmptySet, ApiCallsAssumption DEF PlacesInv
<1>2. PlacesInv /\ [ApiNext]_apiVars => PlacesInv'
  BY PlacesStep
<1> QED
  BY <1>1, <1>2, PTL DEF ApiSpec

\* The types of ApiCalls; of the places of the pool each is free or kept by one call to DeepSeek,
\* which gives it back once, however it ends, for any calls and places.
THEOREM ApiTypeSafe == ApiSpec => []ApiTypeOK
  BY PlacesSafe, PlacesTyped, PTL

----------------------------------------------------------------------------
(* ApiCalls: the history                                                   *)

\* Trimming before something is appended and trimmed again makes no difference.
LEMMA TrimTwice ==
  ASSUME NEW S, NEW s \in Seq(S), NEW t \in Seq(S), NEW n \in Nat \ {0}
  PROVE  Trim(Trim(s, n) \o t, n) = Trim(s \o t, n)
<1>1. CASE Len(s) <= n
  <2>1. Trim(s, n) = s
    BY <1>1, SubSeqFull DEF Trim
  <2> QED
    BY <2>1
<1>2. CASE ~(Len(s) <= n)
  <2> DEFINE r == Trim(s, n)
             a == r \o t
             b == s \o t
             i == IF Len(a) <= n THEN 1 ELSE Len(a) - n + 1
             j == IF Len(b) <= n THEN 1 ELSE Len(b) - n + 1
  <2>1. Len(s) \in Nat /\ Len(t) \in Nat /\ \A x \in 1..Len(s) : s[x] \in S
    BY LenProperties, ElementOfSeq
  <2>2. /\ r \in Seq(S) /\ Len(r) = n
        /\ \A x \in 1..n : r[x] = s[Len(s) - n + x]
    <3>1. r = SubSeq(s, Len(s) - n + 1, Len(s))
      BY <1>2 DEF Trim
    <3>2. Len(s) - n + 1 \in Int /\ Len(s) \in Int /\ Len(s) - n + 1 <= Len(s)
          /\ \A x \in (Len(s) - n + 1)..Len(s) : s[x] \in S
      BY <1>2, <2>1
    <3>3. /\ r \in Seq(S) /\ Len(r) = Len(s) - (Len(s) - n + 1) + 1
          /\ \A x \in 1..(Len(s) - (Len(s) - n + 1) + 1) : r[x] = s[(Len(s) - n + 1) + x - 1]
      <4> HIDE DEF r
      <4> QED
        BY <3>1, <3>2, SubSeqProperties
    <3> HIDE DEF r
    <3> QED
      BY <2>1, <3>3
  <2> HIDE DEF r
  <2>3. /\ a \in Seq(S) /\ Len(a) = n + Len(t)
        /\ \A x \in 1..(n + Len(t)) : a[x] = IF x <= n THEN r[x] ELSE t[x - n]
    BY <2>2, ConcatProperties
  <2>4. /\ b \in Seq(S) /\ Len(b) = Len(s) + Len(t)
        /\ \A x \in 1..(Len(s) + Len(t)) : b[x] = IF x <= Len(s) THEN s[x] ELSE t[x - Len(s)]
    BY ConcatProperties
  <2> HIDE DEF a, b
  <2>5. i = Len(t) + 1 /\ j = Len(s) - n + Len(t) + 1
    BY <1>2, <2>1, <2>3, <2>4
  <2>6. /\ \A x \in 1..Len(a) : a[x] \in S
        /\ \A x \in 1..Len(b) : b[x] \in S
    BY <2>3, <2>4, ElementOfSeq
  <2> HIDE DEF i, j
  <2>7. /\ SubSeq(a, i, Len(a)) \in Seq(S) /\ Len(SubSeq(a, i, Len(a))) = n
        /\ \A x \in 1..n : SubSeq(a, i, Len(a))[x] = a[i + x - 1]
    <3>1. i \in Int /\ Len(a) \in Int /\ i <= Len(a) /\ Len(a) - i + 1 = n
          /\ \A x \in i..Len(a) : a[x] \in S
      BY <2>1, <2>3, <2>5, <2>6
    <3> QED
      BY <3>1, SubSeqProperties
  <2>8. /\ SubSeq(b, j, Len(b)) \in Seq(S) /\ Len(SubSeq(b, j, Len(b))) = n
        /\ \A x \in 1..n : SubSeq(b, j, Len(b))[x] = b[j + x - 1]
    <3>1. j \in Int /\ Len(b) \in Int /\ j <= Len(b) /\ Len(b) - j + 1 = n
          /\ \A x \in j..Len(b) : b[x] \in S
      BY <1>2, <2>1, <2>4, <2>5, <2>6
    <3> QED
      BY <3>1, SubSeqProperties
  <2>9. ASSUME NEW x \in 1..n
        PROVE  a[i + x - 1] = b[j + x - 1]
    <3>1. i + x - 1 = Len(t) + x /\ j + x - 1 = Len(s) - n + Len(t) + x
      BY <2>1, <2>5
    <3> DEFINE u == Len(t) + x
               v == Len(s) - n + Len(t) + x
    <3>2. u \in 1..(n + Len(t)) /\ v \in 1..(Len(s) + Len(t)) /\ v = Len(s) - n + u
      BY <1>2, <2>1
    <3>3. /\ a[u] = IF u <= n THEN r[u] ELSE t[u - n]
          /\ b[v] = IF v <= Len(s) THEN s[v] ELSE t[v - Len(s)]
      BY <2>3, <2>4, <3>2
    <3>4. u <= n => r[u] = s[v]
      BY <2>2, <3>2
    <3>5. a[u] = b[v]
      <4> HIDE DEF u, v
      <4>1. (v <= Len(s) <=> u <= n) /\ v - Len(s) = u - n
        BY <2>1, <3>2
      <4> QED
        BY <3>3, <3>4, <4>1
    <3> QED
      BY <3>1, <3>5
  <2>10. SubSeq(a, i, Len(a)) = SubSeq(b, j, Len(b))
    BY <2>7, <2>8, <2>9, SeqEqual
  <2>11. Trim(a, n) = SubSeq(a, i, Len(a)) /\ Trim(b, n) = SubSeq(b, j, Len(b))
    BY DEF Trim, i, j
  <2> QED
    BY <2>10, <2>11 DEF a, b, r
<1> QED
  BY <1>1, <1>2

\* What a call has loaded and will replace is what is on disk, as long as nobody has written since and
\* it could be read.
LoadedInv ==
  \A q \in Queries :
    (q \in InWindow(mode[q]) /\ q \notin raced) => base[q] = hist[mode[q]]

\* A step that writes no history, after which a call is about to replace one only if it was before.
LEMMA HistoryStays ==
  ASSUME PlacesInv, LoadedInv, HistoryIsConversation,
         UNCHANGED <<mode, hist, said, torn, raced>>,
         \A q \in Queries : q \in InWindow(mode[q])' => q \in InWindow(mode[q]) /\ base'[q] = base[q]
  PROVE  (LoadedInv /\ HistoryIsConversation)'
  BY DEF LoadedInv, HistoryIsConversation

\* Where the calls are that are about to replace a history.
LEMMA WindowIs ==
  \A q \in Queries :
    q \in InWindow(mode[q]) <=>
      \/ mode[q] = "whole" /\ pc[q] \in {"stream", "check", "write"}
      \/ mode[q] # "whole" /\ pc[q] = "write"
  BY DEF InWindow

LEMMA WriteHistory ==
  ASSUME PlacesInv, LoadedInv, HistoryIsConversation, NEW q \in Queries, Write(q)
  PROVE  (LoadedInv /\ HistoryIsConversation)'
<1> DEFINE k == mode[q]
<1>1. /\ pc' = [pc EXCEPT ![q] = "done"] /\ mode' = mode /\ k \in Modes
      /\ base' = [base EXCEPT ![q] = <<>>]
      /\ raced' = (raced \cup InWindow(k)) \ {q}
      /\ pc[q] = "write" /\ pc \in [Queries -> {"new", "load", "waiting", "done"} \cup Holding]
      /\ said' = [said EXCEPT ![k] = said[k] \o Turn(q)]
      /\ base \in [Queries -> Seq(MessagesOf)]
      /\ hist \in [Modes -> Seq(MessagesOf)] /\ said \in [Modes -> Seq(MessagesOf)]
  BY DEF Write, Ends, Goto, PlacesInv, FieldsOK
<1>2. LoadedInv'
  <2> SUFFICES ASSUME NEW p \in Queries, (p \in InWindow(mode[p]))', p \notin raced'
               PROVE  base'[p] = hist'[mode'[p]]
    BY DEF LoadedInv
  <2>1. p # q /\ p \in InWindow(mode[p]) /\ base'[p] = base[p] /\ mode'[p] = mode[p]
    BY <1>1 DEF InWindow
  <2>2. mode[p] # k /\ p \notin raced
    BY <1>1, <2>1
  <2>3. hist'[mode[p]] = hist[mode[p]]
    BY <1>1, <2>2 DEF Write, PlacesInv, FieldsOK
  <2> QED
    BY <2>1, <2>2, <2>3 DEF LoadedInv
<1>3. HistoryIsConversation'
  <2> SUFFICES ASSUME NEW m \in Modes, m \notin torn'
               PROVE  hist'[m] = Trim(said'[m], Room[m])
    BY DEF HistoryIsConversation
  <2>1. m \notin torn
    BY DEF Write
  <2>2. CASE m # k
    <3>1. hist'[m] = hist[m] /\ said'[m] = said[m]
      BY <1>1, <2>2 DEF Write
    <3> QED
      BY <2>1, <3>1 DEF HistoryIsConversation
  <2>3. CASE m = k
    <3>1. hist'[k] = Trim(base[q] \o Turn(q), Room[k]) /\ q \notin raced
      BY <1>1, <2>3 DEF Write
    <3>2. base[q] = hist[k]
      BY <1>1, <3>1 DEF LoadedInv, InWindow
    <3>3. hist[k] = Trim(said[k], Room[k])
      BY <1>1, <2>1, <2>3 DEF HistoryIsConversation
    <3>4. Trim(Trim(said[k], Room[k]) \o Turn(q), Room[k]) = Trim(said[k] \o Turn(q), Room[k])
      <4>1. /\ said[k] \in Seq(MessagesOf) /\ Turn(q) \in Seq(MessagesOf)
            /\ Room[k] \in Nat \ {0}
        BY <1>1, TurnType, ApiCallsAssumption
      <4> QED
        BY <4>1, TrimTwice
    <3>5. said'[k] = said[k] \o Turn(q)
      BY <1>1
    <3> QED
      BY <2>3, <3>1, <3>2, <3>3, <3>4, <3>5
  <2> QED
    BY <2>2, <2>3
<1> QED
  BY <1>2, <1>3

LEMMA HistoryStep ==
  ASSUME PlacesInv, LoadedInv, HistoryIsConversation, [ApiNext]_apiVars
  PROVE  (LoadedInv /\ HistoryIsConversation)'
<1> USE DEF Goto, flagVars, diskVars, callVars
<1>1. ASSUME NEW q \in Queries, Load(q) \/ Build(q) \/ Reload(q)
      PROVE  (LoadedInv /\ HistoryIsConversation)'
  <2>1. UNCHANGED <<mode, hist, said, torn>>
    BY <1>1 DEF Load, Build, Reload
  <2>2. /\ \A p \in Queries : p # q =>
             pc'[p] = pc[p] /\ base'[p] = base[p] /\ (p \in raced' <=> p \in raced)
        /\ q \notin raced' => base'[q] = hist[mode[q]]
    BY <1>1 DEF Load, Build, Reload, LoadHistory, PlacesInv, FieldsOK
  <2>3. LoadedInv'
    BY <2>1, <2>2 DEF LoadedInv, InWindow, PlacesInv, FieldsOK
  <2> QED
    BY <2>1, <2>3 DEF HistoryIsConversation
<1>2. ASSUME NEW q \in Queries,
             \/ Acquire(q) \/ PostFlagged(q) \/ PostAccepted(q) \/ StreamEnds(q) \/ CheckAnswered(q)
             \/ Line(q)
      PROVE  (LoadedInv /\ HistoryIsConversation)'
  <2>1. UNCHANGED <<mode, base, hist, said, torn, raced>>
    BY <1>2 DEF Acquire, PostFlagged, PostAccepted, StreamEnds, CheckAnswered, Line
  <2>2. \A p \in Queries : p \in InWindow(mode[p])' => p \in InWindow(mode[p])
    BY <1>2, <2>1 DEF Acquire, PostFlagged, PostAccepted, StreamEnds, CheckAnswered, Line, InWindow,
                      PlacesInv, FieldsOK, ModeInv
  <2> QED
    BY <2>1, <2>2, HistoryStays
<1>3. ASSUME NEW q \in Queries, Ends(q), UNCHANGED diskVars
      PROVE  (LoadedInv /\ HistoryIsConversation)'
  <2>1. UNCHANGED <<mode, hist, said, torn, raced>>
    BY <1>3 DEF Ends
  <2>2. \A p \in Queries : p \in InWindow(mode[p])' => p \in InWindow(mode[p]) /\ base'[p] = base[p]
    BY <1>3 DEF Ends, InWindow, PlacesInv, FieldsOK
  <2> QED
    BY <2>1, <2>2, HistoryStays
<1>4. ASSUME NEW q \in Queries,
             WaitCancelled(q) \/ Fails(q) \/ CheckCancelled(q) \/ CheckEmpty(q)
      PROVE  (LoadedInv /\ HistoryIsConversation)'
  BY <1>3, <1>4 DEF WaitCancelled, Fails, CheckCancelled, CheckEmpty
<1>5. ASSUME NEW q \in Queries,
             (PostBusy(q) /\ ~Ends(q)) \/ WatchStep(q) \/ Stalls(q) \/ Cancel(q)
      PROVE  (LoadedInv /\ HistoryIsConversation)'
  <2>1. UNCHANGED <<pc, mode, base, diskVars>>
    BY <1>5 DEF PostBusy, WatchStep, WatchCancel, WatchHard, SoftTimeout, Stalls, Cancel
  <2> QED
    BY <2>1, HistoryStays DEF InWindow
<1>6. ASSUME NEW q \in Queries, PostBusy(q)
      PROVE  (LoadedInv /\ HistoryIsConversation)'
  BY <1>3, <1>5, <1>6 DEF PostBusy
<1>7. ASSUME NEW q \in Queries, NEW k \in Modes, Begin(q, k)
      PROVE  (LoadedInv /\ HistoryIsConversation)'
  <2>1. UNCHANGED <<base, diskVars>>
    BY <1>7 DEF Begin
  <2>2. \A p \in Queries : p \in InWindow(mode[p])' =>
                             p \in InWindow(mode[p]) /\ mode'[p] = mode[p]
    BY <1>7 DEF Begin, InWindow, PlacesInv, FieldsOK
  <2> QED
    BY <2>1, <2>2 DEF LoadedInv, HistoryIsConversation
<1>8. CASE Reset
  <2>1. LoadedInv'
    <3> SUFFICES ASSUME NEW p \in Queries, (p \in InWindow(mode[p]))', p \notin raced'
                 PROVE  base'[p] = hist'[mode'[p]]
      BY DEF LoadedInv
    <3>1. UNCHANGED <<pc, mode, base>>
      BY <1>8 DEF Reset
    <3>2. p \in InWindow(mode[p]) /\ mode[p] \in Modes
      BY <3>1 DEF InWindow, PlacesInv, FieldsOK
    <3>3. PICK cleared \in SUBSET Modes, failed \in SUBSET Modes : ClearHistories(cleared, failed)
      BY <1>8 DEF Reset
    <3>4. p \notin raced /\ mode[p] \notin cleared \ failed
      BY <3>2, <3>3 DEF ClearHistories
    <3>5. hist'[mode[p]] = hist[mode[p]]
      BY <3>2, <3>3, <3>4 DEF ClearHistories
    <3> QED
      BY <3>1, <3>2, <3>4, <3>5 DEF LoadedInv
  <2>2. HistoryIsConversation'
    <3>1. \A k \in Modes : Trim(<<>>, Room[k]) = <<>>
      BY ApiCallsAssumption, SubSeqEmpty DEF Trim
    <3>2. PICK cleared \in SUBSET Modes, failed \in SUBSET Modes : ClearHistories(cleared, failed)
      BY <1>8 DEF Reset
    <3> SUFFICES ASSUME NEW k \in Modes, k \notin torn'
                 PROVE  hist'[k] = Trim(said'[k], Room[k])
      BY DEF HistoryIsConversation
    <3>3. CASE k \in cleared
      BY <3>1, <3>2, <3>3 DEF ClearHistories
    <3>4. CASE k \notin cleared
      BY <3>2, <3>4 DEF ClearHistories, HistoryIsConversation
    <3> QED
      BY <3>3, <3>4
  <2> QED
    BY <2>1, <2>2
<1>9. CASE UNCHANGED apiVars
  BY <1>9, HistoryStays DEF apiVars, InWindow
<1> QED
  BY <1>1, <1>2, <1>4, <1>5, <1>6, <1>7, <1>8, <1>9, WriteHistory DEF ApiNext, CallStep

\* What the next call is sent is the conversation since the last clear, cut to the room there is, but
\* for histories overwritten by a call that had loaded another state, or that could not be read,
\* written or cleared; for any calls, room and number of resets (api_session.py 46-94,
\* runner_deepseek.py 100-126).
THEOREM HistorySafe == ApiSpec => []HistoryIsConversation
<1>1. ApiInit => LoadedInv /\ HistoryIsConversation
  <2> SUFFICES ASSUME ApiInit
               PROVE  LoadedInv /\ HistoryIsConversation
    OBVIOUS
  <2>1. LoadedInv
    BY DEF ApiInit, LoadedInv, InWindow
  <2>2. \A k \in Modes : Trim(<<>>, Room[k]) = <<>>
    BY ApiCallsAssumption, SubSeqEmpty DEF Trim
  <2> QED
    BY <2>1, <2>2 DEF ApiInit, HistoryIsConversation
<1>2. PlacesInv /\ LoadedInv /\ HistoryIsConversation /\ [ApiNext]_apiVars
        => (LoadedInv /\ HistoryIsConversation)'
  BY HistoryStep
<1> QED
  BY <1>1, <1>2, PlacesSafe, PTL DEF ApiSpec

----------------------------------------------------------------------------
(* ApiCalls: the pool                                                      *)

\* A call that has no place any more, or wants none.
LEMMA PoolMoves ==
  ASSUME PlacesInv, NEW q \in Queries,
         NEW next \in {"load", "waiting", "done"} \cup Holding,
         pc' = [pc EXCEPT ![q] = next],
         \A p \in Queries \ {q} : mode'[p] = mode[p],
         pc[q] \in Holding \cup {"load"} => mode'[q] = mode[q],
         next \in Holding => pc[q] \in Holding \cup {"load"} /\ (pc[q] = "load" => mode[q] = "whole"),
         next = "waiting" => pc[q] = "new",
         next = "load" => pc[q] = "new"
  PROVE  [ApiPool!Next]_<<ApiWaiting, Holders>>
<1>1. pc \in [Queries -> {"new", "load", "waiting", "done"} \cup Holding]
  BY DEF PlacesInv, FieldsOK
<1>2. \A p \in Queries : pc'[p] = IF p = q THEN next ELSE pc[p]
  BY <1>1
<1>3. CASE pc[q] \in {"new", "waiting"}
  <2>1. next \notin Holding /\ q \notin Holders /\ q \in ApiWaiting
    BY <1>3 DEF Holding, Holders, ApiWaiting
  <2>2. Holders' = Holders
    BY <1>2, <2>1 DEF Holders
  <2>3. ApiWaiting' = IF next = "waiting" THEN ApiWaiting ELSE ApiWaiting \ {q}
    BY <1>2, <2>1 DEF ApiWaiting, Holding
  <2>4. CASE next = "waiting"
    BY <2>2, <2>3, <2>4
  <2>5. CASE next # "waiting"
    <3>1. ApiPool!GiveUp(q)
      BY <2>1, <2>2, <2>3, <2>5 DEF ApiPool!GiveUp
    <3> QED
      BY <3>1 DEF ApiPool!Next
  <2> QED
    BY <2>4, <2>5
<1>4. CASE pc[q] \notin {"new", "waiting"}
  <2>1. ApiWaiting' = ApiWaiting
    BY <1>2, <1>4 DEF ApiWaiting, Holding
  <2>2. CASE q \in Holders /\ next \notin Holding
    <3>1. Holders' = Holders \ {q}
      BY <1>2, <2>2 DEF Holders
    <3>2. ApiPool!Leave(q)
      BY <2>1, <2>2, <3>1 DEF ApiPool!Leave
    <3> QED
      BY <3>2 DEF ApiPool!Next
  <2>3. CASE ~(q \in Holders /\ next \notin Holding)
    <3>1. q \in Holders' <=> q \in Holders
      BY <1>2, <1>4, <2>3 DEF Holders, Holding
    <3>2. Holders' = Holders
      BY <1>2, <3>1 DEF Holders
    <3> QED
      BY <2>1, <3>2
  <2> QED
    BY <2>2, <2>3
<1> QED
  BY <1>3, <1>4

LEMMA PoolStep ==
  ASSUME PlacesInv, PlacesInv', [ApiNext]_apiVars
  PROVE  [ApiPool!Next]_<<ApiWaiting, Holders>>
<1> USE DEF Goto
<1>1. ASSUME NEW q \in Queries, Acquire(q)
      PROVE  ApiPool!Next
  <2>1. Cardinality(Holders) < MaxProcs
    BY <1>1, HoldersCount, ApiCallsAssumption DEF Acquire, PlacesInv, FieldsOK
  <2>2. ApiPool!Cardinality(Holders) = Cardinality(Holders)
    BY DEF ApiPool!Cardinality, Cardinality
  <2>3. q \in ApiWaiting /\ ApiWaiting' = ApiWaiting \ {q} /\ Holders' = Holders \cup {q}
    BY <1>1 DEF Acquire, ApiWaiting, Holders, Holding, PlacesInv, FieldsOK, ModeInv
  <2>4. ApiPool!Enter(q)
    BY <2>1, <2>2, <2>3 DEF ApiPool!Enter
  <2> QED
    BY <2>4 DEF ApiPool!Next
<1>2. ASSUME NEW q \in Queries, Ends(q)
      PROVE  [ApiPool!Next]_<<ApiWaiting, Holders>>
  BY <1>2, PoolMoves DEF Ends, Holding
<1>3. ASSUME NEW q \in Queries,
             Load(q) \/ Build(q) \/ Reload(q) \/ PostFlagged(q) \/ PostAccepted(q)
               \/ StreamEnds(q) \/ CheckAnswered(q)
      PROVE  [ApiPool!Next]_<<ApiWaiting, Holders>>
  <2>1. /\ mode' = mode
        /\ \E next \in Holding : pc' = [pc EXCEPT ![q] = next]
        /\ pc[q] \in Holding \cup {"load"} /\ (pc[q] = "load" => mode[q] = "whole")
    BY <1>3 DEF Load, Build, Reload, PostFlagged, PostAccepted, StreamEnds, CheckAnswered, Holding,
                PlacesInv, ModeInv
  <2> QED
    BY <2>1, PoolMoves DEF Holding
<1>4. ASSUME NEW q \in Queries,
             WaitCancelled(q) \/ Fails(q) \/ CheckCancelled(q) \/ CheckEmpty(q) \/ Write(q)
      PROVE  [ApiPool!Next]_<<ApiWaiting, Holders>>
  BY <1>2, <1>4 DEF WaitCancelled, Fails, CheckCancelled, CheckEmpty, Write
<1>5. ASSUME NEW q \in Queries, PostBusy(q)
      PROVE  [ApiPool!Next]_<<ApiWaiting, Holders>>
  BY <1>2, <1>5 DEF PostBusy, ApiWaiting, Holders
<1>6. ASSUME NEW q \in Queries, Line(q)
      PROVE  [ApiPool!Next]_<<ApiWaiting, Holders>>
  <2>1. CASE UNCHANGED pc
    BY <1>6, <2>1 DEF Line, ApiWaiting, Holders
  <2>2. CASE pc' = [pc EXCEPT ![q] = "check"]
    BY <1>6, <2>2, PoolMoves DEF Line, Holding
  <2> QED
    BY <1>6, <2>1, <2>2 DEF Line
<1>7. ASSUME NEW q \in Queries, WatchStep(q) \/ Stalls(q) \/ Cancel(q)
      PROVE  [ApiPool!Next]_<<ApiWaiting, Holders>>
  BY <1>7 DEF WatchStep, WatchCancel, WatchHard, SoftTimeout, Stalls, Cancel, callVars, ApiWaiting,
              Holders
<1>8. ASSUME NEW q \in Queries, NEW k \in Modes, Begin(q, k)
      PROVE  [ApiPool!Next]_<<ApiWaiting, Holders>>
  <2>1. /\ pc[q] = "new"
        /\ \E next \in {"load", "waiting"} : pc' = [pc EXCEPT ![q] = next]
        /\ \A p \in Queries \ {q} : mode'[p] = mode[p]
    BY <1>8 DEF Begin, PlacesInv, FieldsOK
  <2> QED
    BY <2>1, PoolMoves DEF Holding
<1>9. CASE Reset \/ UNCHANGED apiVars
  BY <1>9 DEF Reset, apiVars, callVars, ApiWaiting, Holders
<1> QED
  BY <1>1, <1>3, <1>4, <1>5, <1>6, <1>7, <1>8, <1>9 DEF ApiNext, CallStep

\* The calls over HTTP implement the pool of the processes, for any calls, places, attempts and
\* resets: a place is taken by one call, never more are taken than there are, and a call gives its
\* place back once and takes none while it waits, however it ends (_acquire_ai_sem and the finally of
\* DeepSeekRunner.run).
THEOREM PoolUsed == ApiSpec => CallsUsePool
<1>1. ApiInit => ApiPool!Init
  BY DEF ApiInit, ApiPool!Init, ApiWaiting, Holders, Holding
<1>2. PlacesInv /\ PlacesInv' /\ [ApiNext]_apiVars => [ApiPool!Next]_<<ApiWaiting, Holders>>
  BY PoolStep
<1> QED
  BY <1>1, <1>2, PlacesSafe, PTL DEF ApiSpec, CallsUsePool, ApiPool!Spec

=============================================================================
