------------------------------- MODULE Cascade -------------------------------
(***************************************************************************)
(* How the facts of a session reach the longer-lived layers of the memory  *)
(* (memory.py): every new summary of a chat starts a cascade, one worker   *)
(* for each layer, which reads the file of the layer, has a model merge    *)
(* the summary into it and writes it back.  Chats work on the same files;  *)
(* a newer cascade of a chat cancels the one before; the number of workers *)
(* is bounded.  The user may set and clear a layer and collect the old     *)
(* files at the same time (commands.py).                                   *)
(***************************************************************************)
EXTENDS Integers, FiniteSets

CONSTANTS
  Chats,       \* they share the files: the same directory, the same sender
  Layers,      \* the files: of the project and of the user
  Contents,    \* what a summary may say
  MaxCascades, \* bound on the cascades of a chat
  Places,      \* memory_cascade_max_concurrent
  MaxTries,    \* CASCADE_BACKOFF_MAX_ATTEMPTS
  MaxCommands, \* bound on the commands of the user
  Hazards      \* what may go wrong: see HazardKinds

HazardKinds == {"disk",   \* a file cannot be written
                "model",  \* the call of a model fails
                "thread"} \* a thread does not start

ASSUME CascadeAssumption ==
  /\ IsFiniteSet(Chats) /\ IsFiniteSet(Layers) /\ Layers # {}
  /\ MaxCascades \in Nat /\ Places \in Nat \ {0} /\ MaxTries \in Nat \ {0}
  /\ MaxCommands \in Nat /\ Hazards \subseteq HazardKinds
  /\ "user" \notin Contents /\ "old" \notin Contents /\ "none" \notin Contents

\* The worker of a layer in the n-th cascade of a chat.
Workers == Chats \X (1..MaxCascades) \X Layers
ChatOf(w)    == w[1]
CascadeOf(w) == <<w[1], w[2]>>
Layer(w)     == w[3]

\* A file: the facts in its body, and last_extracted_session_hash; one without facts is as good as
\* none.
Facts    == Contents \cup {"user", "old"}
File     == [facts : SUBSET Facts, stamp : Contents \cup {"none"}]
Absent   == [facts |-> {}, stamp |-> "none"]
OldFile  == [facts |-> {"old"}, stamp |-> "none"]
UserFile == [facts |-> {"user"}, stamp |-> "none"]

VARIABLES
  begun,    \* the cascades of each chat so far
  content,  \* the summary of each
  active,   \* _active_cascade_cancels: the cascade whose event is kept for the chat, or 0
  told,     \* the cascades whose event is set
  free,     \* the free places of the semaphore
  pc,       \* where each worker is
  tries,    \* its failed calls of a model
  seen,     \* the facts it has read
  mine,     \* what it writes
  file,     \* the file of each layer
  tmp,      \* its temporary file
  writer,   \* who holds its write lock
  gc,       \* the files that /memory gc has found to be old and not looked at again
  commands, \* the commands so far
  judged,   \* history: the summaries that a model found nothing new in, by layer
  excused   \* history: workers that a newer cascade came too late for

workVars == <<pc, tries, seen, mine>>
fileVars == <<file, tmp, writer>>
vars == <<begun, content, active, told, free, workVars, fileVars, gc, commands, judged, excused>>

Nobody  == << >>
TheUser == <<"user">>

TypeOK ==
  /\ begun \in [Chats -> 0..MaxCascades]
  /\ content \in [Chats \X (1..MaxCascades) -> Contents \cup {"none"}]
  /\ active \in [Chats -> 0..MaxCascades]
  /\ told \in SUBSET (Chats \X (1..MaxCascades))
  /\ free \in 0..Places
  /\ pc \in [Workers -> {"none", "lost", "waits", "starts", "asks", "stamps", "saves", "writes",
                         "leaves", "end"}]
  /\ tries \in [Workers -> Nat]
  /\ seen \in [Workers -> SUBSET Facts]
  /\ mine \in [Workers -> File]
  /\ file \in [Layers -> File]
  /\ tmp \in [Layers -> File]
  /\ writer \in [Layers -> Workers \cup {Nobody, TheUser}]
  /\ gc \in SUBSET Layers
  /\ commands \in 0..MaxCommands
  /\ judged \in [Layers -> SUBSET Contents]
  /\ excused \in SUBSET Workers

Init ==
  /\ begun = [c \in Chats |-> 0]
  /\ content = [x \in Chats \X (1..MaxCascades) |-> "none"]
  /\ active = [c \in Chats |-> 0]
  /\ told = {} /\ free = Places
  /\ pc = [w \in Workers |-> "none"]
  /\ tries = [w \in Workers |-> 0]
  /\ seen = [w \in Workers |-> {}]
  /\ mine = [w \in Workers |-> Absent]
  /\ file = [l \in Layers |-> OldFile]
  /\ tmp = [l \in Layers |-> Absent]
  /\ writer = [l \in Layers |-> Nobody]
  /\ gc = {} /\ commands = 0
  /\ judged = [l \in Layers |-> {}]
  /\ excused = {}

----------------------------------------------------------------------------
(* The cascades of a chat                                                  *)

InFlight(w) == pc[w] \notin {"none", "lost", "end"}

\* A worker that looks at its event no more.
Decided(w) == pc[w] \in {"stamps", "saves", "writes", "leaves"}

\* _cascade_extract: the event of the cascade before is set, and the workers are started, one after
\* the other by a thread of their own; a thread that does not start leaves those after it out, and a chat
\* without a directory has no worker for the project.
Begin(c, x) ==
  LET n == begun[c] + 1 IN
  /\ n <= MaxCascades
  /\ begun' = [begun EXCEPT ![c] = n]
  /\ content' = [content EXCEPT ![<<c, n>>] = x]
  /\ active' = [active EXCEPT ![c] = n]
  /\ told' = told \cup {<<c, m>> : m \in {active[c]} \ {0}}
  /\ \E some \in SUBSET Layers :
       /\ some = Layers \/ "thread" \in Hazards
       /\ pc' = [w \in Workers |-> IF CascadeOf(w) # <<c, n>> THEN pc[w]
                                  ELSE IF Layer(w) \in some THEN "waits" ELSE "lost"]
  /\ excused' = excused \cup {w \in Workers :
                   ChatOf(w) = c /\ InFlight(w) /\ (Decided(w) \/ CascadeOf(w) \notin told')}
  /\ UNCHANGED <<free, tries, seen, mine, fileVars, gc, commands, judged>>

Goes(w, where) == pc' = [pc EXCEPT ![w] = where]

\* The event is given up unless a newer cascade has replaced it; the first worker to end does it.
GiveUpEvent(w) ==
  active' = [active EXCEPT ![ChatOf(w)] = IF CascadeOf(w) = <<ChatOf(w), @>> THEN 0 ELSE @]

WorkStays == UNCHANGED <<begun, content, told, gc, commands, excused>>

Enter(w) ==
  /\ pc[w] = "waits"
  /\ free > 0
  /\ free' = free - 1
  /\ Goes(w, "starts")
  /\ UNCHANGED <<active, tries, seen, mine, fileVars, judged>> /\ WorkStays

\* mutant: a worker that finds no place leaves the event behind.
DroppedSilently(w) ==
  /\ pc[w] = "waits"
  /\ free = 0
  /\ Goes(w, "end")
  /\ UNCHANGED <<active, free, tries, seen, mine, fileVars, judged>> /\ WorkStays

\* No place within half a second.
Dropped(w) ==
  /\ pc[w] = "waits"
  /\ free = 0
  /\ Goes(w, "end")
  /\ GiveUpEvent(w)
  /\ UNCHANGED <<free, tries, seen, mine, fileVars, judged>> /\ WorkStays

Leave(w) ==
  /\ pc[w] = "leaves"
  /\ Goes(w, "end")
  /\ free' = free + 1
  /\ GiveUpEvent(w)
  /\ tries' = [tries EXCEPT ![w] = 0]
  /\ seen' = [seen EXCEPT ![w] = {}]
  /\ mine' = [mine EXCEPT ![w] = Absent]
  /\ UNCHANGED <<fileVars, judged>> /\ WorkStays

----------------------------------------------------------------------------
(* A worker: _try_extract_project and _try_extract_global                  *)

Stays == UNCHANGED <<active, free>> /\ WorkStays

Told(w) == CascadeOf(w) \in told
Said(w) == content[CascadeOf(w)]

StampOf(l) == file[l].stamp
FactsIn(l) == file[l].facts

\* Cancelled, before the file is read, before a call of a model or while its answer comes in.
Cancelled(w) ==
  /\ pc[w] \in {"starts", "asks"}
  /\ Told(w)
  /\ Goes(w, "leaves")
  /\ UNCHANGED <<tries, seen, mine, fileVars, judged>> /\ Stays

\* The file says that it has had this summary.
Skip(w) ==
  /\ pc[w] = "starts"
  /\ ~Told(w)
  /\ StampOf(Layer(w)) = Said(w)
  /\ Goes(w, "leaves")
  /\ UNCHANGED <<tries, seen, mine, fileVars, judged>> /\ Stays

\* A file that cannot be read, or is of another directory, counts as empty in the code; it is left out.
ReadFile(w) ==
  /\ pc[w] = "starts"
  /\ ~Told(w)
  /\ StampOf(Layer(w)) # Said(w)
  /\ seen' = [seen EXCEPT ![w] = FactsIn(Layer(w))]
  /\ Goes(w, "asks")
  /\ UNCHANGED <<tries, mine, fileVars, judged>> /\ Stays

\* mutant: the event is not looked at when the answer is there.
AnswerAnyhow(w) ==
  /\ pc[w] = "asks"
  /\ mine' = [mine EXCEPT ![w] = [facts |-> seen[w] \cup {Said(w)}, stamp |-> Said(w)]]
  /\ Goes(w, "saves")
  /\ UNCHANGED <<tries, seen, fileVars, judged>> /\ Stays

\* The answer of the model, and the last look at the event: the summary is merged into the facts.
Answer(w) ==
  /\ pc[w] = "asks"
  /\ ~Told(w)
  /\ mine' = [mine EXCEPT ![w] = [facts |-> seen[w] \cup {Said(w)}, stamp |-> Said(w)]]
  /\ Goes(w, "saves")
  /\ UNCHANGED <<tries, seen, fileVars, judged>> /\ Stays

\* UNCHANGED.
NothingNew(w) ==
  /\ pc[w] = "asks"
  /\ ~Told(w)
  /\ judged' = [judged EXCEPT ![Layer(w)] = @ \cup {Said(w)}]
  /\ Goes(w, "stamps")
  /\ UNCHANGED <<tries, seen, mine, fileVars>> /\ Stays

\* An answer that _is_useful_summary rejects, or a call that fails on the cheap backend and on the
\* other one: it is tried again, MaxTries times in all.
Useless(w) ==
  /\ "model" \in Hazards
  /\ pc[w] = "asks"
  /\ ~Told(w)
  /\ \/ Goes(w, "leaves") /\ UNCHANGED tries
     \/ /\ tries' = [tries EXCEPT ![w] = @ + 1]
        /\ Goes(w, IF tries'[w] < MaxTries THEN "asks" ELSE "leaves")
  /\ UNCHANGED <<seen, mine, fileVars, judged>> /\ Stays

\* _persist_unchanged_hash: what is in the file now is written again with the stamp.
Restamp(w) ==
  /\ pc[w] = "stamps"
  /\ \/ /\ FactsIn(Layer(w)) = {}
        /\ Goes(w, "leaves")
        /\ UNCHANGED mine
     \/ /\ FactsIn(Layer(w)) # {}
        /\ mine' = [mine EXCEPT ![w] = [facts |-> FactsIn(Layer(w)), stamp |-> Said(w)]]
        /\ Goes(w, "saves")
  /\ UNCHANGED <<tries, seen, fileVars, judged>> /\ Stays

----------------------------------------------------------------------------
(* _save_md                                                                *)

\* mutant: the write lock is not taken.
WriteUnlocked(w) ==
  /\ pc[w] = "saves"
  /\ Goes(w, "writes")
  /\ tmp' = [tmp EXCEPT ![Layer(w)] = mine[w]]
  /\ UNCHANGED <<tries, seen, mine, file, writer, judged>> /\ Stays

\* The temporary file is written under the lock; that the body is cut at max_chars is left out.
WriteBegins(w) ==
  /\ pc[w] = "saves"
  /\ writer[Layer(w)] = Nobody
  /\ writer' = [writer EXCEPT ![Layer(w)] = w]
  /\ tmp' = [tmp EXCEPT ![Layer(w)] = mine[w]]
  /\ Goes(w, "writes")
  /\ UNCHANGED <<tries, seen, mine, file, judged>> /\ Stays

\* mutant: the lock is kept when the write fails.
WriteFailsLocked(w) ==
  /\ "disk" \in Hazards
  /\ pc[w] = "writes"
  /\ Goes(w, "leaves")
  /\ UNCHANGED <<tries, seen, mine, fileVars, judged>> /\ Stays

\* The write fails; the worker takes it for a success.
WriteFails(w) ==
  /\ "disk" \in Hazards
  /\ pc[w] = "writes"
  /\ writer' = [writer EXCEPT ![Layer(w)] = Nobody]
  /\ Goes(w, "leaves")
  /\ UNCHANGED <<tries, seen, mine, file, tmp, judged>> /\ Stays

\* The temporary file replaces the file.
WriteEnds(w) ==
  /\ pc[w] = "writes"
  /\ file' = [file EXCEPT ![Layer(w)] = tmp[Layer(w)]]
  /\ writer' = [writer EXCEPT ![Layer(w)] = Nobody]
  /\ tmp' = [tmp EXCEPT ![Layer(w)] = Absent]
  /\ Goes(w, "leaves")
  /\ UNCHANGED <<tries, seen, mine, judged>> /\ Stays

----------------------------------------------------------------------------
(* The commands of the user                                                *)

Command ==
  /\ commands < MaxCommands
  /\ commands' = commands + 1

UserStays == UNCHANGED <<begun, content, active, told, free, workVars, judged, excused>>

\* mutant: the stamp of the file is kept.
SetBeginsStamped(l) ==
  /\ Command
  /\ writer[l] = Nobody
  /\ writer' = [writer EXCEPT ![l] = TheUser]
  /\ tmp' = [tmp EXCEPT ![l] = [facts |-> {"user"}, stamp |-> StampOf(l)]]
  /\ UNCHANGED <<file, gc>> /\ UserStays

\* /memory set: without a stamp.
SetBegins(l) ==
  /\ Command
  /\ writer[l] = Nobody
  /\ writer' = [writer EXCEPT ![l] = TheUser]
  /\ tmp' = [tmp EXCEPT ![l] = UserFile]
  /\ UNCHANGED <<file, gc>> /\ UserStays

SetEnds(l) ==
  /\ writer[l] = TheUser
  /\ \/ file' = [file EXCEPT ![l] = tmp[l]] /\ tmp' = [tmp EXCEPT ![l] = Absent]
     \/ "disk" \in Hazards /\ UNCHANGED <<file, tmp>>
  /\ writer' = [writer EXCEPT ![l] = Nobody]
  /\ UNCHANGED <<gc, commands>> /\ UserStays

\* /memory clear does not look at the lock.
Clear(l) ==
  /\ Command
  /\ file' = [file EXCEPT ![l] = Absent]
  /\ UNCHANGED <<tmp, writer, gc>> /\ UserStays

\* /memory gc finds a file that nobody has written for a month, and removes it later, unless it is
\* just being written; it does not look at its age again.
GcFinds(l) ==
  /\ Command
  /\ file[l] = OldFile
  /\ gc' = gc \cup {l}
  /\ UNCHANGED fileVars /\ UserStays

GcRemoves(l) ==
  /\ l \in gc
  /\ gc' = gc \ {l}
  /\ file' = [file EXCEPT ![l] = IF writer[l] = Nobody THEN Absent ELSE @]
  /\ UNCHANGED <<tmp, writer, commands>> /\ UserStays

----------------------------------------------------------------------------
WorkerStep(w) ==
  \/ Enter(w) \/ Dropped(w) \/ Leave(w)
  \/ Cancelled(w) \/ Skip(w) \/ ReadFile(w) \/ Answer(w) \/ NothingNew(w) \/ Useless(w)
  \/ Restamp(w) \/ WriteBegins(w) \/ WriteFails(w) \/ WriteEnds(w)

Next ==
  \/ \E c \in Chats, x \in Contents : Begin(c, x)
  \/ \E w \in Workers : WorkerStep(w)
  \/ \E l \in Layers : SetBegins(l) \/ SetEnds(l) \/ Clear(l) \/ GcFinds(l) \/ GcRemoves(l)

Spec == Init /\ [][Next]_vars

----------------------------------------------------------------------------
(* Properties                                                              *)

\* A file that is stamped with a summary has it, or a model has found nothing new in it: only such a
\* summary is left out the next time.  Through failed calls, rejected answers, failed writes, and
\* whatever the user and other chats write in between (_persist_unchanged_hash, memory.py 1086-1092).
StampIsTrue ==
  \A l \in Layers : StampOf(l) # "none" => StampOf(l) \in FactsIn(l) \cup judged[l]

\* A cascade that was replaced by a newer one of its chat writes nothing more, except a worker that
\* had looked at its event for the last time, and one whose cascade had given up the event because
\* its other worker was through (the check after the call, memory.py 1308-1318).
StaleStaysUnwritten ==
  [][\A w \in Workers : pc[w] # "writes" /\ pc'[w] = "writes" =>
        w[2] = begun[ChatOf(w)] \/ w \in excused]_vars

\* When all workers are through, all places are free and no event is left behind, in whatever order
\* they were dropped, cancelled and replaced; but for the event of a cascade none of whose workers
\* was started (_coordinated and _run_cascade, memory.py 1449-1515).
AllTidy ==
  (\A w \in Workers : ~InFlight(w)) =>
     /\ free = Places
     /\ \A c \in Chats : active[c] # 0 => \A l \in Layers : pc[<<c, active[c], l>>] = "lost"

\* Writers of a file do not mix: what a worker puts in place is what it wrote, though the temporary
\* file has one name for all.
WritersApart ==
  [][\A w \in Workers : pc[w] = "writes" /\ file'[Layer(w)] # file[Layer(w)] =>
        file'[Layer(w)] \in {mine[w], Absent}]_vars

Holding == {"starts", "asks", "stamps", "saves", "writes", "leaves"}
Holders == {w \in Workers : pc[w] \in Holding}

\* A place is kept by a worker that has taken it and not ended, and no other one is taken; and a
\* worker that waits to write waits for the user's write, or for another worker that has begun to
\* write the same file and needs no more to end.  So places and write locks are given back however a
\* worker ends, and none waits in vain (_save_md, memory.py 419-495).
NoneStuck ==
  /\ free + Cardinality(Holders) = Places
  /\ \A w \in Workers : pc[w] = "saves" /\ writer[Layer(w)] # Nobody =>
       \/ writer[Layer(w)] = TheUser
       \/ \E v \in Workers \ {w} : Layer(v) = Layer(w) /\ pc[v] = "writes"

=============================================================================
