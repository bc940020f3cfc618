---------------------------- MODULE SessionsProofs ----------------------------
(* Proofs about Sessions, for every set of queries and every bound.          *)
EXTENDS Sessions, TLAPS

PCs == {"new", "asked", "resumed", "again", "opened", "counting", "guarded", "answered",
        "committed", "done"}

----------------------------------------------------------------------------
(* Types                                                                   *)

\* The variables of the memory, and those of the session.
MemoryType ==
  /\ memory \in Nat
  /\ lock \in {"free", "waiter"} \cup Callers
  /\ update \in [Callers -> {"idle", "start", "read", "save", "after"}]
  /\ upto \in [Callers -> Nat]
  /\ answer \in [Waiters -> {"none", "ok", "busy", "failed"}]

SessionType ==
  /\ sid \in Nat /\ fresh \in Nat /\ sid <= fresh
  /\ given \in SUBSET (1..fresh)
  /\ record \in SUBSET {"doc"} /\ torn \in SUBSET {"torn"}
  /\ using \in [Queries -> 0..fresh]

OtherType ==
  /\ turns \in Nat /\ log \in Nat
  /\ pc \in [Queries -> PCs]
  /\ text \in [Queries -> {"body", "marker"}]
  /\ guard \in {"off", "first", "wait", "locked", "again", "second", "clear", "mark"}
  /\ compact \in {"off", "waits", "clear", "done"}
  /\ commands \in 0..MaxCommands
  /\ base \in [Waiters -> Nat]
  /\ excuse \in SUBSET Waiters

Types == MemoryType /\ SessionType /\ OtherType

LEMMA TypeParts == Types <=> TypeOK
  BY DEF Types, TypeOK, MemoryType, SessionType, OtherType, PCs

LEMMA CallerParts == Waiters = {"guard", "compact"} /\ Callers = {"guard", "compact", "aside"}
  BY DEF Waiters, Callers

LEMMA StartType ==
  ASSUME MemoryType, NEW c \in Callers, StartUpdate(c) \/ UNCHANGED memoryVars
  PROVE  MemoryType'
<1>1. CASE UNCHANGED memoryVars
  BY <1>1 DEF memoryVars, MemoryType
<1>2. CASE StartUpdate(c)
  BY <1>2 DEF StartUpdate, Tell, MemoryType
<1>3. QED BY <1>1, <1>2

LEMMA UpdateType ==
  ASSUME MemoryType, OtherType, NEW c \in Callers, UpdateStep(c)
  PROVE  MemoryType' /\ OtherType' /\ UNCHANGED <<sessionVars, using>>
<1> USE DEF MemoryType
<1>0. UNCHANGED <<sessionVars, turns, log, queryVars, guard, compact, commands, base>>
  BY DEF UpdateStep, Lock, LockBusy, Summarise, SaveMemory, Unlock
<1>1. excuse' \in SUBSET Waiters
  BY CallerParts DEF OtherType, UpdateStep, Lock, LockBusy, Summarise, SaveMemory, Unlock, Waiting
<1>2. MemoryType'
  <2>1. CASE Lock(c)
    BY <2>1 DEF Lock, OtherType
  <2>2. CASE LockBusy(c)
    BY <2>2 DEF LockBusy, Tell
  <2>3. CASE Summarise(c)
    BY <2>3 DEF Summarise, Tell
  <2>4. CASE SaveMemory(c)
    BY <2>4 DEF SaveMemory, Tell
  <2>5. CASE Unlock(c)
    BY <2>5 DEF Unlock
  <2>6. QED BY <2>1, <2>2, <2>3, <2>4, <2>5 DEF UpdateStep
<1>3. QED
  BY <1>0, <1>1, <1>2 DEF OtherType, queryVars

LEMMA ClearType ==
  ASSUME SessionType, NEW under, ClearSid(under), UNCHANGED using
  PROVE  SessionType'
  BY DEF ClearSid, SessionType

LEMMA SendType ==
  ASSUME SessionType, NEW q \in Queries, NEW session \in 1..fresh', Send(q, session),
         fresh' \in Nat, fresh <= fresh'
  PROVE  SessionType'
<1>1. using' \in [Queries -> 0..fresh']
  <2>1. \A r \in Queries : using[r] \in 0..fresh'
    BY DEF SessionType
  <2>2. session \in 0..fresh'
    OBVIOUS
  <2>3. QED BY <2>1, <2>2 DEF Send, SessionType
<1>2. given' \in SUBSET (1..fresh')
  <2>1. \A id \in given : id \in 1..fresh'
    BY DEF SessionType
  <2>2. QED BY <2>1 DEF Send
<1>3. sid <= fresh'
  BY DEF SessionType
<1>4. QED
  BY <1>1, <1>2, <1>3 DEF Send, SessionType

LEMMA QueryType ==
  ASSUME Types, NEW q \in Queries, QueryStep(q) \/ Named(q)
  PROVE  Types'
<1>0. MemoryType /\ SessionType /\ OtherType
  BY DEF Types
<1>1. ASSUME Ask(q) \/ Count(q) PROVE Types'
  <2>1. UNCHANGED memoryVars /\ UNCHANGED <<sessionVars, using>>
    BY <1>1 DEF Ask, Count
  <2>2. OtherType'
    BY <1>0, <1>1 DEF Ask, Count, OtherType, PCs
  <2>3. QED BY <1>0, <2>1, <2>2 DEF Types, memoryVars, sessionVars, MemoryType, SessionType
<1>2. ASSUME Resume(q) \/ Open(q) PROVE Types'
  <2>1. \E session \in 1..fresh' : Send(q, session) /\ fresh' \in {fresh, fresh + 1}
    <3>1. CASE Resume(q)
      BY <1>0, <3>1 DEF Resume, SessionType
    <3>2. CASE Open(q)
      BY <1>0, <3>2 DEF Open, SessionType
    <3>3. QED BY <1>2, <3>1, <3>2
  <2>2. SessionType'
    BY <1>0, <2>1, SendType DEF SessionType
  <2>3. UNCHANGED <<memoryVars, turns, log, text, guard, compact, commands, base, excuse>>
    BY <2>1 DEF Send
  <2>4. OtherType'
    BY <1>0, <1>2, <2>3 DEF Resume, Open, OtherType, PCs
  <2>5. QED BY <1>0, <2>2, <2>3, <2>4 DEF Types, memoryVars, MemoryType
<1>3. ASSUME Named(q) \/ Result(q) PROVE Types'
  <2>1. using[q] \in Nat /\ using[q] <= fresh
    BY <1>0 DEF SessionType
  <2>2. SessionType'
    BY <1>0, <1>3, <2>1 DEF Named, Result, SessionType, queryVars
  <2>3. OtherType'
    BY <1>0, <1>3 DEF Named, Result, OtherType, queryVars, PCs
  <2>4. UNCHANGED memoryVars
    BY <1>3 DEF Named, Result
  <2>5. QED BY <1>0, <2>2, <2>3, <2>4 DEF Types, memoryVars, MemoryType
<1>4. ASSUME Retry(q) PROVE Types'
  <2>1. SessionType'
    BY <1>0, <1>4, ClearType DEF Retry
  <2>2. OtherType' /\ UNCHANGED memoryVars
    BY <1>0, <1>4 DEF Retry, OtherType, PCs
  <2>3. QED BY <1>0, <2>1, <2>2 DEF Types, memoryVars, MemoryType
<1>5. ASSUME Fails(q) PROVE Types'
  <2>1. SessionType'
    BY <1>0, <1>5 DEF Fails, Ends, sessionVars, SessionType
  <2>2. OtherType' /\ UNCHANGED memoryVars
    BY <1>0, <1>5 DEF Fails, Ends, OtherType, PCs
  <2>3. QED BY <1>0, <2>1, <2>2 DEF Types, memoryVars, MemoryType
<1>6. ASSUME Commit(q) PROVE Types'
  <2>1. SessionType'
    BY <1>0, <1>6 DEF Commit, SessionType
  <2>2. OtherType' /\ UNCHANGED memoryVars
    BY <1>0, <1>6 DEF Commit, OtherType, PCs
  <2>3. QED BY <1>0, <2>1, <2>2 DEF Types, memoryVars, MemoryType
<1>7. ASSUME Finish(q) PROVE Types'
  <2>1. SessionType'
    BY <1>0, <1>7 DEF Finish, Ends, sessionVars, SessionType
  <2>2. OtherType'
    BY <1>0, <1>7 DEF Finish, Ends, OtherType, PCs
  <2>3. MemoryType'
    BY <1>0, <1>7, CallerParts, StartType DEF Finish, MayStartAside
  <2>4. QED BY <2>1, <2>2, <2>3 DEF Types
<1>8. QED
  BY <1>1, <1>2, <1>3, <1>4, <1>5, <1>6, <1>7 DEF QueryStep

LEMMA GuardType ==
  ASSUME Types, GuardStep
  PROVE  Types'
<1>0. MemoryType /\ SessionType /\ OtherType
  BY DEF Types
<1> USE CallerParts DEF GuardStays
<1>1. CASE Settle
  <2>1. MemoryType'
    BY <1>0, <1>1, StartType DEF Settle
  <2>2. OtherType' /\ UNCHANGED <<sessionVars, using>>
    BY <1>0, <1>1 DEF Settle, OtherType, queryVars
  <2>3. QED BY <1>0, <2>1, <2>2 DEF Types, sessionVars, SessionType
<1>2. CASE Settled \/ SettleTimesOut
  <2>1. OtherType' /\ UNCHANGED <<sessionVars, using>> /\ UNCHANGED memoryVars
    BY <1>0, <1>2 DEF Settled, SettleTimesOut, OtherType, queryVars
  <2>2. QED BY <1>0, <2>1 DEF Types, sessionVars, memoryVars, SessionType, MemoryType
<1>3. CASE WaitLock \/ ReleaseLock
  <2>1. OtherType' /\ UNCHANGED <<sessionVars, using>>
    BY <1>0, <1>3 DEF WaitLock, ReleaseLock, OtherType, queryVars
  <2>2. MemoryType'
    BY <1>0, <1>3 DEF WaitLock, ReleaseLock, MemoryType
  <2>3. QED BY <1>0, <2>1, <2>2 DEF Types, sessionVars, SessionType
<1>4. CASE GuardClears
  <2>1. SessionType'
    BY <1>0, <1>4, ClearType DEF GuardClears, queryVars
  <2>2. OtherType' /\ UNCHANGED memoryVars
    BY <1>0, <1>4 DEF GuardClears, OtherType, queryVars
  <2>3. QED BY <1>0, <2>1, <2>2 DEF Types, memoryVars, MemoryType
<1>5. CASE GuardMarks
  <2>1. MemoryType'
    BY <1>0, <1>5, StartType DEF GuardMarks, MayStartAside
  <2>2. OtherType' /\ UNCHANGED <<sessionVars, using>>
    BY <1>0, <1>5 DEF GuardMarks, OtherType, PCs
  <2>3. QED BY <1>0, <2>1, <2>2 DEF Types, sessionVars, SessionType
<1>6. QED
  BY <1>1, <1>2, <1>3, <1>4, <1>5 DEF GuardStep

LEMMA CommandType ==
  ASSUME Types, CompactStep \/ CompactBegins \/ Reset \/ ClearMemory
  PROVE  Types'
<1>0. MemoryType /\ SessionType /\ OtherType
  BY DEF Types
<1>00. commands < MaxCommands => commands + 1 \in 0..MaxCommands
  BY <1>0, SessionsAssumption DEF OtherType
<1> USE CallerParts DEF CommandStays
<1>1. CASE CompactHeard
  <2>1. OtherType' /\ UNCHANGED <<sessionVars, using>> /\ UNCHANGED memoryVars
    BY <1>0, <1>1 DEF CompactHeard, OtherType, queryVars
  <2>2. QED BY <1>0, <2>1 DEF Types, sessionVars, memoryVars, SessionType, MemoryType
<1>2. CASE CompactClears
  <2>1. SessionType'
    BY <1>0, <1>2, ClearType DEF CompactClears, queryVars
  <2>2. OtherType' /\ UNCHANGED memoryVars
    BY <1>0, <1>2 DEF CompactClears, OtherType, queryVars
  <2>3. QED BY <1>0, <2>1, <2>2 DEF Types, memoryVars, MemoryType
<1>3. CASE CompactBegins
  <2>1. MemoryType'
    BY <1>0, <1>3, StartType DEF CompactBegins
  <2>2. OtherType' /\ UNCHANGED <<sessionVars, using>>
    BY <1>0, <1>00, <1>3 DEF CompactBegins, OtherType, queryVars
  <2>3. QED BY <1>0, <2>1, <2>2 DEF Types, sessionVars, SessionType
<1>4. CASE Reset
  <2>1. SessionType'
    BY <1>0, <1>4, ClearType DEF Reset, queryVars
  <2>2. MemoryType'
    BY <1>0, <1>4, StartType DEF Reset, MayStartAside
  <2>3. OtherType'
    BY <1>0, <1>00, <1>4 DEF Reset, OtherType, queryVars
  <2>4. QED BY <2>1, <2>2, <2>3 DEF Types
<1>5. CASE ClearMemory
  <2>1. MemoryType'
    BY <1>0, <1>5 DEF ClearMemory, MemoryType
  <2>2. excuse' \in SUBSET Waiters
    BY <1>0, <1>5 DEF ClearMemory, OtherType, Waiting
  <2>3. OtherType' /\ UNCHANGED <<sessionVars, using>>
    BY <1>0, <1>00, <1>5, <2>2 DEF ClearMemory, OtherType, queryVars
  <2>4. QED BY <1>0, <2>1, <2>3 DEF Types, sessionVars, SessionType
<1>6. QED
  BY <1>1, <1>2, <1>3, <1>4, <1>5 DEF CompactStep

LEMMA TypeStep ==
  ASSUME Types, [Next]_vars
  PROVE  Types'
<1>1. CASE UNCHANGED vars
  BY <1>1 DEF vars, sessionVars, memoryVars, queryVars, Types, MemoryType, SessionType, OtherType
<1>2. ASSUME NEW c \in Callers, UpdateStep(c) PROVE Types'
  BY <1>2, UpdateType DEF Types, sessionVars, SessionType
<1>3. QED
  BY <1>1, <1>2, QueryType, GuardType, CommandType DEF Next

----------------------------------------------------------------------------
(* The memory goes forward                                                 *)

\* The thread between Lock and Unlock is the one that has the lock, and what it has read is not
\* older than what is saved.
Inside(c) == update[c] \in {"read", "save", "after"}

LockInv ==
  /\ memory <= log
  /\ \A c \in Callers : /\ upto[c] <= log
                        /\ Inside(c) => lock = c
                        /\ update[c] \in {"read", "save"} => upto[c] >= memory

\* What the steps outside of an update may do to it.
Aside ==
  /\ memory' \in {memory, 0}
  /\ \A c \in Callers : /\ upto'[c] = upto[c]
                        /\ update'[c] = update[c] \/ (update[c] = "idle" /\ update'[c] = "start")
  /\ lock' = lock \/ (lock = "free" /\ lock' = "waiter") \/ (lock = "waiter" /\ lock' = "free")

LEMMA LogForward ==
  ASSUME Types, [Next]_vars
  PROVE  log' >= log
<1>0. log \in Nat
  BY DEF Types, OtherType
<1>1. log' = log \/ log' = log + 1
  BY DEF Next, QueryStep, Ask, Resume, Open, Send, Retry, Fails, Result, Count, Commit, Finish, Named,
         UpdateStep, Lock, LockBusy, Summarise, SaveMemory, Unlock,
         GuardStep, Settle, Settled, SettleTimesOut, WaitLock, ReleaseLock, GuardClears, GuardMarks,
         CompactStep, CompactHeard, CompactClears, CompactBegins, Reset, ClearMemory, vars
<1>2. QED
  BY <1>0, <1>1

LEMMA StartAside ==
  ASSUME Types, NEW c \in Callers, StartUpdate(c) \/ UNCHANGED memoryVars
  PROVE  Aside
  BY DEF StartUpdate, Aside, memoryVars, Types, MemoryType

LEMMA OthersAside ==
  ASSUME Types, [Next]_vars, \A c \in Callers : ~UpdateStep(c)
  PROVE  Aside
<1>0. ASSUME UNCHANGED memoryVars PROVE Aside
  BY <1>0 DEF Aside, memoryVars
<1>1. CASE UNCHANGED vars
  BY <1>0, <1>1 DEF vars
<1>2. ASSUME NEW q \in Queries, QueryStep(q) \/ Named(q) PROVE Aside
  <2>1. CASE Finish(q)
    BY <2>1, StartAside, CallerParts DEF Finish, MayStartAside
  <2>2. CASE ~Finish(q)
    BY <1>0, <1>2, <2>2
       DEF QueryStep, Ask, Resume, Open, Send, Retry, Fails, Result, Count, Commit, Named
  <2>3. QED BY <2>1, <2>2
<1>3. CASE GuardStep
  <2>1. CASE Settle \/ GuardMarks
    BY <2>1, StartAside, CallerParts DEF Settle, GuardMarks, MayStartAside
  <2>2. CASE Settled \/ SettleTimesOut \/ GuardClears
    BY <1>0, <2>2 DEF Settled, SettleTimesOut, GuardClears
  <2>3. CASE WaitLock \/ ReleaseLock
    BY <2>3 DEF WaitLock, ReleaseLock, Aside
  <2>4. QED BY <1>3, <2>1, <2>2, <2>3 DEF GuardStep
<1>4. CASE CompactStep \/ CompactBegins \/ Reset
  BY <1>0, <1>4, StartAside, CallerParts
     DEF CompactStep, CompactHeard, CompactClears, CompactBegins, Reset, MayStartAside
<1>5. CASE ClearMemory
  BY <1>5 DEF ClearMemory, Aside
<1>6. QED
  BY <1>1, <1>2, <1>3, <1>4, <1>5 DEF Next

LEMMA LockStep ==
  ASSUME Types, LockInv, [Next]_vars
  PROVE  LockInv'
<1>0. /\ memory \in Nat /\ log \in Nat /\ log' >= log /\ log' \in Nat
      /\ \A c \in Callers : upto[c] \in Nat
  <2>1. Types'
    BY TypeParts, TypeStep
  <2>2. QED BY <2>1, LogForward DEF Types, OtherType, MemoryType
<1>1. ASSUME Aside PROVE LockInv'
  BY <1>0, <1>1, CallerParts DEF Aside, LockInv, Inside
<1>2. ASSUME NEW c \in Callers, UpdateStep(c) PROVE LockInv'
  <2>0. log' = log
    BY <1>2 DEF UpdateStep, Lock, LockBusy, Summarise, SaveMemory, Unlock
  <2> USE DEF LockInv, Inside, Types, MemoryType
  <2>1. CASE Lock(c)
    <3>1. \A d \in Callers : ~Inside(d)
      BY <2>1, CallerParts DEF Lock
    <3>2. /\ memory' = memory /\ lock' = c /\ \A d \in Callers : upto'[d] \in {upto[d], log}
          /\ upto'[c] = log /\ \A d \in Callers : d # c => update'[d] = update[d]
      BY <2>1 DEF Lock
    <3>3. QED BY <1>0, <2>0, <3>1, <3>2
  <2>2. CASE LockBusy(c)
    BY <1>0, <2>2 DEF LockBusy
  <2>3. CASE Summarise(c)
    BY <1>0, <2>3 DEF Summarise
  <2>4. CASE SaveMemory(c)
    <3>1. lock = c /\ lock' = lock /\ update' = [update EXCEPT ![c] = "after"] /\ upto' = upto
          /\ memory' \in {memory, upto[c]}
      BY <2>4 DEF SaveMemory
    <3>2. \A d \in Callers : /\ update'[d] \notin {"read", "save"}
                             /\ update'[d] = "after" => lock = d
      BY <2>4, <3>1 DEF SaveMemory
    <3>3. QED BY <1>0, <2>0, <3>1, <3>2
  <2>5. CASE Unlock(c)
    BY <1>0, <2>5 DEF Unlock
  <2>6. QED BY <1>2, <2>1, <2>2, <2>3, <2>4, <2>5 DEF UpdateStep
<1>3. QED
  BY <1>1, <1>2, OthersAside

LEMMA UpdateForward ==
  ASSUME Types, LockInv, NEW c \in Callers, UpdateStep(c)
  PROVE  memory' >= memory
<1>1. memory' = memory \/ (update[c] = "save" /\ memory' = upto[c])
  BY DEF UpdateStep, Lock, LockBusy, Summarise, SaveMemory, Unlock
<1>2. QED BY <1>1 DEF LockInv, Types, MemoryType

LEMMA ForwardStep ==
  ASSUME Types, LockInv, [Next]_vars
  PROVE  memory' >= memory \/ (ClearMemory /\ memory' = 0 /\ commands' = commands + 1)
<1>0. memory \in Nat /\ memory >= memory
  BY DEF Types, MemoryType
<1>1. ASSUME NEW c \in Callers, UpdateStep(c) PROVE memory' >= memory
  BY <1>1, UpdateForward
<1>2. CASE UNCHANGED vars
  BY <1>0, <1>2 DEF vars, memoryVars
<1>3. ASSUME NEW q \in Queries, QueryStep(q) \/ Named(q) PROVE memory' = memory
  BY <1>3 DEF QueryStep, Ask, Resume, Open, Send, Retry, Fails, Result, Count, Commit, Named, Finish,
              MayStartAside, StartUpdate, memoryVars
<1>4. CASE GuardStep \/ CompactStep \/ CompactBegins \/ Reset
  BY <1>0, <1>4 DEF GuardStep, Settle, Settled, SettleTimesOut, WaitLock, ReleaseLock, GuardClears,
              GuardMarks, CompactStep, CompactHeard, CompactClears, CompactBegins, Reset,
              MayStartAside, StartUpdate, memoryVars
<1>5. CASE ClearMemory
  BY <1>5 DEF ClearMemory
<1>6. QED
  BY <1>0, <1>1, <1>2, <1>3, <1>4, <1>5 DEF Next

----------------------------------------------------------------------------
(* Nothing is cleared before it was summed up                              *)

Asking(w) ==
  \/ w = "guard" /\ guard \in {"wait", "second"}
  \/ w = "compact" /\ compact = "waits"

Clearing(w) ==
  \/ w = "guard" /\ guard = "clear"
  \/ w = "compact" /\ compact = "clear"

Covered(w) == memory >= base[w] \/ w \in excuse

\* Who is told that the summary is there can rely on it, or has the excuse.
Kept(w) ==
  /\ Asking(w) =>
       /\ base[w] <= log
       /\ update[w] \in {"read", "save"} => upto[w] >= base[w]
       /\ answer[w] = "ok" => Covered(w)
       /\ answer[w] = "failed" => w = "compact" \/ w \in excuse
  /\ Clearing(w) => Covered(w)

KeptInv == \A w \in Waiters : Kept(w)

\* The numbers of the memory, and that of the log in the next state.
Numbers ==
  /\ memory \in Nat /\ memory' \in Nat /\ log \in Nat /\ log' \in Nat /\ log' >= log
  /\ \A w \in Waiters : base[w] \in Nat /\ upto[w] \in Nat

LEMMA NumbersStep ==
  ASSUME Types, [Next]_vars
  PROVE  Numbers
<1>1. Types'
  BY TypeStep
<1>2. QED
  BY <1>1, LogForward, CallerParts DEF Numbers, Types, MemoryType, OtherType

\* A step that does not concern a waiter, but that the memory may go forward.
LEMMA KeptStays ==
  ASSUME Numbers, NEW w \in Waiters, Kept(w), memory' >= memory \/ w \in excuse',
         Asking(w)' => Asking(w), Clearing(w)' => Clearing(w),
         base'[w] = base[w], answer'[w] = answer[w], upto'[w] = upto[w],
         update'[w] \in {"read", "save"} => update[w] \in {"read", "save"},
         w \in excuse => w \in excuse'
  PROVE  Kept(w)'
<1>1. Covered(w) => Covered(w)'
  BY DEF Covered, Numbers
<1>2. QED
  BY <1>1 DEF Kept, Numbers

LEMMA KeptUpdate ==
  ASSUME Types, LockInv, KeptInv, [Next]_vars, NEW c \in Callers, UpdateStep(c), NEW w \in Waiters
  PROVE  Kept(w)'
<1>0. Numbers /\ Kept(w)
  BY NumbersStep DEF KeptInv
<1>00. UNCHANGED <<guard, compact, base, log>> /\ excuse \subseteq excuse'
  BY DEF UpdateStep, Lock, LockBusy, Summarise, SaveMemory, Unlock
<1>01. memory' >= memory
  BY UpdateForward
<1>1. Asking(w)' = Asking(w) /\ Clearing(w)' = Clearing(w)
  BY <1>00 DEF Asking, Clearing
<1>2. CASE w # c
  <2>1. answer'[w] = answer[w] /\ upto'[w] = upto[w] /\ update'[w] = update[w]
    BY <1>2, CallerParts DEF UpdateStep, Lock, LockBusy, Summarise, SaveMemory, Unlock, Tell,
       Types, MemoryType
  <2>2. QED BY <1>0, <1>00, <1>01, <1>1, <2>1, KeptStays
<1>3. CASE w = c
  <2>1. Covered(w) => Covered(w)'
    BY <1>0, <1>00, <1>01 DEF Covered, Numbers
  <2>2. CASE Lock(c)
    <3>1. upto'[w] = log /\ answer'[w] = answer[w]
      BY <1>3, <2>2 DEF Lock, Types, MemoryType
    <3>2. QED BY <1>0, <1>00, <1>1, <2>1, <3>1 DEF Kept, Numbers
  <2>3. CASE LockBusy(c)
    <3>1. answer'[w] = "busy" /\ update'[w] = "idle"
      BY <1>3, <2>3 DEF LockBusy, Tell, Types, MemoryType
    <3>2. QED BY <1>0, <1>00, <1>1, <2>1, <3>1 DEF Kept, Numbers
  <2>4. CASE Summarise(c)
    <3>1. CASE update' = [update EXCEPT ![c] = "save"] /\ UNCHANGED <<answer, excuse>>
      <4>1. update[w] = "read" /\ upto' = upto
        BY <1>3, <2>4 DEF Summarise
      <4>2. QED BY <1>0, <1>00, <1>1, <2>1, <3>1, <4>1 DEF Kept, Numbers
    <3>2. CASE /\ update' = [update EXCEPT ![c] = "after"] /\ Tell(c, "failed")
               /\ excuse' = excuse \cup ({c} \cap {"guard"} \cap Waiting)
      <4>1. answer'[w] = "failed" /\ update'[w] = "after"
        BY <1>3, <3>2 DEF Tell, Types, MemoryType
      <4>2. Asking(w) => w = "compact" \/ w \in excuse'
        BY <1>3, <3>2 DEF Asking, Waiting
      <4>3. QED BY <1>0, <1>00, <1>1, <2>1, <4>1, <4>2 DEF Kept, Numbers
    <3>3. QED BY <2>4, <3>1, <3>2 DEF Summarise
  <2>5. CASE SaveMemory(c)
    <3>1. answer'[w] = "ok" /\ update'[w] = "after" /\ update[w] = "save"
      BY <1>3, <2>5 DEF SaveMemory, Tell, Types, MemoryType
    <3>2. Asking(w) => Covered(w)'
      <4>1. memory' = upto[w] \/ excuse' = excuse \cup ({c} \cap Waiting)
        BY <1>3, <2>5 DEF SaveMemory
      <4>2. Asking(w) => w \in Waiting
        BY DEF Asking, Waiting
      <4>3. QED BY <1>0, <1>00, <1>3, <3>1, <4>1, <4>2 DEF Kept, Covered, Numbers
    <3>3. QED BY <1>0, <1>00, <1>1, <2>1, <3>1, <3>2 DEF Kept, Numbers
  <2>6. CASE Unlock(c)
    <3>1. answer'[w] = answer[w] /\ update'[w] = "idle"
      BY <1>3, <2>6 DEF Unlock, Types, MemoryType
    <3>2. QED BY <1>0, <1>00, <1>1, <2>1, <3>1 DEF Kept, Numbers
  <2>7. QED BY <2>2, <2>3, <2>4, <2>5, <2>6 DEF UpdateStep
<1>4. QED BY <1>2, <1>3

\* The steps of the others leave what a waiter was told alone, and what it has read.
LEMMA KeptOthers ==
  ASSUME Types, LockInv, KeptInv, [Next]_vars, NEW w \in Waiters,
         StartUpdate("aside") \/ UNCHANGED memoryVars,
         Asking(w)' => Asking(w), Clearing(w)' => Clearing(w), base'[w] = base[w],
         w \in excuse => w \in excuse'
  PROVE  Kept(w)'
<1>1. Numbers /\ memory' >= memory /\ Kept(w)
  BY NumbersStep DEF KeptInv, Numbers, StartUpdate, memoryVars
<1>2. answer'[w] = answer[w] /\ upto'[w] = upto[w] /\ update'[w] = update[w]
  BY CallerParts DEF StartUpdate, Tell, memoryVars, Types, MemoryType
<1>3. QED
  BY <1>1, <1>2, KeptStays

LEMMA KeptGuard ==
  ASSUME Types, LockInv, KeptInv, [Next]_vars, GuardStep, NEW w \in Waiters
  PROVE  Kept(w)'
<1>0. Numbers /\ Kept(w)
  BY NumbersStep DEF KeptInv
<1>1. w \in {"guard", "compact"}
  BY CallerParts
<1>2. memory' = memory /\ compact' = compact /\ log' >= log
  BY <1>0 DEF GuardStep, Settle, Settled, SettleTimesOut, WaitLock, ReleaseLock, GuardClears,
              GuardMarks, MayStartAside, StartUpdate, memoryVars, GuardStays, Numbers
<1>3. CASE Settle
  <2>1. CASE w = "guard"
    <3>1. answer'[w] = "none" /\ update'[w] = "start" /\ base'[w] = log /\ guard' # "clear"
      BY <1>3, <2>1, CallerParts DEF Settle, StartUpdate, Tell, Types, MemoryType, OtherType
    <3>2. QED BY <1>0, <1>2, <2>1, <3>1 DEF Kept, Asking, Clearing, Numbers
  <2>2. CASE w = "compact"
    <3>1. /\ answer'[w] = answer[w] /\ upto'[w] = upto[w] /\ update'[w] = update[w]
          /\ base'[w] = base[w] /\ (w \in excuse => w \in excuse')
      BY <1>3, <2>2, CallerParts DEF Settle, StartUpdate, Tell, Types, MemoryType, OtherType
    <3>2. Asking(w)' = Asking(w) /\ Clearing(w)' = Clearing(w)
      BY <1>2, <2>2 DEF Asking, Clearing
    <3>3. memory' >= memory
      BY <1>0, <1>2 DEF Numbers
    <3>4. QED BY <1>0, <3>1, <3>2, <3>3, KeptStays
  <2>3. QED BY <1>1, <2>1, <2>2
<1>4. CASE Settled \/ SettleTimesOut
  <2>0. UNCHANGED <<memory, base, update, upto, answer, log>> /\ excuse \subseteq excuse'
    BY <1>4 DEF Settled, SettleTimesOut, memoryVars
  <2>1. Covered(w) => Covered(w)'
    BY <2>0 DEF Covered
  <2>2. Asking(w)' => Asking(w)
    BY <1>2, <1>4 DEF Settled, SettleTimesOut, Asking
  <2>3. Clearing(w)' => Covered(w)'
    <3>1. CASE w = "compact"
      BY <1>0, <1>2, <2>1, <3>1 DEF Clearing, Kept
    <3>2. CASE w = "guard" /\ guard' = "clear"
      <4>1. guard \in {"wait", "second"} /\ (answer[w] \in {"ok", "failed"} \/ w \in excuse')
        BY <1>4, <3>2, CallerParts DEF Settled, SettleTimesOut, Types, MemoryType
      <4>2. Asking(w)
        BY <3>2, <4>1 DEF Asking
      <4>3. Covered(w) \/ w \in excuse'
        BY <1>0, <3>2, <4>1, <4>2 DEF Kept, Covered
      <4>4. QED BY <2>1, <4>3 DEF Covered
    <3>3. QED BY <1>1, <3>1, <3>2 DEF Clearing
  <2>4. QED BY <1>0, <2>0, <2>1, <2>2, <2>3 DEF Kept
<1>5. CASE WaitLock \/ ReleaseLock
  <2>1. /\ UNCHANGED <<memory, base, update, upto, answer, excuse>>
        /\ Asking(w)' = Asking(w) /\ Clearing(w)' = Clearing(w)
    BY <1>5 DEF WaitLock, ReleaseLock, Asking, Clearing, GuardStays
  <2>2. memory' >= memory
    BY <1>0, <1>2 DEF Numbers
  <2>3. QED BY <1>0, <2>1, <2>2, KeptStays
<1>6. CASE GuardClears
  <2>1. CASE w = "guard"
    BY <1>6, <2>1 DEF GuardClears, Kept, Asking, Clearing
  <2>2. CASE w = "compact"
    <3>1. UNCHANGED <<update, upto, answer>> /\ base'[w] = base[w] /\ (w \in excuse => w \in excuse')
      BY <1>6, <2>2, CallerParts DEF GuardClears, memoryVars, Types, OtherType
    <3>2. Asking(w)' = Asking(w) /\ Clearing(w)' = Clearing(w) /\ memory' >= memory
      BY <1>0, <1>2, <2>2 DEF Asking, Clearing, Numbers
    <3>3. QED BY <1>0, <3>1, <3>2, KeptStays
  <2>3. QED BY <1>1, <2>1, <2>2
<1>7. CASE GuardMarks
  <2>1. /\ StartUpdate("aside") \/ UNCHANGED memoryVars
        /\ UNCHANGED <<base, excuse>>
        /\ Asking(w)' => Asking(w)
        /\ Clearing(w)' => Clearing(w)
    BY <1>2, <1>7 DEF GuardMarks, MayStartAside, Asking, Clearing
  <2>2. QED BY <2>1, KeptOthers
<1>8. QED
  BY <1>3, <1>4, <1>5, <1>6, <1>7 DEF GuardStep

LEMMA KeptCommand ==
  ASSUME Types, LockInv, KeptInv, [Next]_vars,
         CompactStep \/ CompactBegins \/ Reset \/ ClearMemory, NEW w \in Waiters
  PROVE  Kept(w)'
<1>0. Numbers /\ Kept(w)
  BY NumbersStep DEF KeptInv
<1>1. w \in {"guard", "compact"}
  BY CallerParts
<1>2. guard' = guard
  BY DEF CompactStep, CompactHeard, CompactClears, CompactBegins, Reset, ClearMemory, CommandStays
<1>3. CASE CompactHeard
  <2>1. UNCHANGED <<memory, base, update, upto, answer, log, excuse>>
    BY <1>3 DEF CompactHeard, memoryVars
  <2>2. CASE w = "guard"
    BY <1>0, <1>2, <2>1, <2>2 DEF Kept, Asking, Clearing, Covered
  <2>3. CASE w = "compact"
    BY <1>0, <1>3, <2>1, <2>3 DEF CompactHeard, Kept, Asking, Clearing, Covered
  <2>4. QED BY <1>1, <2>2, <2>3
<1>4. CASE CompactClears
  <2>1. UNCHANGED <<memory, update, upto, answer, log>>
    BY <1>4 DEF CompactClears, memoryVars
  <2>2. CASE w = "guard"
    <3>1. base'[w] = base[w] /\ (w \in excuse => w \in excuse')
      BY <1>4, <2>2, CallerParts DEF CompactClears, Types, OtherType
    <3>2. QED BY <1>0, <1>2, <2>1, <2>2, <3>1 DEF Kept, Asking, Clearing, Covered
  <2>3. CASE w = "compact"
    BY <1>4, <2>3 DEF CompactClears, Kept, Asking, Clearing
  <2>4. QED BY <1>1, <2>2, <2>3
<1>5. CASE CompactBegins
  <2>1. memory' = memory /\ log' = log /\ excuse' = excuse
    BY <1>5 DEF CompactBegins, StartUpdate
  <2>2. CASE w = "guard"
    <3>1. /\ answer'[w] = answer[w] /\ upto'[w] = upto[w] /\ update'[w] = update[w]
          /\ base'[w] = base[w]
      BY <1>5, <2>2, CallerParts DEF CompactBegins, StartUpdate, Tell, Types, MemoryType, OtherType
    <3>2. QED BY <1>0, <1>2, <2>1, <2>2, <3>1 DEF Kept, Asking, Clearing, Covered
  <2>3. CASE w = "compact"
    <3>1. answer'[w] = "none" /\ update'[w] = "start" /\ base'[w] = log /\ compact' = "waits"
      BY <1>5, <2>3, CallerParts DEF CompactBegins, StartUpdate, Tell, Types, MemoryType, OtherType
    <3>2. QED BY <1>0, <2>1, <2>3, <3>1 DEF Kept, Asking, Clearing, Numbers
  <2>4. QED BY <1>1, <2>2, <2>3
<1>6. CASE Reset
  <2>1. /\ StartUpdate("aside") \/ UNCHANGED memoryVars
        /\ UNCHANGED <<base, excuse, compact>>
    BY <1>6 DEF Reset, MayStartAside
  <2>2. QED BY <1>2, <2>1, KeptOthers DEF Asking, Clearing
<1>7. CASE ClearMemory
  <2>1. /\ UNCHANGED <<base, update, upto, answer, log, compact>>
        /\ excuse' = excuse \cup Waiting
    BY <1>7 DEF ClearMemory
  <2>2. Asking(w) \/ Clearing(w) => w \in excuse'
    BY <2>1 DEF Asking, Clearing, Waiting
  <2>3. Asking(w)' = Asking(w) /\ Clearing(w)' = Clearing(w)
    BY <1>2, <2>1 DEF Asking, Clearing
  <2>4. QED BY <1>0, <2>1, <2>2, <2>3 DEF Kept, Covered
<1>8. QED
  BY <1>3, <1>4, <1>5, <1>6, <1>7 DEF CompactStep

LEMMA KeptStep ==
  ASSUME Types, LockInv, KeptInv, [Next]_vars
  PROVE  KeptInv'
<1> SUFFICES ASSUME NEW w \in Waiters PROVE Kept(w)'
  BY DEF KeptInv
<1>1. CASE UNCHANGED vars
  BY <1>1 DEF vars, memoryVars, KeptInv, Kept, Asking, Clearing, Covered
<1>2. ASSUME NEW q \in Queries, QueryStep(q) \/ Named(q) PROVE Kept(w)'
  <2>1. /\ StartUpdate("aside") \/ UNCHANGED memoryVars
        /\ UNCHANGED <<base, excuse, compact>>
        /\ guard' = guard \/ guard' = "first"
    BY <1>2 DEF QueryStep, Ask, Resume, Open, Send, Retry, Fails, Result, Count, Commit, Named,
                Finish, MayStartAside
  <2>2. (Asking(w)' => Asking(w)) /\ (Clearing(w)' => Clearing(w))
    BY <2>1 DEF Asking, Clearing
  <2>3. QED BY <2>1, <2>2, KeptOthers
<1>3. QED
  BY <1>1, <1>2, KeptUpdate, KeptGuard, KeptCommand DEF Next

LEMMA ClearedStep ==
  ASSUME KeptInv
  PROVE  /\ compact = "clear" => memory >= base["compact"] \/ "compact" \in excuse
         /\ guard = "clear" => memory >= base["guard"] \/ "guard" \in excuse
  BY CallerParts DEF KeptInv, Kept, Clearing, Covered

----------------------------------------------------------------------------
(* The records of the documents                                            *)

Past(q) == pc[q] \in {"counting", "guarded", "answered"}

\* As long as the session is not cleared under a query and its id is saved: a record stands for a
\* session, whose id is known; whatever session a query uses was given the document; a query leaves
\* the body out only while there is a record, and its session is still the one it was sent to or one
\* like it.
DocInv ==
  /\ \A q \in Queries : Called(q) \/ Past(q) => using[q] # 0
  /\ torn = {} =>
       /\ record # {} => sid # 0
       /\ sid # 0 => sid \in given
       /\ \A q \in Queries :
            /\ Called(q) \/ Past(q) => using[q] \in given
            /\ Running(q) /\ text[q] = "marker" => record # {}
            /\ Past(q) => sid # 0
            /\ pc[q] = "again" => text[q] = "body"

\* The session may be cleared without a trace in torn only where nobody has read the records, or
\* only one that will send the body again.
LEMMA DocCleared ==
  ASSUME Types, NEW under, ClearSid(under), torn' = {}
  PROVE  sid' = 0 /\ record' = {} /\ under = {} /\ given' = given
  BY DEF ClearSid

LEMMA DocSame ==
  ASSUME DocInv, UNCHANGED <<sid, record, torn, given, pc, text, using>>
  PROVE  DocInv'
  BY DEF DocInv, Called, Past, Running

LEMMA DocClearedAll ==
  ASSUME Types, DocInv, ClearSid(AllRunning), UNCHANGED queryVars
  PROVE  DocInv'
<1>1. \A q \in Queries : Called(q) \/ Past(q) => Running(q)
  BY DEF Called, Past, Running
<1>2. ASSUME torn' = {} PROVE \A q \in Queries : ~Running(q)
  BY <1>2, DocCleared DEF AllRunning
<1>3. UNCHANGED <<pc, text, using>>
  BY DEF queryVars
<1>4. ASSUME torn' = {} PROVE sid' = 0 /\ record' = {} /\ given' = given
  BY <1>4, DocCleared
<1>5. QED
  BY <1>1, <1>2, <1>3, <1>4 DEF DocInv, Called, Past, Running

LEMMA DocQuery ==
  ASSUME Types, DocInv, NEW q \in Queries, QueryStep(q) \/ Named(q)
  PROVE  DocInv'
<1> USE DEF Types, SessionType, OtherType, PCs
<1>1. CASE Ask(q)
  <2>1. UNCHANGED <<sid, record, torn, given, using>>
    BY <1>1 DEF Ask, sessionVars
  <2>2. /\ pc' = [pc EXCEPT ![q] = "asked"]
        /\ text' = [text EXCEPT ![q] = IF record = {} THEN "body" ELSE "marker"]
    BY <1>1 DEF Ask
  <2>3. \A r \in Queries : r # q => pc'[r] = pc[r] /\ text'[r] = text[r]
    BY <2>2
  <2>4. pc'[q] = "asked" /\ (text'[q] = "marker" => record # {})
    BY <2>2
  <2>5. QED BY <2>1, <2>3, <2>4 DEF DocInv, Called, Past, Running
<1>2. CASE Resume(q) \/ Open(q)
  <2>0. UNCHANGED <<sid, record, torn, text>>
    BY <1>2 DEF Resume, Open, Send
  <2>1. /\ pc'[q] \in {"resumed", "opened"} /\ Running(q) /\ ~Past(q) /\ ~Called(q)
        /\ \A r \in Queries : r # q => pc'[r] = pc[r] /\ using'[r] = using[r]
    BY <1>2 DEF Resume, Open, Send, Running, Past, Called
  <2>2. given \subseteq given'
    BY <1>2 DEF Resume, Open, Send
  <2>3. using'[q] # 0 /\ (torn = {} => using'[q] \in given')
    <3>1. CASE Resume(q)
      <4>1. using'[q] = sid /\ sid # 0
        BY <3>1 DEF Resume, Send
      <4>2. QED BY <2>2, <4>1 DEF DocInv
    <3>2. CASE Open(q)
      <4>1. using'[q] = fresh + 1 /\ fresh \in Nat
        BY <3>2 DEF Open, Send
      <4>2. text[q] = "body" => using'[q] \in given'
        BY <3>2, <4>1 DEF Open, Send
      <4>3. torn = {} => text[q] = "body"
        BY <2>1, <3>2 DEF Open, DocInv
      <4>4. QED BY <4>1, <4>2, <4>3
    <3>3. QED BY <1>2, <3>1, <3>2
  <2>4. QED BY <2>0, <2>1, <2>2, <2>3 DEF DocInv, Called, Past, Running
<1>3. CASE Named(q)
  <2>1. UNCHANGED <<record, torn, given, pc, text, using>> /\ sid' = using[q] /\ Called(q)
    BY <1>3 DEF Named, queryVars
  <2>2. QED BY <2>1 DEF DocInv, Called, Past, Running
<1>4. CASE Result(q)
  <2>1. /\ UNCHANGED <<record, given, text, using>> /\ Called(q)
        /\ torn' = {} => torn = {} /\ sid' = using[q]
    BY <1>4 DEF Result
  <2>2. pc'[q] = "counting" /\ \A r \in Queries : r # q => pc'[r] = pc[r]
    BY <1>4 DEF Result
  <2>3. QED BY <2>1, <2>2 DEF DocInv, Called, Past, Running
<1>5. CASE Retry(q)
  <2>1. /\ UNCHANGED <<text, using>> /\ pc[q] = "resumed" /\ pc'[q] = "again"
        /\ \A r \in Queries : r # q => pc'[r] = pc[r]
        /\ ClearSid(AllRunning \ {r \in {q} : text[r] = "body"})
    BY <1>5 DEF Retry
  <2>2. ASSUME torn' = {}
        PROVE  /\ sid' = 0 /\ record' = {} /\ given' = given
               /\ AllRunning \subseteq {r \in {q} : text[r] = "body"}
    BY <2>1, <2>2, DocCleared
  <2>3. q \in AllRunning
    BY <2>1 DEF AllRunning, Running
  <2>4. ASSUME torn' = {} PROVE text[q] = "body" /\ \A r \in Queries : r # q => ~Running(r)
    BY <2>2, <2>3, <2>4 DEF AllRunning
  <2>5. QED BY <2>1, <2>2, <2>4 DEF DocInv, Called, Past, Running
<1>6. CASE Fails(q) \/ Finish(q)
  <2>1. UNCHANGED <<sid, record, torn, given>>
    BY <1>6 DEF Fails, Finish, sessionVars
  <2>2. /\ pc'[q] = "done"
        /\ \A r \in Queries : r # q => pc'[r] = pc[r] /\ text'[r] = text[r] /\ using'[r] = using[r]
    BY <1>6 DEF Fails, Finish, Ends
  <2>3. QED BY <2>1, <2>2 DEF DocInv, Called, Past, Running
<1>7. CASE Count(q)
  <2>1. UNCHANGED <<sid, record, torn, given, text, using>>
    BY <1>7 DEF Count, sessionVars
  <2>2. pc[q] = "counting" /\ pc'[q] \in {"guarded", "answered"} /\ \A r \in Queries : r # q => pc'[r] = pc[r]
    BY <1>7 DEF Count
  <2>3. QED BY <2>1, <2>2 DEF DocInv, Called, Past, Running
<1>8. CASE Commit(q)
  <2>1. UNCHANGED <<sid, torn, given, text, using>> /\ record' \in {record, {"doc"}} /\ pc[q] = "answered"
    BY <1>8 DEF Commit
  <2>2. pc'[q] = "committed" /\ \A r \in Queries : r # q => pc'[r] = pc[r]
    BY <1>8 DEF Commit
  <2>3. QED BY <2>1, <2>2 DEF DocInv, Called, Past, Running
<1>9. QED
  BY <1>1, <1>2, <1>3, <1>4, <1>5, <1>6, <1>7, <1>8 DEF QueryStep

LEMMA DocStep ==
  ASSUME Types, DocInv, [Next]_vars
  PROVE  DocInv'
<1>1. CASE UNCHANGED vars
  BY <1>1, DocSame DEF vars, sessionVars, queryVars
<1>2. ASSUME NEW c \in Callers, UpdateStep(c) PROVE DocInv'
  <2>1. UNCHANGED <<sessionVars, queryVars>>
    BY <1>2 DEF UpdateStep, Lock, LockBusy, Summarise, SaveMemory, Unlock
  <2>2. QED BY <2>1, DocSame DEF sessionVars, queryVars
<1>3. CASE Settle \/ Settled \/ SettleTimesOut \/ WaitLock \/ ReleaseLock
  <2>1. UNCHANGED <<sessionVars, queryVars>>
    BY <1>3 DEF Settle, Settled, SettleTimesOut, WaitLock, ReleaseLock, GuardStays
  <2>2. QED BY <2>1, DocSame DEF sessionVars, queryVars
<1>4. CASE GuardClears \/ CompactClears \/ Reset
  BY <1>4, DocClearedAll DEF GuardClears, CompactClears, Reset, CommandStays
<1>5. CASE GuardMarks
  <2>1. UNCHANGED <<sid, record, torn, given, text, using>>
    BY <1>5 DEF GuardMarks, sessionVars
  <2>2. PICK q \in Queries : pc[q] = "guarded" /\ pc' = [pc EXCEPT ![q] = "answered"]
    BY <1>5 DEF GuardMarks
  <2>3. pc'[q] = "answered" /\ \A r \in Queries : r # q => pc'[r] = pc[r]
    BY <2>2 DEF Types, OtherType
  <2>4. QED BY <2>1, <2>2, <2>3 DEF DocInv, Called, Past, Running
<1>6. CASE CompactHeard \/ CompactBegins \/ ClearMemory
  <2>1. UNCHANGED <<sessionVars, queryVars>>
    BY <1>6 DEF CompactHeard, CompactBegins, ClearMemory, CommandStays
  <2>2. QED BY <2>1, DocSame DEF sessionVars, queryVars
<1>7. QED
  BY <1>1, <1>2, <1>3, <1>4, <1>5, <1>6, DocQuery DEF Next, GuardStep, CompactStep

----------------------------------------------------------------------------
(* The theorems                                                            *)

SessionsInv == Types /\ LockInv /\ KeptInv /\ DocInv

LEMMA SessionsInvariant == Spec => []SessionsInv
<1>1. Init => SessionsInv
  <2> SUFFICES ASSUME Init PROVE SessionsInv
    OBVIOUS
  <2>1. Types
    BY SessionsAssumption, CallerParts
       DEF Init, Types, MemoryType, SessionType, OtherType, PCs
  <2>2. LockInv
    BY CallerParts DEF Init, LockInv, Inside
  <2>3. KeptInv
    BY CallerParts DEF Init, KeptInv, Kept, Asking, Clearing
  <2>4. DocInv
    BY DEF Init, DocInv, Called, Past, Running
  <2>5. QED BY <2>1, <2>2, <2>3, <2>4 DEF SessionsInv
<1>2. SessionsInv /\ [Next]_vars => SessionsInv'
  BY TypeStep, LockStep, KeptStep, DocStep DEF SessionsInv
<1>3. QED
  BY <1>1, <1>2, PTL DEF Spec

\* Every variable of a chat's session and memory stays in its range.
THEOREM TypeSafe == Spec => []TypeOK
<1>1. SessionsInv => TypeOK
  BY TypeParts DEF SessionsInv
<1>2. QED
  BY <1>1, SessionsInvariant, PTL

\* Among any number of overlapping queries, a record of a document stands for a session that was
\* given its body, unless the session was cleared under a query that relies on the old one, or its
\* id could not be saved (_context_cache.py 573-582, _query.py 1204-1219, chat_state.py 147-152).
THEOREM DocSafe == Spec => []DocKnown
<1>1. SessionsInv => DocKnown
  BY DEF SessionsInv, DocInv, DocKnown
<1>2. QED
  BY <1>1, SessionsInvariant, PTL

\* The memory of the session never goes back but when the user clears it: the update lock is held
\* from the reading of the log to the writing of the file (maybe_auto_update, memory.py).
THEOREM ForwardSafe == Spec => MemoryForward
<1>1. SessionsInv /\ [Next]_vars =>
        [memory' < memory => memory' = 0 /\ commands' = commands + 1]_vars
  <2> SUFFICES ASSUME SessionsInv, [Next]_vars, memory' < memory
               PROVE  memory' = 0 /\ commands' = commands + 1
    OBVIOUS
  <2>1. Numbers
    BY NumbersStep DEF SessionsInv
  <2>2. QED BY <2>1, ForwardStep DEF SessionsInv, Numbers
<1>2. QED
  BY <1>1, SessionsInvariant, PTL DEF Spec, MemoryForward

\* /compact and the guard clear a session only when the memory covers what was said before they
\* asked for the summary, or one of the named excuses holds (commands.py 3094-3117,
\* session_guard.py 63-148).
THEOREM KeptSafe == Spec => KeptBeforeCleared
<1>1. SessionsInv /\ [Next]_vars =>
        [/\ compact = "clear" /\ compact' = "done" => memory >= base["compact"] \/ "compact" \in excuse
         /\ guard = "clear" /\ guard' = "mark" => memory >= base["guard"] \/ "guard" \in excuse]_vars
  BY ClearedStep DEF SessionsInv
<1>2. QED
  BY <1>1, SessionsInvariant, PTL DEF Spec, KeptBeforeCleared

=============================================================================
