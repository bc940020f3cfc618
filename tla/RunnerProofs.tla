----------------------------- MODULE RunnerProofs -----------------------------
(***************************************************************************)
(* Proofs about the run of a query, for every set of runners, every size   *)
(* of the pool and every pair of timeouts (RunnerLifecycle), and about the *)
(* card that shows it, for every set of tools and whatever happens to a    *)
(* patch (QueryCard).                                                      *)
(***************************************************************************)
EXTENDS RunnerLifecycle, QueryCard, TLAPS, FiniteSetTheorems

\* What the pool needs to know of the variables.
PoolType ==
  /\ pc \in [Runners -> PCs]
  /\ slots \in Nat
  /\ proc \in [Runners -> {"none", "alive", "dead"}]

\* A process lives between Popen and the end of the wait in the finally.
AliveInv == \A r \in Runners : proc[r] = "alive" => pc[r] \in {"started", "reading", "closing"}

PoolInv == PoolType /\ AliveInv /\ slots + Cardinality(Holders) = MaxProcs

\* The steps that neither take nor give back a place.
Stays(r) ==
  /\ UNCHANGED slots
  /\ \E next \in PCs : /\ pc' = [pc EXCEPT ![r] = next]
                       /\ next \in Holding <=> pc[r] \in Holding

LEMMA HoldersFinite == IsFiniteSet(Holders) /\ Cardinality(Holders) \in Nat
<1>1. Holders \subseteq Runners
  BY DEF Holders
<1>2. QED
  BY <1>1, RunnerAssumption, FS_Subset, FS_CardinalityType

\* The place that is taken or given back is the one of the run() that moves.
LEMMA HoldersEnter ==
  ASSUME PoolType, NEW r \in Runners, pc[r] \notin Holding, NEW next \in Holding,
         pc' = [pc EXCEPT ![r] = next]
  PROVE  Cardinality(Holders)' = Cardinality(Holders) + 1
<1>1. Holders' = Holders \cup {r}
  BY DEF Holders, PoolType
<1>2. r \notin Holders
  BY DEF Holders
<1>3. QED
  BY <1>1, <1>2, HoldersFinite, FS_AddElement

LEMMA HoldersLeave ==
  ASSUME PoolType, NEW r \in Runners, pc[r] \in Holding, NEW next, next \notin Holding,
         pc' = [pc EXCEPT ![r] = next]
  PROVE  Cardinality(Holders)' = Cardinality(Holders) - 1
<1>1. Holders' = Holders \ {r}
  BY DEF Holders, PoolType
<1>2. r \in Holders
  BY DEF Holders
<1>3. QED
  BY <1>1, <1>2, HoldersFinite, FS_RemoveElement

LEMMA HoldersStay ==
  ASSUME PoolType, NEW r \in Runners, Stays(r)
  PROVE  Holders' = Holders
  BY DEF Stays, Holders, PoolType

LEMMA HoldersSame ==
  ASSUME UNCHANGED pc
  PROVE  Holders' = Holders
  BY DEF Holders

\* What a step that neither takes nor gives back a place leaves to show.
LEMMA StaysInv ==
  ASSUME PoolInv, NEW r \in Runners, Stays(r),
         proc' \in [Runners -> {"none", "alive", "dead"}], AliveInv'
  PROVE  PoolInv'
<1>1. PoolType'
  BY DEF PoolInv, PoolType, Stays
<1>2. Holders' = Holders /\ slots' = slots
  BY HoldersStay DEF PoolInv, Stays
<1>3. QED
  BY <1>1, <1>2 DEF PoolInv

LEMMA SameInv ==
  ASSUME PoolInv, UNCHANGED <<pc, slots>>,
         proc' \in [Runners -> {"none", "alive", "dead"}],
         \A r \in Runners : proc'[r] = "alive" => proc[r] = "alive"
  PROVE  PoolInv'
<1>1. PoolType' /\ AliveInv'
  BY DEF PoolInv, PoolType, AliveInv
<1>2. Holders' = Holders
  BY HoldersSame
<1>3. QED
  BY <1>1, <1>2 DEF PoolInv

LEMMA PoolInvariant == Spec => []PoolInv
<1> USE RunnerAssumption DEF Holding, PCs, Goto
<1>1. Init => PoolInv
  <2> SUFFICES ASSUME Init PROVE PoolInv
    OBVIOUS
  <2>1. PoolType /\ AliveInv
    BY DEF Init, PoolType, AliveInv
  <2>2. Holders = {} /\ slots = MaxProcs
    BY DEF Init, Holders
  <2>3. QED
    BY <2>1, <2>2, FS_EmptySet DEF PoolInv
<1>2. PoolInv /\ [Next]_vars => PoolInv'
  <2> SUFFICES ASSUME PoolInv, [Next]_vars PROVE PoolInv'
    OBVIOUS
  <2>1. ASSUME NEW r \in Runners, Acquire(r) PROVE PoolInv'
    <3>1. /\ pc[r] = "waiting" /\ slots > 0 /\ slots' = slots - 1 /\ proc' = proc
          /\ pc' = [pc EXCEPT ![r] = "popen"]
      BY <2>1 DEF Acquire, objectVars, procVars
    <3>2. PoolType' /\ AliveInv'
      BY <3>1 DEF PoolInv, PoolType, AliveInv
    <3>3. Cardinality(Holders)' = Cardinality(Holders) + 1
      BY <3>1, HoldersEnter DEF PoolInv
    <3>4. QED
      BY <3>1, <3>2, <3>3, HoldersFinite DEF PoolInv, PoolType
  <2>2. ASSUME NEW r \in Runners, Release(r) PROVE PoolInv'
    <3>1. /\ pc[r] = "release" /\ slots' = slots + 1
          /\ \E next \in {"done", "check"} : pc' = [pc EXCEPT ![r] = next]
          /\ proc' \in {proc, [proc EXCEPT ![r] = "none"]}
      BY <2>2 DEF Release, objectVars, procVars, Ends, Discard
    <3>2. PoolType' /\ AliveInv'
      BY <3>1 DEF PoolInv, PoolType, AliveInv
    <3>3. Cardinality(Holders)' = Cardinality(Holders) - 1
      BY <3>1, HoldersLeave DEF PoolInv
    <3>4. QED
      BY <3>1, <3>2, <3>3, HoldersFinite DEF PoolInv, PoolType
  <2>3. ASSUME NEW r \in Runners, RunStep(r) \/ ReadResult(r), ~Acquire(r), ~Release(r)
        PROVE  PoolInv'
    <3> USE DEF PoolInv, PoolType, AliveInv, Stays
    <3>1. CASE AcquireTimesOut(r)
      <4>1. pc[r] = "waiting" /\ UNCHANGED <<slots, proc>> /\ pc' = [pc EXCEPT ![r] = "polling"]
        BY <3>1 DEF AcquireTimesOut, objectVars, procVars
      <4>2. Stays(r) /\ AliveInv'
        BY <4>1
      <4>3. QED BY <4>1, <4>2, StaysInv
    <3>2. CASE PollCancel(r)
      <4>1. /\ pc[r] = "polling" /\ UNCHANGED slots
            /\ \E next \in {"done", "waiting"} : pc' = [pc EXCEPT ![r] = next]
            /\ proc' \in {proc, [proc EXCEPT ![r] = "none"]}
        BY <3>2 DEF PollCancel, objectVars, procVars, Ends, Discard
      <4>2. Stays(r) /\ AliveInv'
        BY <4>1
      <4>3. proc' \in [Runners -> {"none", "alive", "dead"}]
        BY <4>1
      <4>4. QED BY <4>2, <4>3, StaysInv
    <3>3. CASE Popen(r)
      BY <3>3, StaysInv DEF Popen
    <3>4. CASE PopenFails(r)
      BY <3>4, StaysInv DEF PopenFails, Close
    <3>5. CASE Start(r)
      BY <3>5, StaysInv DEF Start, procVars
    <3>6. CASE StartFails(r)
      BY <3>6, StaysInv DEF StartFails, Close
    <3>7. CASE ReadEof(r)
      BY <3>7, StaysInv DEF ReadEof, Close
    <3>8. CASE WaitProc(r)
      BY <3>8, StaysInv DEF WaitProc, objectVars, procVars
    <3>9. CASE WaitExpires(r)
      BY <3>9, StaysInv DEF WaitExpires, Kill
    <3>10. ASSUME pc[r] = "check", UNCHANGED slots, proc' = [proc EXCEPT ![r] = "none"],
                  NEW next \in {"done", "waiting"}, pc' = [pc EXCEPT ![r] = next]
           PROVE  PoolInv'
      BY <3>10, StaysInv
    <3>11. ASSUME NEW how, Conclude(r, how) PROVE PoolInv'
      BY <3>10, <3>11 DEF Conclude, Ends, Discard
    <3>12. CASE RaiseCancelled(r) \/ ReturnText(r)
      BY <3>11, <3>12 DEF RaiseCancelled, ReturnText
    <3>13. CASE RaiseKilled(r) \/ RaiseError(r)
      BY <3>11, <3>13 DEF RaiseKilled, RaiseError
    <3>14. CASE Retry(r)
      BY <3>10, <3>14 DEF Retry, Discard
    <3>15. CASE ReadResult(r)
      BY <3>15, StaysInv DEF ReadResult, Close, Touch
    <3>16. QED
      BY <2>3, <3>1, <3>2, <3>3, <3>4, <3>5, <3>6, <3>7, <3>8, <3>9, <3>12, <3>13,
         <3>14, <3>15
      DEF RunStep
  <2>4. ASSUME NEW r \in Runners, WatchStep(r) PROVE PoolInv'
    BY <2>4, SameInv DEF PoolInv, PoolType, WatchStep, WatchPoll, WatchCancel, WatchHard, WatchSoft,
       WatchKill, Kill, WatchKeeps, procVars
  <2>5. ASSUME NEW r \in Runners, ReadLine(r) \/ Exit(r) \/ PipeCloses(r) \/ Age(r) \/ Cancel(r)
        PROVE  PoolInv'
    BY <2>5, SameInv DEF PoolInv, PoolType, ReadLine, Exit, PipeCloses, Age, Cancel, procVars, objectVars
  <2>6. CASE UNCHANGED vars
    BY <2>6, SameInv DEF PoolInv, PoolType, vars, objectVars, procVars
  <2>7. QED
    BY <2>1, <2>2, <2>3, <2>4, <2>5, <2>6 DEF Next, ProcessStep
<1>3. QED
  BY <1>1, <1>2, PTL DEF Spec

\* The semaphore bounds the processes, and no place is lost or gained on any of the paths through
\* the failures, the cancellations and the retries of run().
THEOREM PoolSafe == Spec => []PoolBound
<1>1. PoolInv => PoolBound
  BY DEF PoolInv, PoolType, AliveInv, PoolBound, Alive, Holders, Holding
<1>2. QED
  BY <1>1, PoolInvariant, PTL

----------------------------------------------------------------------------
(* Types *)

ObjectType ==
  /\ pc \in [Runners -> PCs]
  /\ proc \in [Runners -> {"none", "alive", "dead"}]
  /\ rc \in [Runners -> {"0", "1"} \cup Sigkill]
  /\ pipe \subseteq Runners
  /\ text \in [Runners -> {"none", "partial", "complete"}]
  /\ failure \subseteq Runners
  /\ completed \subseteq Runners
  /\ watch \in [Runners -> {"off", "poll", "look", "kill"}]
  /\ idle \in [Runners -> 0..Hard]
  /\ cancelEv \subseteq Runners
  /\ cancelled \subseteq Runners
  /\ watchKilled \subseteq Runners
  /\ softFired \subseteq Runners
  /\ retried \subseteq Runners
  /\ outcome \in [Runners -> Outcomes]

LEMMA ObjectTypes == Spec => []ObjectType
<1> USE RunnerAssumption DEF Holding, PCs, Sigkill, Outcomes, ObjectType
<1>1. Init => ObjectType
  BY DEF Init
<1>2. ObjectType /\ [Next]_vars => ObjectType'
  <2> SUFFICES ASSUME ObjectType, [Next]_vars PROVE ObjectType'
    OBVIOUS
  <2> USE DEF Goto, objectVars, procVars, flagVars, clockVars
  <2>1. ASSUME NEW r \in Runners, Acquire(r) PROVE ObjectType'
    BY <2>1 DEF Acquire
  <2>2. ASSUME NEW r \in Runners, AcquireTimesOut(r) PROVE ObjectType'
    BY <2>2 DEF AcquireTimesOut
  <2>3. ASSUME NEW r \in Runners, PollCancel(r) PROVE ObjectType'
    BY <2>3 DEF PollCancel, Ends, Discard
  <2>4. ASSUME NEW r \in Runners, Popen(r) PROVE ObjectType'
    BY <2>4 DEF Popen
  <2>5. ASSUME NEW r \in Runners, PopenFails(r) PROVE ObjectType'
    BY <2>5 DEF PopenFails, Close
  <2>6. ASSUME NEW r \in Runners, Start(r) PROVE ObjectType'
    BY <2>6 DEF Start
  <2>7. ASSUME NEW r \in Runners, StartFails(r) PROVE ObjectType'
    BY <2>7 DEF StartFails, Close
  <2>8. ASSUME NEW r \in Runners, ReadEof(r) PROVE ObjectType'
    BY <2>8 DEF ReadEof, Close
  <2>9. ASSUME NEW r \in Runners, WaitProc(r) PROVE ObjectType'
    BY <2>9 DEF WaitProc
  <2>10. ASSUME NEW r \in Runners, WaitExpires(r) PROVE ObjectType'
    BY <2>10 DEF WaitExpires, Kill
  <2>11. ASSUME NEW r \in Runners, Release(r) PROVE ObjectType'
    BY <2>11 DEF Release, Ends, Discard
  <2>12. ASSUME NEW r \in Runners, Retry(r) PROVE ObjectType'
    BY <2>12 DEF Retry, Discard
  <2>13. ASSUME NEW r \in Runners, WatchPoll(r) PROVE ObjectType'
    BY <2>13 DEF WatchPoll, WatchTo, WatchKeeps
  <2>14. ASSUME NEW r \in Runners, WatchCancel(r) PROVE ObjectType'
    BY <2>14 DEF WatchCancel, WatchTo, WatchKeeps
  <2>15. ASSUME NEW r \in Runners, WatchHard(r) PROVE ObjectType'
    BY <2>15 DEF WatchHard, WatchTo, WatchKeeps
  <2>16. ASSUME NEW r \in Runners, WatchSoft(r) PROVE ObjectType'
    BY <2>16 DEF WatchSoft, WatchTo, WatchKeeps
  <2>17. ASSUME NEW r \in Runners, WatchKill(r) PROVE ObjectType'
    BY <2>17 DEF WatchKill, Kill, WatchTo, WatchKeeps
  <2>18. ASSUME NEW r \in Runners, ReadLine(r) PROVE ObjectType'
    BY <2>18 DEF ReadLine, Touch
  <2>19. ASSUME NEW r \in Runners, ReadResult(r) PROVE ObjectType'
    BY <2>19 DEF ReadResult, Touch, Close
  <2>20. ASSUME NEW r \in Runners, Exit(r) PROVE ObjectType'
    BY <2>20 DEF Exit
  <2>21. ASSUME NEW r \in Runners, PipeCloses(r) PROVE ObjectType'
    BY <2>21 DEF PipeCloses
  <2>22. ASSUME NEW r \in Runners, Age(r) PROVE ObjectType'
    BY <2>22 DEF Age
  <2>23. ASSUME NEW r \in Runners, Cancel(r) PROVE ObjectType'
    BY <2>23 DEF Cancel
  <2>24. ASSUME NEW r \in Runners, NEW how \in Outcomes, Conclude(r, how) PROVE ObjectType'
    BY <2>24 DEF Conclude, Ends, Discard
  <2>25. ASSUME NEW r \in Runners, RaiseCancelled(r) \/ ReturnText(r) \/ RaiseKilled(r) \/ RaiseError(r)
         PROVE  ObjectType'
    BY <2>24, <2>25 DEF RaiseCancelled, ReturnText, RaiseKilled, RaiseError
  <2>26. CASE UNCHANGED vars
    BY <2>26 DEF vars
  <2>27. QED
    BY <2>1, <2>2, <2>3, <2>4, <2>5, <2>6, <2>7, <2>8, <2>9, <2>10, <2>11, <2>12,
       <2>13, <2>14, <2>15, <2>16, <2>17, <2>18, <2>19, <2>20, <2>21, <2>22, <2>23, <2>25,
       <2>26
    DEF Next, RunStep, WatchStep, ProcessStep
<1>3. QED
  BY <1>1, <1>2, PTL DEF Spec

\* Every step of run(), of its watcher and of its process keeps each variable in its range: the
\* semaphore neither exceeds its initial value nor goes below zero.
THEOREM TypeSafe == Spec => []TypeOK
<1>1. PoolInv /\ ObjectType => TypeOK
  <2> SUFFICES ASSUME PoolInv, ObjectType PROVE TypeOK
    OBVIOUS
  <2>1. slots \in 0..MaxProcs
    BY HoldersFinite, RunnerAssumption DEF PoolInv, PoolType
  <2>2. QED
    BY <2>1 DEF ObjectType, TypeOK
<1>2. QED
  BY <1>1, PoolInvariant, ObjectTypes, PTL

----------------------------------------------------------------------------
(* The refinement of the pool.                                              *)

Step(r) ==
  RunStep(r) \/ WatchStep(r) \/ ProcessStep(r) \/ PipeCloses(r) \/ Age(r) \/ Cancel(r)

\* What Wants looks at is the same for runner q.
Same(q) ==
  /\ pc'[q] = pc[q] /\ rc'[q] = rc[q] /\ text'[q] = text[q]
  /\ q \in cancelled' <=> q \in cancelled
  /\ q \in retried' <=> q \in retried

\* No runner begins to want a place except by giving one back, and none changes but the one
\* that moves.
Settled(r) ==
  /\ \A q \in Runners \ {r} : Same(q)
  /\ Wants(r)' => Wants(r)

LEMMA SameWants ==
  ASSUME NEW q, Same(q)
  PROVE  Wants(q)' <=> Wants(q)
  BY DEF Same, Wants, Failed

LEMMA OtherSteps ==
  ASSUME PoolInv, ObjectType, NEW r \in Runners, Step(r), ~Acquire(r), ~Release(r)
  PROVE  Settled(r)
<1> USE DEF PoolInv, PoolType, AliveInv, ObjectType, Goto, procVars, flagVars, clockVars, objectVars,
            Same, Settled, Wants
<1>1. CASE AcquireTimesOut(r)
  BY <1>1 DEF AcquireTimesOut
<1>2. CASE PollCancel(r)
  BY <1>2 DEF PollCancel, Ends, Discard
<1>3. CASE Popen(r) \/ PopenFails(r)
  BY <1>3 DEF Popen, PopenFails, Close
<1>4. CASE Start(r) \/ StartFails(r)
  BY <1>4 DEF Start, StartFails, Close
<1>5. CASE ReadEof(r) \/ ReadResult(r)
  BY <1>5 DEF ReadEof, ReadResult, Close, Touch
<1>6. CASE WaitProc(r)
  BY <1>6 DEF WaitProc
<1>7. CASE WaitExpires(r)
  BY <1>7 DEF WaitExpires, Kill
<1>8. CASE Retry(r)
  BY <1>8 DEF Retry, Discard
<1>9. ASSUME NEW how, Conclude(r, how) PROVE Settled(r)
  BY <1>9 DEF Conclude, Ends, Discard
<1>10. CASE RaiseCancelled(r) \/ ReturnText(r) \/ RaiseKilled(r) \/ RaiseError(r)
  <2> HIDE DEF Settled
  <2>1. QED
    BY <1>9, <1>10 DEF RaiseCancelled, ReturnText, RaiseKilled, RaiseError
<1>11. CASE WatchKill(r)
  BY <1>11 DEF WatchKill, WatchKeeps, WatchTo, Kill, Holding, Failed
<1>12. CASE WatchPoll(r) \/ WatchCancel(r) \/ WatchHard(r) \/ WatchSoft(r)
  BY <1>12 DEF WatchPoll, WatchCancel, WatchHard, WatchSoft, WatchKeeps, WatchTo, Failed
<1>13. CASE ReadLine(r)
  BY <1>13 DEF ReadLine, Touch
<1>14. CASE Exit(r)
  BY <1>14 DEF Exit
<1>15. CASE PipeCloses(r) \/ Age(r) \/ Cancel(r)
  BY <1>15 DEF PipeCloses, Age, Cancel, Failed
<1>16. QED
  <2> HIDE DEF Settled
  <2>1. QED
    BY <1>1, <1>2, <1>3, <1>4, <1>5, <1>6, <1>7, <1>8, <1>10, <1>11, <1>12, <1>13, <1>14, <1>15
    DEF Step, RunStep, WatchStep, ProcessStep

LEMMA OtherHolders ==
  ASSUME PoolInv, ObjectType, NEW r \in Runners, Step(r), ~Acquire(r), ~Release(r)
  PROVE  Holders' = Holders
<1> USE DEF PoolInv, PoolType, AliveInv, Goto, procVars, flagVars, clockVars, objectVars
<1> SUFFICES \E next \in PCs : /\ pc' = [pc EXCEPT ![r] = next]
                               /\ next \in Holding <=> pc[r] \in Holding
  BY DEF Holders
<1> USE DEF PCs, Holding
<1>1. CASE AcquireTimesOut(r) \/ PollCancel(r)
  BY <1>1 DEF AcquireTimesOut, PollCancel, Ends
<1>2. CASE Popen(r) \/ PopenFails(r) \/ Start(r) \/ StartFails(r)
  BY <1>2 DEF Popen, PopenFails, Start, StartFails, Close
<1>3. CASE ReadEof(r) \/ ReadResult(r) \/ WaitProc(r) \/ WaitExpires(r)
  BY <1>3 DEF ReadEof, ReadResult, WaitProc, WaitExpires, Close, Touch
<1>4. CASE RaiseCancelled(r) \/ ReturnText(r) \/ RaiseKilled(r) \/ RaiseError(r) \/ Retry(r)
  BY <1>4 DEF RaiseCancelled, ReturnText, RaiseKilled, RaiseError, Conclude, Ends, Retry
<1>5. CASE pc' = pc
  BY <1>5
<1>6. CASE WatchStep(r) \/ ReadLine(r) \/ Exit(r) \/ PipeCloses(r) \/ Age(r) \/ Cancel(r)
  BY <1>5, <1>6 DEF WatchStep, WatchPoll, WatchCancel, WatchHard, WatchSoft, WatchKill, WatchKeeps,
     ReadLine, Exit, PipeCloses, Age, Cancel
<1>7. QED
  BY <1>1, <1>2, <1>3, <1>4, <1>6 DEF Step, RunStep, ProcessStep

Placed == Holders \cup Alive

\* Every living process has a place, so that the pool sees the places only.
LEMMA PlacedIsHolders == PoolInv => Placed = Holders
  BY DEF PoolInv, PoolType, AliveInv, Placed, Alive, Holders, Holding

\* Each step of a runner is one of the pool or leaves it as it is.
LEMMA PoolSteps ==
  ASSUME PoolInv, PoolInv', ObjectType, ObjectType', NEW r \in Runners, Step(r)
  PROVE  [Pool!Next]_<<Waiting, Placed>>
<1>1. Placed = Holders /\ Placed' = Holders'
  <2>1. Placed = Holders
    BY PlacedIsHolders
  <2>2. Placed' = Holders'
    BY DEF PoolInv, PoolType, AliveInv, Placed, Alive, Holders, Holding
  <2>3. QED
    BY <2>1, <2>2
<1>2. CASE Acquire(r)
  <2>1. /\ pc \in [Runners -> PCs] /\ pc[r] = "waiting" /\ slots > 0
        /\ pc' = [pc EXCEPT ![r] = "popen"]
        /\ UNCHANGED <<rc, text, cancelled, retried>>
    BY <1>2 DEF ObjectType, Acquire, Goto, objectVars, procVars, flagVars
  <2>2. Waiting' = Waiting \ {r} /\ r \in Waiting
    BY <2>1 DEF Waiting, Wants, Failed
  <2>3. Holders' = Holders \cup {r}
    BY <2>1 DEF Holders, Holding
  <2>4. Cardinality(Holders) < MaxProcs
    BY <2>1, HoldersFinite, RunnerAssumption DEF PoolInv, PoolType
  <2>5. Cardinality(Placed) < MaxProcs
    BY <2>4, <1>1
  <2>6. Pool!Enter(r)
    <3>1. Pool!Cardinality(Placed) = Cardinality(Placed)
      BY DEF Pool!Cardinality, Cardinality
    <3>2. QED
      BY <2>2, <2>3, <2>5, <3>1, <1>1 DEF Pool!Enter, Placed
  <2>7. QED
    BY <2>6 DEF Pool!Next
<1>3. CASE Release(r)
  <2>1. /\ pc \in [Runners -> PCs] /\ pc[r] = "release"
        /\ \E next \in {"done", "check"} : pc' = [pc EXCEPT ![r] = next]
    BY <1>3 DEF ObjectType, Release, Goto, Ends
  <2>2. \A q \in Runners \ {r} : Same(q)
    BY <1>3, <2>1 DEF Release, ObjectType, Ends, Discard, objectVars, procVars, flagVars, Same
  <2>3. ~Wants(r)
    BY <2>1 DEF Wants
  <2>4. Waiting' \in {Waiting, Waiting \cup {r}}
    <3>1. \A q \in Runners \ {r} : q \in Waiting' <=> q \in Waiting
      BY <2>2, SameWants DEF Waiting
    <3>2. Waiting' \subseteq Runners /\ Waiting \subseteq Runners /\ r \notin Waiting
      BY <2>3 DEF Waiting
    <3>3. QED
      BY <3>1, <3>2
  <2>5. Holders' = Holders \ {r} /\ r \in Holders
    BY <2>1 DEF Holders, Holding
  <2>6. Pool!Leave(r)
    BY <2>4, <2>5, <1>1 DEF Pool!Leave, Placed
  <2>7. QED
    BY <2>6 DEF Pool!Next
<1>4. CASE ~Acquire(r) /\ ~Release(r)
  <2>1. Settled(r) /\ Holders' = Holders
    BY <1>4, OtherSteps, OtherHolders
  <2>2. \A q \in Runners \ {r} : q \in Waiting' <=> q \in Waiting
    BY <2>1, SameWants DEF Settled, Waiting
  <2>3. r \in Waiting' => r \in Waiting
    BY <2>1 DEF Settled, Waiting
  <2>4. Waiting' \subseteq Runners /\ Waiting \subseteq Runners
    BY DEF Waiting
  <2>5. CASE Waiting' = Waiting
    BY <2>5, <2>1, <1>1
  <2>6. CASE Waiting' # Waiting
    <3>1. r \in Waiting /\ Waiting' = Waiting \ {r}
      BY <2>2, <2>3, <2>4, <2>6
    <3>2. Pool!GiveUp(r)
      BY <3>1, <2>1, <1>1 DEF Pool!GiveUp, Placed
    <3>3. QED
      BY <3>2 DEF Pool!Next
  <2>7. QED
    BY <2>5, <2>6
<1>5. QED
  BY <1>2, <1>3, <1>4

\* run() with its semaphore implements the abstract pool, for any number of runs and places: a place
\* is taken once and given back once, and not before the process is dead.
THEOREM PoolRefined == Spec => ImplementsPool
<1>1. Init => Pool!Init
  BY DEF Init, Pool!Init, Waiting, Wants, Holders, Holding, Alive
<1>2. PoolInv /\ PoolInv' /\ ObjectType /\ ObjectType' /\ [Next]_vars => [Pool!Next]_<<Waiting, Placed>>
  <2> SUFFICES ASSUME PoolInv, PoolInv', ObjectType, ObjectType', [Next]_vars
               PROVE  [Pool!Next]_<<Waiting, Placed>>
    OBVIOUS
  <2>1. CASE UNCHANGED vars
    BY <2>1 DEF vars, objectVars, procVars, flagVars, Waiting, Wants, Failed, Placed, Holders, Alive
  <2>2. CASE Next
    BY <2>2, PoolSteps DEF Next, Step
  <2>3. QED
    BY <2>1, <2>2
<1>3. QED
  BY <1>1, <1>2, PoolInvariant, ObjectTypes, PTL DEF Spec, ImplementsPool, Pool!Spec, Placed

----------------------------------------------------------------------------
(* The verdicts on a killed process.                                       *)

\* The watcher flags a kill before it sends it, the cleanup with it, and neither a process that
\* could not be started nor one that is not started yet has a watcher.
VerdictInv ==
  \A r \in Runners :
    /\ pc[r] \in {"waiting", "polling", "popen", "started"} => r \notin failure
    /\ pc[r] \in {"waiting", "polling", "popen", "started"} \/ r \in failure =>
         watch[r] = "off" /\ r \notin cancelled
    /\ watch[r] = "kill" \/ rc[r] \in {"watch", "cleanup"} => r \in watchKilled

LEMMA VerdictStep ==
  ASSUME ObjectType, VerdictInv, NEW r \in Runners, Step(r)
  PROVE  VerdictInv'
<1> USE DEF ObjectType, VerdictInv, Goto, procVars, flagVars, clockVars, objectVars
<1>1. CASE Acquire(r) \/ AcquireTimesOut(r)
  BY <1>1 DEF Acquire, AcquireTimesOut
<1>2. CASE PollCancel(r)
  BY <1>2 DEF PollCancel, Ends, Discard
<1>3. CASE Popen(r) \/ PopenFails(r)
  BY <1>3 DEF Popen, PopenFails, Close
<1>4. CASE Start(r) \/ StartFails(r)
  BY <1>4 DEF Start, StartFails, Close
<1>5. CASE ReadEof(r) \/ ReadResult(r) \/ ReadLine(r)
  BY <1>5 DEF ReadEof, ReadResult, ReadLine, Close, Touch
<1>6. CASE WaitProc(r) \/ WaitExpires(r)
  BY <1>6 DEF WaitProc, WaitExpires, Kill
<1>7. CASE Release(r)
  BY <1>7 DEF Release, Ends, Discard
<1>8. CASE Retry(r)
  BY <1>8 DEF Retry, Discard
<1>9. ASSUME NEW how, Conclude(r, how) PROVE VerdictInv'
  BY <1>9 DEF Conclude, Ends, Discard
<1>10. CASE RaiseCancelled(r) \/ ReturnText(r) \/ RaiseKilled(r) \/ RaiseError(r)
  <2> HIDE DEF VerdictInv
  <2> QED
    BY <1>9, <1>10 DEF RaiseCancelled, ReturnText, RaiseKilled, RaiseError
<1>11. CASE WatchStep(r)
  BY <1>11
  DEF WatchStep, WatchPoll, WatchCancel, WatchHard, WatchSoft, WatchKill, Kill, WatchKeeps, WatchTo
<1>12. CASE Exit(r)
  BY <1>12 DEF Exit
<1>13. CASE PipeCloses(r) \/ Age(r) \/ Cancel(r)
  BY <1>13 DEF PipeCloses, Age, Cancel
<1> QED
  <2> HIDE DEF VerdictInv
  <2> QED
    BY <1>1, <1>2, <1>3, <1>4, <1>5, <1>6, <1>7, <1>8, <1>10, <1>11, <1>12, <1>13
    DEF Step, RunStep, ProcessStep

\* Only the last steps of run() decide how it ends.
LEMMA OutcomeStays ==
  ASSUME ObjectType, NEW r \in Runners, Step(r), ~PollCancel(r), ~Release(r),
         \A how : ~Conclude(r, how)
  PROVE  outcome' = outcome /\ \A q \in Runners : pc'[q] = "done" => pc[q] = "done"
<1> USE DEF ObjectType, Goto
<1>1. CASE Acquire(r) \/ AcquireTimesOut(r)
  BY <1>1 DEF Acquire, AcquireTimesOut
<1>2. CASE Popen(r) \/ PopenFails(r) \/ Start(r) \/ StartFails(r)
  BY <1>2 DEF Popen, PopenFails, Start, StartFails, Close
<1>3. CASE ReadEof(r) \/ ReadResult(r) \/ ReadLine(r)
  BY <1>3 DEF ReadEof, ReadResult, ReadLine, Close, Touch
<1>4. CASE WaitProc(r) \/ WaitExpires(r) \/ Retry(r)
  BY <1>4 DEF WaitProc, WaitExpires, Retry
<1>5. CASE RaiseCancelled(r) \/ ReturnText(r) \/ RaiseKilled(r) \/ RaiseError(r)
  BY <1>5 DEF RaiseCancelled, ReturnText, RaiseKilled, RaiseError
<1>6. CASE WatchStep(r)
  BY <1>6 DEF WatchStep, WatchPoll, WatchCancel, WatchHard, WatchSoft, WatchKill, WatchKeeps
<1>7. CASE Exit(r) \/ PipeCloses(r) \/ Age(r) \/ Cancel(r)
  BY <1>7 DEF Exit, PipeCloses, Age, Cancel
<1> QED
  BY <1>1, <1>2, <1>3, <1>4, <1>5, <1>6, <1>7 DEF Step, RunStep, ProcessStep

LEMMA VerdictRight ==
  ASSUME ObjectType, VerdictInv, NEW r \in Runners, Step(r), NEW q \in Runners
  PROVE  /\ q \in cancelled /\ rc[q] = "watch" /\ pc[q] # "done" /\ pc'[q] = "done"
              => outcome'[q] = "cancelled"
         /\ outcome'[q] = "killed" /\ outcome[q] # "killed" => rc[q] = "oom"
<1> USE DEF ObjectType, VerdictInv, Goto, Ends
<1>1. CASE PollCancel(r)
  BY <1>1 DEF PollCancel
<1>2. CASE Release(r)
  BY <1>2 DEF Release
<1>3. ASSUME NEW how, Conclude(r, how)
      PROVE  /\ pc[r] = "check" /\ Step(r)
             /\ pc' = [pc EXCEPT ![r] = "done"] /\ outcome' = [outcome EXCEPT ![r] = how]
  BY <1>3 DEF Conclude
<1>4. ASSUME NEW how, Conclude(r, how)
      PROVE  RaiseCancelled(r) \/ ReturnText(r) \/ RaiseKilled(r) \/ RaiseError(r)
  <2>1. pc[r] = "check" /\ pc'[r] = "done"
    BY <1>4 DEF Conclude
  <2>2. pc'[r] # pc[r]
    BY <2>1
  <2>3. ~Acquire(r) /\ ~AcquireTimesOut(r) /\ ~PollCancel(r) /\ ~Release(r)
    BY <2>1 DEF Acquire, AcquireTimesOut, PollCancel, Release
  <2>4. ~Popen(r) /\ ~PopenFails(r) /\ ~Start(r) /\ ~StartFails(r)
    BY <2>1 DEF Popen, PopenFails, Start, StartFails
  <2>5. ~ReadEof(r) /\ ~ReadResult(r) /\ ~ReadLine(r) /\ ~WaitProc(r) /\ ~WaitExpires(r)
    BY <2>1 DEF ReadEof, ReadResult, ReadLine, Touch, WaitProc, WaitExpires
  <2>6. ~Retry(r)
    BY <2>1 DEF Retry
  <2>7. ~WatchStep(r)
    BY <2>2 DEF WatchStep, WatchPoll, WatchCancel, WatchHard, WatchSoft, WatchKill, WatchKeeps
  <2>8. ~Exit(r) /\ ~PipeCloses(r) /\ ~Age(r) /\ ~Cancel(r)
    BY <2>2 DEF Exit, PipeCloses, Age, Cancel
  <2> QED
    BY <2>3, <2>4, <2>5, <2>6, <2>7, <2>8 DEF Step, RunStep, ProcessStep
<1>5. CASE RaiseCancelled(r)
  BY <1>5 DEF RaiseCancelled, Conclude
<1>6. CASE ReturnText(r) \/ RaiseError(r)
  BY <1>6 DEF ReturnText, RaiseError, Failed, Conclude
<1>7. CASE RaiseKilled(r)
  <2>1. r \notin cancelled /\ rc[r] \in Sigkill /\ pc' = [pc EXCEPT ![r] = "done"]
        /\ outcome' = [outcome EXCEPT ![r] = IF r \in watchKilled THEN "timeout" ELSE "killed"]
    BY <1>7 DEF RaiseKilled, Failed, Conclude
  <2> QED
    BY <2>1 DEF Sigkill
<1>8. CASE \A how : ~Conclude(r, how)
  BY <1>1, <1>2, <1>8, OutcomeStays
<1> QED
  BY <1>1, <1>2, <1>4, <1>5, <1>6, <1>7, <1>8

LEMMA VerdictInvariant == Spec => []VerdictInv
<1>1. Init => VerdictInv
  BY DEF Init, VerdictInv
<1>2. ObjectType /\ VerdictInv /\ [Next]_vars => VerdictInv'
  <2>1. ASSUME VerdictInv, UNCHANGED vars PROVE VerdictInv'
    BY <2>1 DEF VerdictInv, vars, objectVars, procVars, flagVars
  <2> QED
    BY <2>1, VerdictStep DEF Next, Step
<1> QED
  BY <1>1, <1>2, ObjectTypes, PTL DEF Spec

\* A user who cancels never gets an answer or an error from the process that his cancellation has
\* killed, and a kill is blamed on the operating system only where run() has sent none, for any
\* runners, timeouts and retries.
THEOREM VerdictSafe == Spec => VerdictIsRight
<1> DEFINE Wins(r)   == r \in cancelled /\ rc[r] = "watch" /\ pc[r] # "done" /\ pc'[r] = "done"
                          => outcome'[r] = "cancelled"
           Blames(r) == outcome'[r] = "killed" /\ outcome[r] # "killed" => rc[r] = "oom"
<1>1. ObjectType /\ VerdictInv /\ [Next]_vars =>
        [\A r \in Runners : Wins(r)]_vars /\ [\A r \in Runners : Blames(r)]_vars
  BY VerdictRight DEF Next, Step
<1> QED
  BY <1>1, VerdictInvariant, ObjectTypes, PTL DEF Spec, VerdictIsRight, CancelWins, BlameIsRight

----------------------------------------------------------------------------
(* The watcher                                                             *)

\* While a process is read, its watcher runs, unless the process is dead; and what the watcher has
\* flagged it is about to kill, or has killed.
WatchedInv ==
  \A r \in Runners : pc[r] = "reading" =>
    /\ proc[r] # "none" /\ r \notin completed
    /\ watch[r] # "off" \/ proc[r] = "dead"
    /\ r \in watchKilled => watch[r] = "kill" \/ proc[r] = "dead"

\* Before its process is started no run is flagged or completed; whoever has a place and is before
\* the end of the loop has a process, and is not completed.
FreshInv ==
  \A r \in Runners :
    /\ pc[r] \in {"waiting", "polling", "popen", "started"} =>
         watch[r] = "off" /\ r \notin watchKilled /\ r \notin completed
    /\ pc[r] = "started" => proc[r] # "none"

LEMMA WatchedStep ==
  ASSUME ObjectType, FreshInv, WatchedInv, NEW r \in Runners, Step(r)
  PROVE  (FreshInv /\ WatchedInv)'
<1> USE DEF ObjectType, FreshInv, WatchedInv, Goto, procVars, flagVars, clockVars, objectVars
<1>1. CASE Acquire(r) \/ AcquireTimesOut(r)
  BY <1>1 DEF Acquire, AcquireTimesOut
<1>2. CASE PollCancel(r)
  BY <1>2 DEF PollCancel, Ends, Discard
<1>3. CASE Popen(r) \/ PopenFails(r)
  BY <1>3 DEF Popen, PopenFails, Close
<1>4. CASE Start(r) \/ StartFails(r)
  BY <1>4 DEF Start, StartFails, Close
<1>5. CASE ReadEof(r) \/ ReadResult(r) \/ ReadLine(r)
  BY <1>5 DEF ReadEof, ReadResult, ReadLine, Close, Touch
<1>6. CASE WaitProc(r) \/ WaitExpires(r)
  BY <1>6 DEF WaitProc, WaitExpires, Kill
<1>7. CASE Release(r)
  BY <1>7 DEF Release, Ends, Discard
<1>8. CASE Retry(r)
  BY <1>8 DEF Retry, Discard
<1>9. ASSUME NEW how, Conclude(r, how) PROVE (FreshInv /\ WatchedInv)'
  BY <1>9 DEF Conclude, Ends, Discard
<1>10. CASE RaiseCancelled(r) \/ ReturnText(r) \/ RaiseKilled(r) \/ RaiseError(r)
  <2> HIDE DEF FreshInv, WatchedInv
  <2> QED
    BY <1>9, <1>10 DEF RaiseCancelled, ReturnText, RaiseKilled, RaiseError
<1>11. CASE WatchPoll(r)
  BY <1>11 DEF WatchPoll, WatchKeeps, WatchTo
<1>12. CASE WatchCancel(r) \/ WatchHard(r)
  BY <1>12 DEF WatchCancel, WatchHard, WatchKeeps, WatchTo
<1>13. CASE WatchSoft(r)
  BY <1>13 DEF WatchSoft, WatchKeeps, WatchTo
<1>14. CASE WatchKill(r)
  BY <1>14 DEF WatchKill, Kill, WatchKeeps, WatchTo
<1>15. CASE Exit(r)
  BY <1>15 DEF Exit
<1>16. CASE PipeCloses(r) \/ Age(r) \/ Cancel(r)
  BY <1>16 DEF PipeCloses, Age, Cancel
<1> QED
  <2> HIDE DEF FreshInv, WatchedInv
  <2> QED
    BY <1>1, <1>2, <1>3, <1>4, <1>5, <1>6, <1>7, <1>8, <1>10, <1>11, <1>12, <1>13, <1>14, <1>15,
       <1>16
    DEF Step, RunStep, ProcessStep, WatchStep

\* What RunEnds rests on: whoever reads a process has a watcher that looks at the clock and at the
\* event, until the process is dead; and a run that its watcher has flagged is being killed or has
\* been: a silent process, and one that is cancelled, cannot be left behind, whichever round of the
\* watcher the flag falls into, and in the second attempt as in the first (_watch, run()).
THEOREM WatchedSafe ==
  Spec => [](\A r \in Runners : pc[r] = "reading" =>
               /\ watch[r] # "off" \/ proc[r] = "dead"
               /\ r \in watchKilled => watch[r] = "kill" \/ proc[r] = "dead")
<1>1. Init => FreshInv /\ WatchedInv
  BY DEF Init, FreshInv, WatchedInv
<1>2. ObjectType /\ FreshInv /\ WatchedInv /\ [Next]_vars => (FreshInv /\ WatchedInv)'
  <2>1. ASSUME FreshInv, WatchedInv, UNCHANGED vars PROVE (FreshInv /\ WatchedInv)'
    BY <2>1 DEF FreshInv, WatchedInv, vars, objectVars, procVars, flagVars
  <2> QED
    BY <2>1, WatchedStep DEF Next, Step
<1>3. WatchedInv =>
        \A r \in Runners : pc[r] = "reading" =>
          /\ watch[r] # "off" \/ proc[r] = "dead"
          /\ r \in watchKilled => watch[r] = "kill" \/ proc[r] = "dead"
  BY DEF WatchedInv
<1> QED
  BY <1>1, <1>2, <1>3, ObjectTypes, PTL DEF Spec

----------------------------------------------------------------------------
(* The card of a query                                                     *)


\* The heartbeat is told to stop before the query thread drains the lock, and patches no more then.
StopInv ==
  /\ main # "running" => "stop" \in flags
  /\ Drained => hb # "flight"

CardInv == CardTypeOK /\ ToolsOnce /\ StopInv

LEMMA CountUp ==
  ASSUME NEW N \in Nat, NEW n \in 0..N, n < N
  PROVE  n + 1 \in 0..N
  OBVIOUS

LEMMA AppendType ==
  ASSUME listed \in [Tools -> Nat], NEW S \in SUBSET Tools
  PROVE  Listing(S) \in [Tools -> Nat]
  BY DEF Listing

----------------------------------------------------------------------------
(* Types                                                                   *)

\* What is shown is a frame that was rendered, or one of the notices.
LEMMA FrameTypes ==
  /\ Initial \in Frames
  /\ \A what \in Endings \cup {"none", "cancelling"} : Notice(what) \in Notices
  BY QueryCardAssumption DEF Initial, Frames, Notice, Notices

LEMMA TypeCallbacks ==
  ASSUME CardTypeOK, Callbacks \/ IntervalPasses
  PROVE  CardTypeOK'
<1> USE QueryCardAssumption DEF CardTypeOK, mainVars, hbVars, Flags
<1>1. CASE OnText
  <2>1. currentText' \in 0..MaxText
    BY <1>1, CountUp DEF OnText
  <2>2. flags' \in SUBSET Flags
    BY <1>1 DEF OnText
  <2>3. QED BY <1>1, <2>1, <2>2 DEF OnText
<1>2. ASSUME NEW t \in Tools, OnTool(t) PROVE CardTypeOK'
  <2>1. Listing(active \ Workflows) \in [Tools -> Nat]
    BY AppendType
  <2>2. QED BY <1>2, <2>1 DEF OnTool
<1>3. ASSUME NEW t \in Tools, NEW result \in {"success", "error"}, OnToolResult(t, result)
      PROVE  CardTypeOK'
  <2>1. Listing({t}) \in [Tools -> Nat]
    BY AppendType
  <2>2. listed' \in [Tools -> Nat] /\ active' \in SUBSET Tools
    BY <1>3, <2>1 DEF OnToolResult
  <2>3. QED BY <1>3, <2>2 DEF OnToolResult
<1>4. CASE SoftTimeout \/ SoftReplaces
  BY <1>4 DEF SoftTimeout, SoftReplaces, stateVars
<1>5. CASE IntervalPasses
  BY <1>5 DEF IntervalPasses, stateVars
<1>6. QED
  BY <1>1, <1>2, <1>3, <1>4, <1>5 DEF Callbacks

LEMMA TypeHeartbeat ==
  ASSUME CardTypeOK, HbStep \/ HbPatched \/ HbPatchFails
  PROVE  CardTypeOK'
<1> USE QueryCardAssumption DEF CardTypeOK, mainVars, stateVars, Flags
<1>1. CASE HbWake
  <2>1. frame' \in Frames
    BY <1>1 DEF HbWake, Button, Frames
  <2>2. QED BY <1>1, <2>1 DEF HbWake
<1>2. CASE HbRender
  <2>1. frame' \in Frames
    BY <1>2 DEF HbRender, Frames
  <2>2. QED BY <1>2, <2>1 DEF HbRender
<1>3. CASE HbSkips
  BY <1>3, FrameTypes DEF HbSkips
<1>4. CASE HbLock
  BY <1>4 DEF HbLock
<1>5. CASE HbMark
  BY <1>5, FrameTypes DEF HbMark
<1>6. CASE HbEnd
  BY <1>6 DEF HbEnd
<1>7. CASE HbPatched
  BY <1>7 DEF HbPatched
<1>8. CASE HbPatchFails
  BY <1>8 DEF HbPatchFails
<1>9. QED
  BY <1>1, <1>2, <1>3, <1>4, <1>5, <1>6, <1>7, <1>8 DEF HbStep

\* What a call of the end leaves, whether it works or not.
LEMMA CallTypes ==
  ASSUME CardTypeOK, NEW call \in Calls, CallWorks(call) \/ CallFails(call)
  PROVE  /\ main' \in Calls \cup {"done"}
         /\ reached' \in SUBSET Calls /\ missed' \in SUBSET Calls
<1>1. AfterFailed(call) \in Calls \cup {"done"}
  BY DEF AfterFailed, Calls
<1> QED
  BY <1>1 DEF CallWorks, CallFails, CardTypeOK

LEMMA TypeEnd ==
  ASSUME CardTypeOK, Ending \/ LastCard \/ Click \/ CancelCommand
  PROVE  CardTypeOK'
<1> USE QueryCardAssumption DEF CardTypeOK, mainVars, stateVars, hbVars, Flags, Endings
<1>1. ASSUME NEW how \in Endings, Stop(how) PROVE CardTypeOK'
  BY <1>1 DEF Stop
<1>2. CASE Drain
  <2>1. Listing(active) \in [Tools -> Nat]
    BY AppendType
  <2>2. listed' \in [Tools -> Nat] /\ active' \in SUBSET Tools
    BY <1>2, <2>1 DEF Drain, Flush
  <2>3. main' \in Calls
    BY <1>2 DEF Drain, Calls
  <2>4. QED BY <1>2, <2>2, <2>3 DEF Drain
<1>3. CASE LastPatch
  <2>1. Notice(ending) \in Notices
    BY FrameTypes
  <2>2. CallWorks("patch") /\ "patch" \in Calls
    BY <1>3 DEF LastPatch, Calls
  <2>3. QED BY <1>3, <2>1, <2>2, CallTypes DEF LastPatch
<1>4. CASE LastPatchFails
  <2>1. CallFails("patch") /\ "patch" \in Calls
    BY <1>4 DEF LastPatchFails, Calls
  <2>2. QED BY <1>4, <2>1, CallTypes DEF LastPatchFails
<1>5. ASSUME NEW call \in {"card", "text"}, SendInstead(call) PROVE CardTypeOK'
  <2>1. call \in Calls /\ (CallWorks(call) \/ CallFails(call))
    BY <1>5 DEF SendInstead, Calls
  <2>2. /\ main' \in Calls \cup {"done"} /\ reached' \in SUBSET Calls /\ missed' \in SUBSET Calls
    BY <2>1, CallTypes
  <2>3. QED BY <1>5, <2>2 DEF SendInstead
<1>6. CASE Click
  <2>1. clicks' \in 0..MaxClicks
    BY <1>6, CountUp DEF Click
  <2>2. card' \in Notices /\ flags' \in SUBSET Flags
    BY <1>6, FrameTypes DEF Click
  <2>3. QED BY <1>6, <2>1, <2>2 DEF Click
<1>7. CASE CancelCommand
  BY <1>7 DEF CancelCommand
<1>8. QED
  BY <1>1, <1>2, <1>3, <1>4, <1>5, <1>6, <1>7 DEF Ending, LastCard

\* Every variable of the card stays in its range; the lock is held exactly while a patch of the
\* heartbeat is in flight (the with-statement of _push_if_needed).
LEMMA CardTypeStep ==
  ASSUME CardTypeOK, [CardNext]_cardVars
  PROVE  CardTypeOK'
<1>1. CASE UNCHANGED cardVars
  BY <1>1 DEF cardVars, mainVars, stateVars, hbVars, CardTypeOK
<1>2. CASE CardNext
  BY <1>2, TypeCallbacks, TypeHeartbeat, TypeEnd DEF CardNext
<1>3. QED
  BY <1>1, <1>2

----------------------------------------------------------------------------
(* The list of tools                                                       *)

LEMMA ToolsStep ==
  ASSUME ToolsOnce, [CardNext]_cardVars
  PROVE  ToolsOnce'
<1> USE DEF ToolsOnce
<1>1. ASSUME NEW t \in Tools, OnTool(t) PROVE ToolsOnce'
  <2>1. /\ main = "running" /\ main' = main /\ t \notin started
        /\ started' = started \cup {t} /\ active' = (active \cap Workflows) \cup {t}
    BY <1>1 DEF OnTool, mainVars
  <2>2. ASSUME NEW u \in Tools
        PROVE  listed'[u] = IF u \in started' \ active' THEN 1 ELSE 0
    <3>1. listed'[u] = IF u \in active \ Workflows THEN listed[u] + 1 ELSE listed[u]
      BY <1>1 DEF OnTool, Listing
    <3>2. listed[u] = (IF u \in started \ active THEN 1 ELSE 0) /\ active \subseteq started
      OBVIOUS
    <3>3. CASE u \in active \ Workflows
      BY <2>1, <3>1, <3>2, <3>3
    <3>4. CASE u \notin active \ Workflows
      BY <2>1, <3>1, <3>2, <3>4
    <3>5. QED BY <3>3, <3>4
  <2>3. QED BY <2>1, <2>2
<1>2. ASSUME NEW t \in Tools, NEW result \in {"success", "error"}, OnToolResult(t, result)
      PROVE  ToolsOnce'
  <2>1. main = "running" /\ main' = main /\ started' = started /\ t \in started
    BY <1>2 DEF OnToolResult, mainVars
  <2>2. CASE UNCHANGED <<active, listed>>
    BY <2>1, <2>2
  <2>3. CASE t \in active /\ listed' = Listing({t}) /\ active' = active \ {t}
    <3>1. ASSUME NEW u \in Tools
          PROVE  listed'[u] = IF u \in started' \ active' THEN 1 ELSE 0
      <4>1. listed'[u] = IF u = t THEN listed[u] + 1 ELSE listed[u]
        BY <2>3 DEF Listing
      <4>2. listed[u] = IF u \in started \ active THEN 1 ELSE 0
        OBVIOUS
      <4>3. QED BY <2>1, <2>3, <4>1, <4>2
    <3>2. QED BY <2>1, <2>3, <3>1
  <2>4. QED BY <1>2, <2>2, <2>3 DEF OnToolResult
<1>3. CASE Drain
  <2>1. main = "stopping" /\ main' \in {"patch", "card"} /\ UNCHANGED <<ending, started>>
    BY <1>3 DEF Drain
  <2>2. CASE ending = "answer"
    <3>1. active' = {} /\ listed' = Listing(active)
      BY <1>3, <2>2 DEF Drain, Flush
    <3>2. ASSUME NEW u \in Tools
          PROVE  listed'[u] = IF u \in started' \ active' THEN 1 ELSE 0
      <4>1. listed'[u] = IF u \in active THEN listed[u] + 1 ELSE listed[u]
        BY <3>1 DEF Listing
      <4>2. listed[u] = IF u \in started \ active THEN 1 ELSE 0
        OBVIOUS
      <4>3. QED BY <2>1, <3>1, <4>1, <4>2
    <3>3. QED BY <2>1, <3>1, <3>2
  <2>3. CASE ending # "answer"
    <3>1. UNCHANGED <<active, listed>>
      BY <1>3, <2>3 DEF Drain, Flush
    <3>2. QED BY <2>1, <2>3, <3>1
  <2>4. QED BY <2>2, <2>3
<1>4. ASSUME UNCHANGED <<active, listed, started, ending>>,
             main \notin {"running", "stopping"} \/ main' \in {"running", "stopping"}
      PROVE  ToolsOnce'
  BY <1>4
<1>5. ASSUME NEW how \in Endings, Stop(how) PROVE ToolsOnce'
  BY <1>5 DEF Stop, stateVars
<1>6. CASE UNCHANGED cardVars
  BY <1>4, <1>6 DEF cardVars, mainVars, stateVars
<1>7. CASE OnText \/ SoftTimeout \/ SoftReplaces \/ IntervalPasses \/ Click \/ CancelCommand
  BY <1>4, <1>7
     DEF OnText, SoftTimeout, SoftReplaces, IntervalPasses, Click, CancelCommand, mainVars, stateVars
<1>8. CASE HbStep \/ HbPatched \/ HbPatchFails
  BY <1>4, <1>8 DEF HbStep, HbWake, HbRender, HbSkips, HbLock, HbMark, HbEnd, HbPatched,
                    HbPatchFails, mainVars, stateVars
<1>9. CASE LastPatch \/ LastPatchFails \/ \E call \in {"card", "text"} : SendInstead(call)
  BY <1>4, <1>9 DEF LastPatch, LastPatchFails, SendInstead, stateVars
<1>10. QED
  BY <1>1, <1>2, <1>3, <1>5, <1>6, <1>7, <1>8, <1>9 DEF CardNext, Callbacks, Ending, LastCard

----------------------------------------------------------------------------
(* The last card                                                           *)

LEMMA StopStep ==
  ASSUME CardTypeOK, StopInv, [CardNext]_cardVars
  PROVE  StopInv'
<1> USE DEF StopInv, Drained
<1>1. CASE UNCHANGED cardVars
  BY <1>1 DEF cardVars, mainVars, hbVars
<1>2. CASE Callbacks \/ IntervalPasses
  BY <1>2 DEF Callbacks, OnText, OnTool, OnToolResult, SoftTimeout, SoftReplaces, IntervalPasses,
              mainVars, hbVars
<1>3. CASE HbLock
  BY <1>3 DEF HbLock, Stopped, Calls, mainVars
<1>4. CASE HbWake \/ HbRender \/ HbSkips \/ HbMark \/ HbEnd \/ HbPatched \/ HbPatchFails
  <2>1. main' = main /\ hb' # "flight"
    BY <1>4 DEF HbWake, HbRender, HbSkips, HbMark, HbEnd, HbPatched, HbPatchFails, mainVars
  <2>2. "stop" \in flags => "stop" \in flags'
    BY <1>4 DEF HbWake, HbRender, HbSkips, HbMark, HbEnd, HbPatched, HbPatchFails
  <2> QED
    BY <2>1, <2>2
<1>5. CASE Drain
  <2>1. main = "stopping" /\ lock = "free" /\ UNCHANGED <<flags, hb>>
    BY <1>5 DEF Drain, hbVars
  <2> QED
    BY <2>1 DEF CardTypeOK
<1>6. CASE Ending
  BY <1>6 DEF Ending, Stop, hbVars, Calls
<1>7. CASE LastPatch \/ LastPatchFails \/ \E call \in {"card", "text"} : SendInstead(call)
  <2>1. main \in {"patch", "card", "text"} /\ UNCHANGED <<flags, hb>>
    BY <1>7 DEF LastPatch, LastPatchFails, SendInstead, hbVars
  <2> QED
    BY <2>1 DEF Calls
<1>8. CASE Click \/ CancelCommand
  BY <1>8 DEF Click, CancelCommand, mainVars, hbVars
<1>9. QED
  BY <1>1, <1>2, <1>3, <1>4, <1>5, <1>6, <1>7, <1>8 DEF CardNext, HbStep, LastCard

LEMMA FinalStep ==
  ASSUME StopInv, [CardNext]_cardVars, Drained
  PROVE  card' \in {card, Notice(ending), Notice("cancelling")}
<1> USE DEF StopInv, Drained
<1>1. CASE UNCHANGED cardVars
  BY <1>1 DEF cardVars
<1>2. CASE Callbacks \/ IntervalPasses
  BY <1>2 DEF Callbacks, OnText, OnTool, OnToolResult, SoftTimeout, SoftReplaces, IntervalPasses
<1>3. CASE HbStep \/ HbPatched \/ HbPatchFails
  BY <1>3 DEF HbStep, HbWake, HbRender, HbSkips, HbLock, HbMark, HbEnd, HbPatched, HbPatchFails
<1>4. CASE Ending \/ LastCard \/ Click \/ CancelCommand
  BY <1>4 DEF Ending, Stop, LastCard, Drain, LastPatch, LastPatchFails, SendInstead, Click,
              CancelCommand
<1>5. QED
  BY <1>1, <1>2, <1>3, <1>4 DEF CardNext

----------------------------------------------------------------------------
(* The theorems                                                            *)

LEMMA CardInvariant == CardSpec => []CardInv
<1>1. CardInit => CardInv
  <2> SUFFICES ASSUME CardInit PROVE CardInv
    OBVIOUS
  <2>1. card \in Frames \cup Notices
    BY FrameTypes DEF CardInit
  <2>2. CardTypeOK
    BY <2>1, FrameTypes, QueryCardAssumption DEF CardInit, CardTypeOK
  <2>3. ToolsOnce /\ StopInv
    BY DEF CardInit, ToolsOnce, StopInv, Drained
  <2>4. QED BY <2>2, <2>3 DEF CardInv
<1>2. CardInv /\ [CardNext]_cardVars => CardInv'
  BY CardTypeStep, ToolsStep, StopStep DEF CardInv
<1>3. QED
  BY <1>1, <1>2, PTL DEF CardSpec

\* Every variable of the card stays in its range, and the lock is held exactly while a patch of the
\* heartbeat is in flight (_push_if_needed, _query.py 801-806).
THEOREM CardTypeSafe == CardSpec => []CardTypeOK
<1>1. CardInv => CardTypeOK
  BY DEF CardInv
<1>2. QED
  BY <1>1, CardInvariant, PTL

\* Every tool the runner reports is shown once, running or completed, for any number of tools
\* (on_tool, on_tool_result and the flush at the end, _query_card_state.py 206-282).
THEOREM ToolsSafe == CardSpec => []ToolsOnce
<1>1. CardInv => ToolsOnce
  BY DEF CardInv
<1>2. QED
  BY <1>1, CardInvariant, PTL

\* No late frame of the heartbeat covers the last card (the stop event and card_patch_lock,
\* _query.py 1237-1252).
THEOREM FinalSafe == CardSpec => FinalStays
<1>1. CardInv /\ [CardNext]_cardVars => [Drained => (card' \in {card, Notice(ending), Notice("cancelling")})]_cardVars
  BY FinalStep DEF CardInv
<1>2. QED
  BY <1>1, CardInvariant, PTL DEF CardSpec, FinalStays

----------------------------------------------------------------------------
(* What the card shows                                                     *)

\* Nothing that is shown, and no frame on its way, is ahead of the query; and a frame on its way is
\* not older than what is shown.
AscendInv ==
  /\ card \in Frames =>
       card.text <= currentText /\ (card.mode = "background" => "background" \in flags)
  /\ hb \in {"lock", "flight"} =>
       /\ frame.text <= currentText /\ (frame.mode = "background" => "background" \in flags)
       /\ card \in Frames =>
            card.text <= frame.text /\ (card.mode = "background" => frame.mode = "background")

LEMMA NoticesApart ==
  \A what \in Endings \cup {"none", "cancelling"} : Notice(what) \notin Frames
  BY DEF Endings, Notice, Frames

LEMMA TextsAreNumbers ==
  ASSUME CardTypeOK
  PROVE  /\ currentText \in Nat /\ frame.text \in Nat
         /\ card \in Frames => card.text \in Nat
<1>1. \A n \in 0..MaxText : n \in Nat
  BY QueryCardAssumption
<1>2. currentText \in 0..MaxText /\ frame \in Frames
  BY DEF CardTypeOK
<1>3. \A f \in Frames : f.text \in 0..MaxText
  BY DEF Frames
<1> QED
  BY <1>1, <1>2, <1>3

\* A step that leaves the card and the frames alone.
LEMMA AscendStays ==
  ASSUME CardTypeOK, AscendInv,
         card' = card \/ card' \notin Frames,
         frame' = frame, currentText' >= currentText, currentText' \in 0..MaxText,
         "background" \in flags => "background" \in flags',
         hb' \in {"lock", "flight"} => hb \in {"lock", "flight"}
  PROVE  AscendInv'
<1>1. currentText' \in Nat
  BY QueryCardAssumption
<1> QED
  BY <1>1, TextsAreNumbers DEF AscendInv

LEMMA AscendStep ==
  ASSUME CardTypeOK, AscendInv, [CardNext]_cardVars
  PROVE  AscendInv'
<1> USE DEF mainVars, stateVars, hbVars
<1>0. currentText \in 0..MaxText /\ currentText \in Nat /\ ending \in Endings \cup {"none"}
  BY TextsAreNumbers DEF CardTypeOK
<1>1. CASE OnText
  BY <1>0, <1>1, AscendStays, CountUp, QueryCardAssumption DEF OnText
<1>2. CASE SoftTimeout \/ SoftReplaces \/ IntervalPasses \/ CancelCommand
  BY <1>0, <1>2, AscendStays DEF SoftTimeout, SoftReplaces, IntervalPasses, CancelCommand
<1>3. ASSUME NEW t \in Tools, OnTool(t) \/ \E result \in {"success", "error"} : OnToolResult(t, result)
      PROVE  AscendInv'
  BY <1>0, <1>3, AscendStays DEF OnTool, OnToolResult
<1>4. CASE HbWake \/ HbSkips \/ HbMark
  BY <1>4 DEF HbWake, HbSkips, HbMark, AscendInv
<1>5. CASE HbRender
  <2>1. /\ frame'.text = currentText
        /\ frame'.mode = IF "background" \in flags THEN "background" ELSE "foreground"
    BY <1>5 DEF HbRender, CardTypeOK, Frames
  <2> QED
    BY <1>0, <1>5, <2>1 DEF HbRender, AscendInv
<1>6. CASE HbLock \/ HbEnd
  BY <1>0, <1>6, AscendStays DEF HbLock, HbEnd
<1>7. CASE HbPatched
  BY <1>7 DEF HbPatched, AscendInv
<1>8. CASE HbPatchFails
  BY <1>8 DEF HbPatchFails, AscendInv
<1>9. CASE Ending
  BY <1>0, <1>9, AscendStays DEF Ending, Stop
<1>10. CASE Drain
  BY <1>0, <1>10, AscendStays DEF Drain
<1>11. CASE LastPatch
  <2>1. card' \notin Frames
    BY <1>0, <1>11, NoticesApart DEF LastPatch
  <2> QED
    BY <1>0, <1>11, <2>1, AscendStays DEF LastPatch
<1>12. CASE LastPatchFails \/ \E call \in {"card", "text"} : SendInstead(call)
  <2>1. UNCHANGED <<flags, currentText, hb, frame, card>>
    BY <1>12 DEF LastPatchFails, SendInstead
  <2> QED
    BY <1>0, <2>1, AscendStays
<1>13. CASE Click
  <2>1. card' \notin Frames
    BY <1>13, NoticesApart DEF Click
  <2> QED
    BY <1>0, <1>13, <2>1, AscendStays DEF Click
<1>14. CASE UNCHANGED cardVars
  BY <1>0, <1>14, AscendStays DEF cardVars
<1> QED
  BY <1>1, <1>2, <1>3, <1>4, <1>5, <1>6, <1>7, <1>8, <1>9, <1>10, <1>11, <1>12, <1>13, <1>14
  DEF CardNext, Callbacks, HbStep, LastCard

\* The frames that follow each other on the card.
Ascends ==
  card \in Frames /\ card' \in Frames =>
    /\ card.text <= card'.text
    /\ card.mode = "background" => card'.mode = "background"

\* What CardFollows rests on: the card never goes back, neither to an older text nor from the
\* background to the foreground, although a frame is rendered before the lock is taken, the query goes
\* on meanwhile and a patch may fail, for any texts, tools and clicks (_push_if_needed, render_body).
THEOREM AscendSafe == CardSpec => [][Ascends]_cardVars
<1>1. CardInit => AscendInv
  <2> SUFFICES ASSUME CardInit
               PROVE  AscendInv
    OBVIOUS
  <2>1. card = Initial \/ card = Notice("none")
    BY DEF CardInit
  <2>2. hb = "sleep" /\ currentText = 0 /\ Notice("none") \notin Frames
    BY NoticesApart DEF CardInit
  <2> QED
    BY <2>1, <2>2 DEF AscendInv, Initial
<1>2. CardInv /\ AscendInv /\ [CardNext]_cardVars => AscendInv'
  BY AscendStep DEF CardInv
<1>3. CardInv /\ AscendInv /\ [CardNext]_cardVars => [Ascends]_cardVars
  <2> SUFFICES ASSUME CardInv, AscendInv, CardNext
               PROVE  Ascends
    OBVIOUS
  <2>1. card' \in Frames => card' = card \/ (hb = "flight" /\ card' = frame)
    <3>1. ending \in Endings \cup {"none"}
      BY DEF CardInv, CardTypeOK
    <3>2. CASE Callbacks \/ IntervalPasses \/ HbStep \/ HbPatchFails \/ Ending \/ CancelCommand
      BY <3>2 DEF Callbacks, OnText, OnTool, OnToolResult, SoftTimeout, SoftReplaces,
                  IntervalPasses, HbStep, HbWake, HbRender, HbSkips, HbLock, HbMark, HbEnd, HbPatchFails, Ending, Stop, CancelCommand
    <3>3. CASE HbPatched
      BY <3>3 DEF HbPatched
    <3>4. CASE LastCard \/ Click
      BY <3>1, <3>4, NoticesApart DEF LastCard, Drain, LastPatch, LastPatchFails, SendInstead, Click
    <3> QED
      BY <3>2, <3>3, <3>4 DEF CardNext
  <2> QED
    BY <2>1, TextsAreNumbers DEF CardInv, AscendInv, Ascends
<1> QED
  BY <1>1, <1>2, <1>3, CardInvariant, PTL DEF CardSpec

----------------------------------------------------------------------------
(* What the user is told                                                   *)

\* What was carried out shows.
Reached ==
  \/ "patch" \in reached /\ card \in {Notice(ending), Notice("cancelling")}
  \/ reached \cap {"card", "text"} # {}

\* Who is at a call has been there in the order of the fallbacks: the user was told, or all that was
\* tried so far has failed.
ToldInv ==
  /\ main # "running" => ending \in Endings
  /\ main \in {"running", "stopping"} => missed = {} /\ reached = {}
  /\ main = "patch" => missed = {} /\ reached = {} /\ ending # "refused"
  /\ main = "card" =>
       /\ ending # "cancelled"
       /\ Reached \/ missed = (IF ending = "refused" THEN {} ELSE {"patch"})
  /\ main = "text" =>
       /\ ending \in {"answer", "refused"}
       /\ Reached \/ missed = (IF ending = "refused" THEN {"card"} ELSE {"patch", "card"})
  /\ main = "done" => Told

\* The calls there are to try, for each ending.
LEMMA TriedIs ==
  /\ Tried("answer") = {"patch", "card", "text"}
  /\ Tried("failed") = {"patch", "card"}
  /\ Tried("refused") = {"card", "text"}
  /\ Tried("cancelled") = {"patch"}
  BY DEF Tried

\* A step that leaves the end alone.
LEMMA ToldStays ==
  ASSUME ToldInv, UNCHANGED mainVars,
         card' = card \/ card' = Notice("cancelling")
  PROVE  ToldInv'
<1>1. Reached => Reached'
  BY DEF Reached, mainVars
<1>2. Told => Told'
  BY DEF Told, mainVars
<1> QED
  BY <1>1, <1>2 DEF ToldInv, mainVars

\* A call of the end that is not a patch.
LEMMA ToldCall ==
  ASSUME CardInv, ToldInv, NEW call \in {"card", "text"}, SendInstead(call)
  PROVE  ToldInv'
<1>1. main = call /\ UNCHANGED <<ending, card>> /\ ending' \in Endings
  BY DEF SendInstead, ToldInv
<1>2. CASE CallWorks(call)
  <2>1. Reached' /\ Told'
    BY <1>2 DEF CallWorks, Reached, Told
  <2>2. \/ main' = "done"
        \/ call = "card" /\ main' = "text" /\ ending \in {"answer", "refused"}
    BY <1>2 DEF CallWorks, AfterFailed
  <2> QED
    BY <1>1, <2>1, <2>2 DEF ToldInv
<1>3. CASE CallFails(call)
  <2>1. reached' = reached /\ missed' = missed \cup {call} /\ main' = AfterFailed(call)
    BY <1>3 DEF CallFails
  <2>2. Reached => Reached' /\ Told'
    BY <1>1, <2>1 DEF Reached, Told
  <2>3. ending \in {"answer", "failed", "refused"}
    <3>1. ending \in Endings /\ (call = "card" => ending # "cancelled")
                            /\ (call = "text" => ending \in {"answer", "refused"})
      BY <1>1 DEF ToldInv
    <3> QED
      BY <3>1 DEF Endings
  <2>4. CASE call = "card"
    <3>1. Reached \/ missed' = (IF ending = "refused" THEN {"card"} ELSE {"patch", "card"})
      BY <1>1, <2>1, <2>4 DEF ToldInv
    <3>2. CASE ending = "failed"
      <4>1. main' = "done"
        BY <2>1, <2>4, <3>2 DEF AfterFailed
      <4>2. Told'
        BY <1>1, <2>2, <3>1, <3>2, TriedIs DEF Told
      <4> QED
        BY <1>1, <4>1, <4>2 DEF ToldInv
    <3>3. CASE ending # "failed"
      <4>1. main' = "text"
        BY <2>1, <2>3, <2>4, <3>3 DEF AfterFailed
      <4> QED
        BY <1>1, <2>2, <2>3, <3>1, <3>3, <4>1 DEF ToldInv
    <3> QED
      BY <3>2, <3>3
  <2>5. CASE call = "text"
    <3>1. main' = "done" /\ ending \in {"answer", "refused"}
      BY <1>1, <2>1, <2>5 DEF AfterFailed, ToldInv
    <3>2. Reached \/ missed' = (IF ending = "refused" THEN {"card", "text"}
                                ELSE {"patch", "card", "text"})
      BY <1>1, <2>1, <2>5 DEF ToldInv
    <3>3. Told'
      BY <1>1, <2>2, <3>1, <3>2, TriedIs DEF Told
    <3> QED
      BY <1>1, <3>1, <3>3 DEF ToldInv
  <2> QED
    BY <2>4, <2>5
<1> QED
  BY <1>2, <1>3 DEF SendInstead

LEMMA ToldStep ==
  ASSUME CardInv, ToldInv, [CardNext]_cardVars
  PROVE  ToldInv'
<1>1. CASE Callbacks \/ IntervalPasses \/ HbStep \/ HbPatchFails \/ CancelCommand \/ Click
           \/ UNCHANGED cardVars
  <2>1. UNCHANGED mainVars /\ (card' = card \/ card' = Notice("cancelling"))
    BY <1>1 DEF Callbacks, OnText, OnTool, OnToolResult, SoftTimeout, SoftReplaces, IntervalPasses,
                HbStep, HbWake, HbRender, HbSkips, HbLock, HbMark, HbEnd, HbPatchFails, CancelCommand,
                Click, cardVars
  <2> QED
    BY <2>1, ToldStays
<1>2. CASE HbPatched
  <2>1. main \in {"running", "stopping"}
    BY <1>2 DEF HbPatched, CardInv, StopInv, Drained, CardTypeOK
  <2> QED
    BY <1>2, <2>1 DEF HbPatched, mainVars, ToldInv
<1>3. CASE Ending
  BY <1>3 DEF Ending, Stop, ToldInv
<1>4. CASE Drain
  BY <1>4 DEF Drain, ToldInv
<1>5. CASE LastPatch
  <2>1. Reached' /\ Told' /\ ending' \in Endings
    BY <1>5 DEF LastPatch, CallWorks, Reached, Told, ToldInv
  <2>2. main' = "done" \/ (main' = "card" /\ ending' # "cancelled")
    BY <1>5 DEF LastPatch, CallWorks, AfterFailed
  <2> QED
    BY <2>1, <2>2 DEF ToldInv
<1>6. CASE LastPatchFails
  <2>1. /\ missed' = {"patch"} /\ ending # "refused" /\ UNCHANGED ending /\ ending \in Endings
        /\ main' = AfterFailed("patch")
    BY <1>6 DEF LastPatchFails, CallFails, ToldInv
  <2>2. CASE ending = "cancelled"
    <3>1. main' = "done"
      BY <2>1, <2>2 DEF AfterFailed
    <3> QED
      BY <2>1, <2>2, <3>1, TriedIs DEF ToldInv, Told
  <2>3. CASE ending # "cancelled"
    <3>1. main' = "card"
      BY <2>1, <2>3 DEF AfterFailed
    <3> QED
      BY <2>1, <2>3, <3>1 DEF ToldInv
  <2> QED
    BY <2>2, <2>3
<1>7. ASSUME NEW call \in {"card", "text"}, SendInstead(call) PROVE ToldInv'
  BY <1>7, ToldCall
<1> QED
  BY <1>1, <1>2, <1>3, <1>4, <1>5, <1>6, <1>7 DEF CardNext, LastCard

\* What UserIsTold rests on: a query that is over has its end on the card, or in a card or a text of
\* its own, or every one of these calls was tried and failed, whichever patches fail, or are carried
\* out and reported as failed, and whenever the user clicks (the last card of _do_query and its
\* fallbacks, _query.py 1237-1300, lark_client.py 177-216 and 392-407).
THEOREM ToldSafe == CardSpec => [](main = "done" => Told)
<1>1. CardInit => ToldInv
  BY DEF CardInit, ToldInv
<1>2. CardInv /\ ToldInv /\ [CardNext]_cardVars => ToldInv'
  BY ToldStep
<1>3. ToldInv => (main = "done" => Told)
  BY DEF ToldInv
<1> QED
  BY <1>1, <1>2, <1>3, CardInvariant, PTL DEF CardSpec

=============================================================================
