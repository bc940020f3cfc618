--------------------------- MODULE ChatQueryProofs ---------------------------
(* Proofs about ChatQuery, for every set of threads and messages.           *)
EXTENDS ChatQuery, TLAPS, SequenceTheorems

\* A thread that still has to place or to start its message, and a callback that popped one,
\* have a message.
HasMessage ==
  /\ \A t \in Threads : pc[t] \in Waiting => msg[t] \in Messages
  /\ \A t \in Threads : soft[t] = "start" => softMsg[t].msg \in Messages

TypeInv == TypeOK /\ HasMessage

\* Replacing an element of a sequence, at any index, gives a sequence of the same elements.
LEMMA SeqExcept ==
  ASSUME NEW S, NEW s \in Seq(S), NEW i, NEW x \in S
  PROVE  [s EXCEPT ![i] = x] \in Seq(S)
<1>1. CASE i \in 1..Len(s)
  BY <1>1, ExceptSeq
<1>2. CASE i \notin 1..Len(s)
  <2>1. [s EXCEPT ![i] = x] = s
    BY <1>2
  <2>2. QED BY <2>1
<1>3. QED BY <1>1, <1>2

\* The two ends of Settle, with the variables each one changes.
SettleReturns(t) ==
  /\ pc' = [pc EXCEPT ![t] = "idle"]
  /\ msg' = [msg EXCEPT ![t] = None]
  /\ mid' = [mid EXCEPT ![t] = 0]
  /\ ev' = [ev EXCEPT ![t] = 0]
  /\ UNCHANGED <<pending, lockReleased, soft, softMsg, holder, registered, isSet, cards,
                 command, inputs, todo, executed>>

SettleTakes(t) ==
  /\ pending.msg # None
  /\ pc' = [pc EXCEPT ![t] = "dispatch"]
  /\ msg' = [msg EXCEPT ![t] = pending.msg]
  /\ mid' = [mid EXCEPT ![t] = pending.mid]
  /\ pending' = NoPending
  /\ UNCHANGED <<ev, lockReleased, soft, softMsg, holder, registered, isSet, cards,
                 command, inputs, todo, executed>>

\* What the end of a query does: it returns, or it takes the queued message with it.
LEMMA SettleCases ==
  ASSUME NEW t \in Threads, Settle(t)
  PROVE  pc[t] = "settle" /\ (SettleReturns(t) \/ SettleTakes(t))
<1>1. CASE Return(t) /\ UNCHANGED pending
  BY <1>1, Settle(t) DEF Settle, Return, SettleReturns
<1>2. CASE /\ pending.msg # None
           /\ msg' = [msg EXCEPT ![t] = pending.msg]
           /\ mid' = [mid EXCEPT ![t] = pending.mid]
           /\ pending' = NoPending
           /\ Goto(t, "dispatch")
           /\ UNCHANGED ev
  BY <1>2, Settle(t) DEF Settle, Goto, SettleTakes
<1>3. QED
  BY <1>1, <1>2, Settle(t) DEF Settle

\* Replacing a value of a function by another one of its range.
LEMMA FunExcept ==
  ASSUME NEW D, NEW R, NEW f \in [D -> R], NEW d, NEW r \in R
  PROVE  [f EXCEPT ![d] = r] \in [D -> R]
  OBVIOUS

\* What the callback does once it has let go of the lock: nothing, or it takes the queued
\* message.
LEMMA SoftPopCases ==
  ASSUME NEW t \in Threads, SoftPop(t)
  PROVE  /\ UNCHANGED <<pc, msg, mid, ev, lockReleased, holder, registered, isSet, cards,
                        command, inputs, todo, executed>>
         /\ soft[t] = "pop" /\ pending' = NoPending
         /\ \/ soft' = [soft EXCEPT ![t] = "done"] /\ softMsg' = softMsg /\ pending.msg = None
            \/ /\ pending.msg # None
               /\ soft' = [soft EXCEPT ![t] = "start"]
               /\ softMsg' = [softMsg EXCEPT ![t] = pending]
  BY SoftPop(t) DEF SoftPop, SoftGoto

\* Every handler and thread step of ChatQuery keeps each variable in its range (TypeOK)
\* and leaves no thread or callback without the message it is responsible for.
THEOREM TypeCorrect == Spec => []TypeInv
<1> USE ChatQueryAssumption DEF Slot, NoPending, NoCommand, Waiting, Running, Ending, PCs, SoftPCs
<1>1. Init => TypeInv
  BY DEF Init, TypeInv, TypeOK, HasMessage
<1>2. TypeInv /\ [Next]_vars => TypeInv'
  <2> SUFFICES ASSUME TypeInv, [Next]_vars PROVE TypeInv'
    OBVIOUS
  <2> USE DEF TypeInv, TypeOK, HasMessage
  <2>1. ASSUME NEW m \in Messages, NEW u \in Threads, Receive(m, u) PROVE TypeInv'
    BY <2>1 DEF Receive, Spawn
  <2>2. ASSUME NEW t \in Threads, ThreadStep(t) PROVE TypeInv'
    <3>1. CASE Fetch(t) BY <3>1 DEF Fetch, Goto
    <3>2. CASE Acquire(t) BY <3>2 DEF Acquire, Goto
    <3>3. CASE Busy(t) BY <3>3 DEF Busy, Goto
    <3>4. CASE Enqueue(t) BY <3>4 DEF Enqueue, Goto
    <3>5. CASE PatchQueueCard(t)
      <4>1. [cards EXCEPT ![mid[t]] = msg[t]] \in Seq(Messages \cup {None})
        BY SeqExcept
      <4>2. QED BY <3>5, <4>1 DEF PatchQueueCard, Return
    <3>6. CASE SendQueueCard(t)
      <4>1. cards' \in Seq(Messages \cup {None}) /\ mid' \in [Threads -> Nat]
        <5>1. Append(cards, msg[t]) \in Seq(Messages \cup {None}) /\ Len(cards) + 1 \in Nat
          OBVIOUS
        <5>2. CASE UNCHANGED <<cards, mid>>
          BY <5>2
        <5>3. CASE cards' = Append(cards, msg[t]) /\ mid' = [mid EXCEPT ![t] = Len(cards) + 1]
          BY <5>1, <5>3
        <5>4. QED BY <3>6, <5>2, <5>3 DEF SendQueueCard
      <4>2. /\ pc' = [pc EXCEPT ![t] = "tag"]
            /\ UNCHANGED <<msg, ev, lockReleased, soft, softMsg, holder, registered, isSet,
                           pending, command, inputs, todo, executed>>
        BY <3>6 DEF SendQueueCard, Goto
      <4>3. QED BY <4>1, <4>2
    <3>7. CASE TagPending(t) BY <3>7 DEF TagPending, Return
    <3>8. CASE Begin(t)
      <4>1. [cards EXCEPT ![mid[t]] = None] \in Seq(Messages \cup {None})
        BY SeqExcept
      <4>2. QED BY <3>8, <4>1 DEF Begin, Goto
    <3>9. CASE End(t) BY <3>9 DEF End, Goto
    <3>10. CASE Release(t) BY <3>10 DEF Release, Goto
    <3>11. CASE Settle(t)
      <4>1. CASE SettleReturns(t)
        BY <4>1 DEF SettleReturns
      <4>2. CASE SettleTakes(t)
        <5>1. pending.msg \in Messages /\ pending.mid \in Nat
          BY <4>2 DEF SettleTakes
        <5>2. TypeOK'
          BY <4>2, <5>1 DEF SettleTakes
        <5>3. HasMessage'
          BY <4>2, <5>1 DEF SettleTakes
        <5>4. QED BY <5>2, <5>3
      <4>3. QED BY <3>11, <4>1, <4>2, SettleCases
    <3>12. ASSUME NEW u \in Threads, Dispatch(t, u) PROVE TypeInv'
      BY <3>12 DEF Dispatch, Spawn
    <3>13. CASE DispatchFails(t) BY <3>13 DEF DispatchFails, Return
    <3>14. QED
      BY <2>2, <3>1, <3>2, <3>3, <3>4, <3>5, <3>6, <3>7, <3>8, <3>9, <3>10, <3>11, <3>12, <3>13
      DEF ThreadStep
  <2>3. ASSUME NEW t \in Threads, SoftFire(t) \/ CallbackStep(t) PROVE TypeInv'
    <3>1. CASE SoftFire(t) BY <3>1 DEF SoftFire, SoftGoto
    <3>2. CASE SoftRelease(t) BY <3>2 DEF SoftRelease, SoftGoto
    <3>3. CASE SoftReplace(t) BY <3>3 DEF SoftReplace, SoftGoto
    <3>4. CASE SoftPop(t)
      <4>1. [softMsg EXCEPT ![t] = pending] \in [Threads -> Slot]
        BY FunExcept
      <4>2. soft' \in [Threads -> SoftPCs] /\ softMsg' \in [Threads -> Slot]
        <5>1. \A s \in {"done", "start"} : [soft EXCEPT ![t] = s] \in [Threads -> SoftPCs]
          OBVIOUS
        <5>2. \/ soft' = [soft EXCEPT ![t] = "done"] /\ softMsg' = softMsg
              \/ soft' = [soft EXCEPT ![t] = "start"] /\ softMsg' = [softMsg EXCEPT ![t] = pending]
          BY <3>4, SoftPopCases
        <5>3. QED BY <4>1, <5>1, <5>2
      <4>3. /\ UNCHANGED <<pc, msg, mid, ev, lockReleased, holder, registered, isSet, cards,
                           command, inputs, todo, executed>>
            /\ pending' = NoPending
        BY <3>4, SoftPopCases
      <4>4. TypeOK'
        BY <4>2, <4>3
      <4>5. HasMessage'
        <5>1. ASSUME NEW u \in Threads, soft'[u] = "start" PROVE softMsg'[u].msg \in Messages
          <6>1. CASE soft' = [soft EXCEPT ![t] = "done"] /\ softMsg' = softMsg
            BY <5>1, <6>1
          <6>2. CASE /\ pending.msg # None
                     /\ soft' = [soft EXCEPT ![t] = "start"]
                     /\ softMsg' = [softMsg EXCEPT ![t] = pending]
            <7>1. CASE u = t BY <6>2, <7>1
            <7>2. CASE u # t BY <5>1, <6>2, <7>2
            <7>3. QED BY <7>1, <7>2
          <6>3. QED BY <3>4, <6>1, <6>2, SoftPopCases
        <5>2. QED BY <4>3, <5>1
      <4>6. QED BY <4>4, <4>5
    <3>5. ASSUME NEW u \in Threads, SoftStart(t, u) PROVE TypeInv'
      BY <3>5 DEF SoftStart, Free
    <3>6. CASE SoftStartFails(t) BY <3>6 DEF SoftStartFails, SoftGoto
    <3>7. QED
      BY <2>3, <3>1, <3>2, <3>3, <3>4, <3>5, <3>6 DEF CallbackStep
  <2>4. ASSUME NEW kind \in {"cancel", "probe"}, ProbeLock(kind) PROVE TypeInv'
    BY <2>4 DEF ProbeLock, AfterProbe, Input, locals
  <2>5. CASE CommandStep
    BY <2>5 DEF CommandStep, ProbeRelease, CancelPop, CancelTrigger, AfterProbe, locals
  <2>6. CASE CancelButton
    BY <2>6 DEF CancelButton, Input, locals
  <2>6a. CASE EvictEvent
    BY <2>6a DEF EvictEvent, Input, locals
  <2>7. ASSUME NEW c \in 1..Len(cards), CancelQueueButton(c) PROVE TypeInv'
    BY <2>7 DEF CancelQueueButton, Input, locals
  <2>8. CASE UNCHANGED vars
    BY <2>8 DEF vars, locals
  <2>9. QED
    BY <2>1, <2>2, <2>3, <2>4, <2>5, <2>6, <2>7, <2>8, <2>6a DEF Next, UserStep
<1>3. QED
  BY <1>1, <1>2, PTL DEF Spec

\* Every variable of ChatQuery stays in its range: in particular a thread fetches, keeps and
\* compares events and cards that exist, whatever the interleaving.
THEOREM TypeSafe == Spec => []TypeOK
  BY TypeCorrect, PTL DEF TypeInv

----------------------------------------------------------------------------
(* Mutual exclusion.  Without a soft timeout nobody but the holder releases *)
(* the lock: the thread that took it, or the command that probed it.        *)

LockInv ==
  /\ \A t \in Threads : soft[t] = "armed"
  /\ \A t \in Threads : pc[t] \in Running \cup {"release"} => holder = t
  /\ command.at = "acquired" => holder = Prober

LEMMA LockInvariant ==
  ASSUME "soft" \notin Hazards
  PROVE  Spec => []LockInv
<1> USE ChatQueryAssumption DEF Slot, NoPending, NoCommand, Waiting, Running, Ending, PCs, SoftPCs
<1>1. Init => LockInv
  BY DEF Init, LockInv
<1>2. TypeInv /\ LockInv /\ [Next]_vars => LockInv'
  <2> SUFFICES ASSUME TypeOK, LockInv, [Next]_vars PROVE LockInv'
    BY DEF TypeInv
  <2> USE DEF TypeOK, LockInv
  <2>1. ASSUME NEW m \in Messages, NEW u \in Threads, Receive(m, u) PROVE LockInv'
    BY <2>1 DEF Receive, Spawn, Free
  <2>2. ASSUME NEW t \in Threads, ThreadStep(t) PROVE LockInv'
    <3>1. CASE Fetch(t) BY <3>1 DEF Fetch, Goto
    <3>2. CASE Acquire(t) BY <3>2 DEF Acquire, Goto
    <3>3. CASE Busy(t) BY <3>3 DEF Busy, Goto
    <3>4. CASE Enqueue(t) BY <3>4 DEF Enqueue, Goto
    <3>5. CASE PatchQueueCard(t) BY <3>5 DEF PatchQueueCard, Return
    <3>6. CASE SendQueueCard(t) BY <3>6 DEF SendQueueCard, Goto
    <3>7. CASE TagPending(t) BY <3>7 DEF TagPending, Return
    <3>8. CASE Begin(t) BY <3>8 DEF Begin, Goto
    <3>9. CASE End(t) BY <3>9 DEF End, Goto
    <3>10. CASE Release(t) BY <3>10 DEF Release, Goto
    <3>11. CASE Settle(t) BY <3>11, SettleCases DEF SettleReturns, SettleTakes
    <3>12. ASSUME NEW u \in Threads, Dispatch(t, u) PROVE LockInv'
      BY <3>12 DEF Dispatch, Spawn, Free
    <3>13. CASE DispatchFails(t) BY <3>13 DEF DispatchFails, Return
    <3>14. QED
      BY <2>2, <3>1, <3>2, <3>3, <3>4, <3>5, <3>6, <3>7, <3>8, <3>9, <3>10, <3>11, <3>12, <3>13
      DEF ThreadStep
  <2>3. ASSUME NEW t \in Threads, SoftFire(t) \/ CallbackStep(t) PROVE LockInv'
    BY <2>3 DEF SoftFire, CallbackStep, SoftRelease, SoftReplace, SoftPop, SoftStart, SoftStartFails
  <2>4. ASSUME NEW kind \in {"cancel", "probe"}, ProbeLock(kind) PROVE LockInv'
    BY <2>4 DEF ProbeLock, AfterProbe, locals
  <2>5. CASE CommandStep
    BY <2>5 DEF CommandStep, ProbeRelease, CancelPop, CancelTrigger, AfterProbe, locals
  <2>6. CASE CancelButton \/ EvictEvent
    BY <2>6 DEF CancelButton, EvictEvent, Input, locals
  <2>7. ASSUME NEW c \in 1..Len(cards), CancelQueueButton(c) PROVE LockInv'
    BY <2>7 DEF CancelQueueButton, locals
  <2>8. CASE UNCHANGED vars
    BY <2>8 DEF vars, locals
  <2>9. QED
    BY <2>1, <2>2, <2>3, <2>4, <2>5, <2>6, <2>7, <2>8 DEF Next, UserStep
<1> QED
  BY <1>1, <1>2, TypeCorrect, PTL DEF Spec

\* If no query passes its soft timeout, two messages of a chat are never worked on in the
\* foreground together, whatever the commands and the probes of the lock do.
THEOREM MutualExclusion ==
  ASSUME "soft" \notin Hazards
  PROVE  Spec => []ForegroundExclusive
<1>1. LockInv => ForegroundExclusive
  BY DEF LockInv, ForegroundExclusive, Foreground, Running
<1> QED
  BY <1>1, LockInvariant, PTL

----------------------------------------------------------------------------
(* Cancellation.  The registered event only gets younger.                   *)

EventInv ==
  /\ \A t \in Threads : pc[t] \in {"acquire", "begin", "run"} => ev[t] <= registered
  /\ \A t \in Threads : pc[t] = "run" /\ t \in lockReleased => ev[t] < registered
  /\ \A t \in Threads : pc[t] \in {"fetch", "acquire", "begin"}
                           => t \notin lockReleased /\ soft[t] \in {"armed", "done"}

\* A query that its soft timeout moved to the background is never again the target of a
\* cancellation, however many queries come and time out after it.
THEOREM BackgroundSafe == Spec => []BackgroundUnreachable
<1> USE ChatQueryAssumption DEF Slot, NoPending, NoCommand, Waiting, Running, Ending, PCs, SoftPCs
<1>1. Init => EventInv
  BY DEF Init, EventInv
<1>2. TypeInv /\ EventInv /\ [Next]_vars => EventInv'
  <2> SUFFICES ASSUME TypeOK, EventInv, [Next]_vars PROVE EventInv'
    BY DEF TypeInv
  <2> USE DEF TypeOK, EventInv
  <2>1. ASSUME NEW m \in Messages, NEW u \in Threads, Receive(m, u) PROVE EventInv'
    BY <2>1 DEF Receive, Spawn, Free
  <2>2. ASSUME NEW t \in Threads, ThreadStep(t) PROVE EventInv'
    <3>1. CASE Fetch(t) BY <3>1 DEF Fetch, Goto
    <3>2. CASE Acquire(t) BY <3>2 DEF Acquire, Goto
    <3>3. CASE Busy(t) BY <3>3 DEF Busy, Goto
    <3>4. CASE Enqueue(t) BY <3>4 DEF Enqueue, Goto
    <3>5. CASE PatchQueueCard(t) BY <3>5 DEF PatchQueueCard, Return
    <3>6. CASE SendQueueCard(t) BY <3>6 DEF SendQueueCard, Goto
    <3>7. CASE TagPending(t) BY <3>7 DEF TagPending, Return
    <3>8. CASE Begin(t) BY <3>8 DEF Begin, Goto
    <3>9. CASE End(t) BY <3>9 DEF End, Goto
    <3>10. CASE Release(t) BY <3>10 DEF Release, Goto
    <3>11. CASE Settle(t)
      <4>1. CASE SettleReturns(t) BY <4>1 DEF SettleReturns
      <4>2. CASE SettleTakes(t) BY <4>2 DEF SettleTakes
      <4>3. QED BY <3>11, <4>1, <4>2, SettleCases
    <3>12. ASSUME NEW u \in Threads, Dispatch(t, u) PROVE EventInv'
      BY <3>12 DEF Dispatch, Spawn, Free
    <3>13. CASE DispatchFails(t) BY <3>13 DEF DispatchFails, Return
    <3>14. QED
      BY <2>2, <3>1, <3>2, <3>3, <3>4, <3>5, <3>6, <3>7, <3>8, <3>9, <3>10, <3>11, <3>12, <3>13
      DEF ThreadStep
  <2>3. ASSUME NEW t \in Threads, SoftFire(t) \/ CallbackStep(t) PROVE EventInv'
    <3>1. CASE SoftFire(t) BY <3>1 DEF SoftFire, SoftGoto
    <3>2. CASE SoftRelease(t) BY <3>2 DEF SoftRelease, SoftGoto
    <3>3. CASE SoftReplace(t) BY <3>3 DEF SoftReplace, SoftGoto
    <3>4. CASE SoftPop(t)
      <4>1. soft' = [soft EXCEPT ![t] = "done"] \/ soft' = [soft EXCEPT ![t] = "start"]
        BY <3>4, SoftPopCases
      <4>2. UNCHANGED <<pc, ev, lockReleased, registered>> /\ soft[t] = "pop"
        BY <3>4, SoftPopCases
      <4>3. QED BY <4>1, <4>2
    <3>5. ASSUME NEW u \in Threads, SoftStart(t, u) PROVE EventInv'
      BY <3>5 DEF SoftStart, Free
    <3>6. CASE SoftStartFails(t) BY <3>6 DEF SoftStartFails, SoftGoto
    <3>7. QED
      BY <2>3, <3>1, <3>2, <3>3, <3>4, <3>5, <3>6 DEF CallbackStep
  <2>4. ASSUME NEW kind \in {"cancel", "probe"}, ProbeLock(kind) PROVE EventInv'
    BY <2>4 DEF ProbeLock, locals
  <2>5. CASE CommandStep
    BY <2>5 DEF CommandStep, ProbeRelease, CancelPop, CancelTrigger, locals
  <2>6. CASE CancelButton \/ EvictEvent
    BY <2>6 DEF CancelButton, EvictEvent, Input, locals
  <2>7. ASSUME NEW c \in 1..Len(cards), CancelQueueButton(c) PROVE EventInv'
    BY <2>7 DEF CancelQueueButton, locals
  <2>8. CASE UNCHANGED vars
    BY <2>8 DEF vars, locals
  <2>9. QED
    BY <2>1, <2>2, <2>3, <2>4, <2>5, <2>6, <2>7, <2>8 DEF Next, UserStep
<1>3. TypeInv /\ EventInv => BackgroundUnreachable
  BY DEF TypeInv, TypeOK, EventInv, BackgroundUnreachable
<1>4. QED
  BY <1>1, <1>2, <1>3, TypeCorrect, PTL DEF Spec

----------------------------------------------------------------------------
(* Hand-over.  A message that waits has one owner, and is neither to come   *)
(* nor executed yet.                                                       *)

\* The callback keeps what it popped only until it starts a thread for it.
CallbackInv ==
  \A t \in Threads : soft[t] # "start" => softMsg[t] = NoPending

NoSecondArrival ==
  /\ todo \cap executed = {}
  /\ \A t \in Threads : pc[t] \in Waiting => msg[t] \notin todo
  /\ \A t \in Threads : softMsg[t].msg \notin todo
  /\ pending.msg \notin todo

OwnerInv == CallbackInv /\ NoSecondArrival /\ NoSecondExecution /\ SingleOwner

LEMMA OwnerInvariant == Spec => []OwnerInv
<1> USE ChatQueryAssumption DEF Slot, NoPending, NoCommand, Waiting, Running, Ending, PCs, SoftPCs
<1>1. Init => OwnerInv
  BY DEF Init, OwnerInv, CallbackInv, NoSecondArrival, NoSecondExecution, SingleOwner
<1>2. TypeInv /\ OwnerInv /\ [Next]_vars => OwnerInv'
  <2> SUFFICES ASSUME TypeInv, OwnerInv, [Next]_vars PROVE OwnerInv'
    OBVIOUS
  <2> USE DEF TypeInv, TypeOK, HasMessage, OwnerInv, CallbackInv, NoSecondArrival,
              NoSecondExecution, SingleOwner
  <2>1. ASSUME NEW m \in Messages, NEW u \in Threads, Receive(m, u) PROVE OwnerInv'
    BY <2>1 DEF Receive, Spawn, Free
  <2>2. ASSUME NEW t \in Threads, ThreadStep(t) PROVE OwnerInv'
    <3>1. CASE Fetch(t) BY <3>1 DEF Fetch, Goto
    <3>2. CASE Acquire(t) BY <3>2 DEF Acquire, Goto
    <3>3. CASE Busy(t) BY <3>3 DEF Busy, Goto
    <3>4. CASE Enqueue(t) BY <3>4 DEF Enqueue, Goto
    <3>5. CASE PatchQueueCard(t) BY <3>5 DEF PatchQueueCard, Return
    <3>6. CASE SendQueueCard(t) BY <3>6 DEF SendQueueCard, Goto
    <3>7. CASE TagPending(t) BY <3>7 DEF TagPending, Return
    <3>8. CASE Begin(t) BY <3>8 DEF Begin, Goto
    <3>9. CASE End(t) BY <3>9 DEF End, Goto
    <3>10. CASE Release(t) BY <3>10 DEF Release, Goto
    <3>11. CASE Settle(t)
      <4>1. CASE SettleReturns(t) BY <4>1 DEF SettleReturns
      <4>2. CASE SettleTakes(t) BY <3>11, <4>2, SettleCases DEF SettleTakes
      <4>3. QED BY <3>11, <4>1, <4>2, SettleCases
    <3>12. ASSUME NEW u \in Threads, Dispatch(t, u) PROVE OwnerInv'
      <4>1. CallbackInv' BY <3>12 DEF Dispatch, Spawn, Free
      <4>2. NoSecondArrival' BY <3>12 DEF Dispatch, Spawn, Free
      <4>3. NoSecondExecution' BY <3>12 DEF Dispatch, Spawn, Free
      <4>4. SingleOwner'
        <5>1. \A v \in Threads : pc'[v] \in Waiting =>
                \/ v = u /\ msg'[v] = msg[t]
                \/ v # u /\ v # t /\ pc[v] \in Waiting /\ msg'[v] = msg[v]
          BY <3>12 DEF Dispatch, Spawn
        <5>2. pc[t] \in Waiting /\ UNCHANGED <<softMsg, pending>>
          BY <3>12 DEF Dispatch
        <5>3. \A v, w \in Threads : pc'[v] \in Waiting /\ pc'[w] \in Waiting /\ msg'[v] = msg'[w] => v = w
          <6>1. \A v, w \in Threads : pc[v] \in Waiting /\ pc[w] \in Waiting /\ msg[v] = msg[w] => v = w
            OBVIOUS
          <6> HIDE DEF OwnerInv, SingleOwner, NoSecondExecution, NoSecondArrival, CallbackInv, TypeInv
          <6>2. SUFFICES ASSUME NEW v \in Threads, NEW w \in Threads,
                                pc'[v] \in Waiting, pc'[w] \in Waiting, msg'[v] = msg'[w], v # w
                         PROVE  FALSE
            OBVIOUS
          <6>3. CASE v = u BY <5>1, <5>2, <6>1, <6>2, <6>3
          <6>4. CASE w = u BY <5>1, <5>2, <6>1, <6>2, <6>4
          <6>5. CASE v # u /\ w # u BY <5>1, <6>1, <6>2, <6>5
          <6>6. QED BY <6>3, <6>4, <6>5
        <5>4. \A v, w \in Threads : softMsg'[v].msg # None /\ softMsg'[v].msg = softMsg'[w].msg => v = w
          BY <5>1, <5>2
        <5>5. \A v, w \in Threads : pc'[v] \in Waiting => msg'[v] # softMsg'[w].msg
          BY <5>1, <5>2
        <5>6. \A v \in Threads : pc'[v] \in Waiting => msg'[v] # pending'.msg
          BY <5>1, <5>2
        <5>7. \A v \in Threads : softMsg'[v].msg = pending'.msg => pending'.msg = None
          BY <5>1, <5>2
        <5>8. QED BY <5>3, <5>4, <5>5, <5>6, <5>7
      <4>5. QED BY <4>1, <4>2, <4>3, <4>4
    <3>13. CASE DispatchFails(t) BY <3>13 DEF DispatchFails, Return
    <3>14. QED
      BY <2>2, <3>1, <3>2, <3>3, <3>4, <3>5, <3>6, <3>7, <3>8, <3>9, <3>10, <3>11, <3>12, <3>13
      DEF ThreadStep
  <2>3. ASSUME NEW t \in Threads, SoftFire(t) \/ CallbackStep(t) PROVE OwnerInv'
    <3>1. CASE SoftFire(t) BY <3>1 DEF SoftFire, SoftGoto
    <3>2. CASE SoftRelease(t) BY <3>2 DEF SoftRelease, SoftGoto
    <3>3. CASE SoftReplace(t) BY <3>3 DEF SoftReplace, SoftGoto
    <3>4. CASE SoftPop(t)
      <4>1. CASE softMsg' = softMsg
        BY <3>4, <4>1, SoftPopCases
      <4>2. CASE softMsg' # softMsg
        <5>1. soft' = [soft EXCEPT ![t] = "start"] /\ pending.msg \in Messages
          BY <3>4, <4>2, SoftPopCases
        <5>2. \A u \in Threads : softMsg'[u] = IF u = t THEN pending ELSE softMsg[u]
          BY <3>4, <4>2, SoftPopCases
        <5>3. softMsg[t] = NoPending /\ UNCHANGED <<pc, msg, todo, executed>> /\ pending' = NoPending
          BY <3>4, SoftPopCases
        <5>4. CallbackInv' BY <5>1, <5>2
        <5>5. NoSecondArrival' BY <5>2, <5>3
        <5>6. NoSecondExecution' BY <5>2, <5>3
        <5>7. SingleOwner'
          <6>1. \A v \in Threads : softMsg'[v].msg = IF v = t THEN pending.msg ELSE softMsg[v].msg
            BY <5>2
          <6>2. softMsg[t].msg = None /\ pending'.msg = None
            BY <5>3
          <6> HIDE DEF TypeInv, TypeOK, HasMessage, CallbackInv, NoSecondArrival, NoSecondExecution,
                       Slot, NoPending
          <6>3. \A v, w \in Threads : pc'[v] \in Waiting /\ pc'[w] \in Waiting /\ msg'[v] = msg'[w] => v = w
            BY <5>1, <5>3, <6>2, <6>1
          <6>4. \A v, w \in Threads : softMsg'[v].msg # None /\ softMsg'[v].msg = softMsg'[w].msg => v = w
            BY <5>1, <5>3, <6>2, <6>1
          <6>5. \A v, w \in Threads : pc'[v] \in Waiting => msg'[v] # softMsg'[w].msg
            BY <5>1, <5>3, <6>2, <6>1
          <6>6. \A v \in Threads : pc'[v] \in Waiting => msg'[v] # pending'.msg
            BY <5>1, <5>3, <6>2, <6>1
          <6>7. \A v \in Threads : softMsg'[v].msg = pending'.msg => pending'.msg = None
            BY <5>1, <5>3, <6>2, <6>1
          <6>8. QED BY <6>3, <6>4, <6>5, <6>6, <6>7
        <5>8. QED BY <5>4, <5>5, <5>6, <5>7
      <4>3. QED BY <4>1, <4>2
    <3>5. ASSUME NEW u \in Threads, SoftStart(t, u) PROVE OwnerInv'
      <4>1. CallbackInv' BY <3>5 DEF SoftStart, Free
      <4>2. NoSecondArrival' BY <3>5 DEF SoftStart, Free
      <4>3. NoSecondExecution' BY <3>5 DEF SoftStart, Free
      <4>4. SingleOwner'
        <5>1. \A v \in Threads : pc'[v] \in Waiting =>
                \/ v = u /\ msg'[v] = softMsg[t].msg
                \/ v # u /\ pc[v] \in Waiting /\ msg'[v] = msg[v]
          BY <3>5 DEF SoftStart
        <5>2. \A v \in Threads : softMsg'[v].msg = IF v = t THEN None ELSE softMsg[v].msg
          BY <3>5 DEF SoftStart
        <5>3. softMsg[t].msg \in Messages /\ pending' = pending
          BY <3>5 DEF SoftStart
        <5>4. \A v \in Threads : pc[v] \in Waiting => msg[v] # None
          OBVIOUS
        <5> HIDE DEF TypeInv, TypeOK, HasMessage, CallbackInv, NoSecondArrival, NoSecondExecution,
                     Slot, NoPending
        <5>5. \A v, w \in Threads : pc'[v] \in Waiting /\ pc'[w] \in Waiting /\ msg'[v] = msg'[w] => v = w
          BY <5>1, <5>2, <5>3
        <5>6. \A v, w \in Threads : softMsg'[v].msg # None /\ softMsg'[v].msg = softMsg'[w].msg => v = w
          BY <5>1, <5>2, <5>3
        <5>7. \A v, w \in Threads : pc'[v] \in Waiting => msg'[v] # softMsg'[w].msg
          BY <5>1, <5>2, <5>3, <5>4
        <5>8. \A v \in Threads : pc'[v] \in Waiting => msg'[v] # pending'.msg
          BY <5>1, <5>2, <5>3
        <5>9. \A v \in Threads : softMsg'[v].msg = pending'.msg => pending'.msg = None
          BY <5>1, <5>2, <5>3
        <5>10. QED BY <5>5, <5>6, <5>7, <5>8, <5>9
      <4>5. QED BY <4>1, <4>2, <4>3, <4>4
    <3>6. CASE SoftStartFails(t) BY <3>6 DEF SoftStartFails, SoftGoto
    <3>7. QED
      BY <2>3, <3>1, <3>2, <3>3, <3>4, <3>5, <3>6 DEF CallbackStep
  <2>4. ASSUME NEW kind \in {"cancel", "probe"}, ProbeLock(kind) PROVE OwnerInv'
    BY <2>4 DEF ProbeLock, locals
  <2>5. CASE CommandStep
    BY <2>5 DEF CommandStep, ProbeRelease, CancelPop, CancelTrigger, locals
  <2>6. CASE CancelButton \/ EvictEvent
    BY <2>6 DEF CancelButton, EvictEvent, Input, locals
  <2>7. ASSUME NEW c \in 1..Len(cards), CancelQueueButton(c) PROVE OwnerInv'
    BY <2>7 DEF CancelQueueButton, locals
  <2>8. CASE UNCHANGED vars
    BY <2>8 DEF vars, locals
  <2>9. QED
    BY <2>1, <2>2, <2>3, <2>4, <2>5, <2>6, <2>7, <2>8 DEF Next, UserStep
<1> QED
  BY <1>1, <1>2, TypeCorrect, PTL DEF Spec

\* No interleaving of the hand-over between a query, the callback of its soft timeout, the
\* slot and the commands executes a message twice, or gives it to two threads.
THEOREM AtMostOnce == Spec => []TakenOnce
<1>1. OwnerInv => TakenOnce
  BY DEF OwnerInv, TakenOnce
<1> QED
  BY <1>1, OwnerInvariant, PTL

----------------------------------------------------------------------------
(* The queue cards.  A card has at most one owner: the thread, the callback *)
(* or the slot that may still change it.                                   *)

CardInv ==
  /\ \A t \in Threads : mid[t] <= Len(cards) /\ softMsg[t].mid <= Len(cards)
  /\ pending.mid <= Len(cards)
  /\ \A t, u \in Threads : mid[t] # 0 /\ mid[t] = mid[u] => t = u
  /\ \A t, u \in Threads : softMsg[t].mid # 0 /\ softMsg[t].mid = softMsg[u].mid => t = u
  /\ \A t, u \in Threads : mid[t] # 0 => mid[t] # softMsg[u].mid
  /\ \A t \in Threads : mid[t] # 0 => mid[t] # pending.mid
  /\ \A t \in Threads : softMsg[t].mid # 0 => softMsg[t].mid # pending.mid

\* The steps after which no card is in other hands, or in none.
LEMMA CardsLeft ==
  ASSUME CardInv, \A t \in Threads : mid'[t] \in {mid[t], 0}, softMsg' = softMsg,
         pending'.mid \in {pending.mid, 0}, Len(cards') = Len(cards), Len(cards) \in Nat
  PROVE  CardInv'
  BY DEF CardInv

\* One hand gives its card to another one, which had none or forgets its own.
LEMMA CardsPassed ==
  ASSUME TypeOK, CardInv, NEW t \in Threads, Len(cards') = Len(cards),
         \/ /\ \A v \in Threads : mid'[v] = IF v = t THEN pending.mid ELSE mid[v]
            /\ softMsg' = softMsg /\ pending'.mid = 0
         \/ /\ \A v \in Threads : mid'[v] = IF v = t THEN 0 ELSE mid[v]
            /\ softMsg' = softMsg /\ pending'.mid = mid[t]
         \/ /\ mid' = mid /\ pending'.mid = 0
            /\ \A v \in Threads : softMsg'[v] = IF v = t THEN pending ELSE softMsg[v]
         \/ \E u \in Threads : /\ \A v \in Threads : mid'[v] = IF v = u THEN softMsg[t].mid ELSE mid[v]
                               /\ \A v \in Threads : softMsg'[v].mid = IF v = t THEN 0 ELSE softMsg[v].mid
                               /\ pending' = pending
         \/ \E u \in Threads \ {t} :
               /\ \A v \in Threads : mid'[v] = IF v = t THEN 0 ELSE IF v = u THEN mid[t] ELSE mid[v]
               /\ softMsg' = softMsg /\ pending' = pending
  PROVE  CardInv'
<1>1. \A v \in Threads : mid[v] \in Nat /\ softMsg[v].mid \in Nat
  BY DEF TypeOK, Slot
<1>2. pending.mid \in Nat /\ Len(cards) \in Nat
  BY DEF TypeOK, Slot
<1>3. CASE /\ \A v \in Threads : mid'[v] = IF v = t THEN pending.mid ELSE mid[v]
           /\ softMsg' = softMsg /\ pending'.mid = 0
  BY <1>1, <1>2, <1>3 DEF CardInv
<1>4. CASE /\ \A v \in Threads : mid'[v] = IF v = t THEN 0 ELSE mid[v]
           /\ softMsg' = softMsg /\ pending'.mid = mid[t]
  BY <1>1, <1>2, <1>4 DEF CardInv
<1>5. CASE /\ mid' = mid /\ pending'.mid = 0
           /\ \A v \in Threads : softMsg'[v] = IF v = t THEN pending ELSE softMsg[v]
  BY <1>1, <1>2, <1>5 DEF CardInv
<1>6. ASSUME NEW u \in Threads, pending' = pending,
             \A v \in Threads : mid'[v] = IF v = u THEN softMsg[t].mid ELSE mid[v],
             \A v \in Threads : softMsg'[v].mid = IF v = t THEN 0 ELSE softMsg[v].mid
      PROVE  CardInv'
  BY <1>1, <1>2, <1>6 DEF CardInv
<1>7. ASSUME NEW u \in Threads \ {t}, softMsg' = softMsg, pending' = pending,
             \A v \in Threads : mid'[v] = IF v = t THEN 0 ELSE IF v = u THEN mid[t] ELSE mid[v]
      PROVE  CardInv'
  BY <1>1, <1>2, <1>7 DEF CardInv
<1> QED
  BY <1>3, <1>4, <1>5, <1>6, <1>7

LEMMA CardStep ==
  ASSUME TypeInv, CardInv, [Next]_vars
  PROVE  CardInv'
<1> USE ChatQueryAssumption DEF TypeInv, TypeOK
<1>0. Len(cards) \in Nat
  OBVIOUS
<1>1. ASSUME NEW m \in Messages, NEW u \in Threads, Receive(m, u) PROVE CardInv'
  BY <1>0, <1>1, CardsLeft DEF Receive, Spawn
<1>2. ASSUME NEW t \in Threads, ThreadStep(t) PROVE CardInv'
  <2>1. CASE Fetch(t) \/ Acquire(t) \/ Busy(t) \/ End(t) \/ Release(t)
    <3>1. UNCHANGED <<mid, softMsg, pending, cards>>
      BY <2>1 DEF Fetch, Acquire, Busy, End, Release, Goto
    <3> QED
      BY <1>0, <3>1, CardsLeft
  <2>2. CASE Enqueue(t)
    <3>1. /\ \A v \in Threads : mid'[v] = IF v = t THEN pending.mid ELSE mid[v]
          /\ softMsg' = softMsg /\ pending'.mid = 0 /\ Len(cards') = Len(cards)
      BY <2>2 DEF Enqueue, Goto
    <3> QED
      BY <3>1, CardsPassed
  <2>3. CASE PatchQueueCard(t) \/ Begin(t)
    <3>1. /\ \A v \in Threads : mid'[v] \in {mid[v], 0}
          /\ softMsg' = softMsg /\ pending' = pending
      BY <2>3 DEF PatchQueueCard, Begin, Return, Goto
    <3>2. Len(cards') = Len(cards)
      <4>1. \A i \in Nat, x \in Messages \cup {None} : Len([cards EXCEPT ![i] = x]) = Len(cards)
        OBVIOUS
      <4> QED
        BY <2>3, <4>1 DEF PatchQueueCard, Begin
    <3> QED
      BY <1>0, <3>1, <3>2, CardsLeft
  <2>4. CASE SendQueueCard(t)
    <3>1. softMsg' = softMsg /\ pending' = pending
      BY <2>4 DEF SendQueueCard, Goto
    <3>2. CASE UNCHANGED <<cards, mid>>
      BY <1>0, <3>1, <3>2, CardsLeft
    <3>3. CASE cards' = Append(cards, msg[t]) /\ mid' = [mid EXCEPT ![t] = Len(cards) + 1]
      <4>1. Len(cards') = Len(cards) + 1
        BY <3>3
      <4>2. \A v \in Threads : mid'[v] = IF v = t THEN Len(cards) + 1 ELSE mid[v]
        BY <3>3
      <4>3. \A v \in Threads : mid[v] \in Nat /\ softMsg[v].mid \in Nat
        BY DEF Slot
      <4>4. pending.mid \in Nat
        BY DEF Slot
      <4> HIDE DEF TypeInv, TypeOK
      <4> QED
        BY <1>0, <3>1, <4>1, <4>2, <4>3, <4>4 DEF CardInv
    <3> QED
      BY <2>4, <3>2, <3>3 DEF SendQueueCard
  <2>5. CASE TagPending(t)
    <3>1. /\ \A v \in Threads : mid'[v] = IF v = t THEN 0 ELSE mid[v]
          /\ softMsg' = softMsg /\ cards' = cards
      BY <2>5 DEF TagPending, Return
    <3>2. CASE pending.msg = None
      <4>1. pending' = pending
        BY <2>5, <3>2 DEF TagPending
      <4> QED
        BY <1>0, <3>1, <4>1, CardsLeft
    <3>3. CASE pending.msg # None
      <4>1. pending'.mid = mid[t]
        BY <2>5, <3>3 DEF TagPending, Slot
      <4> QED
        BY <3>1, <4>1, CardsPassed
    <3> QED
      BY <3>2, <3>3
  <2>6. CASE Settle(t)
    <3>1. CASE SettleReturns(t)
      BY <1>0, <3>1, CardsLeft DEF SettleReturns
    <3>2. CASE SettleTakes(t)
      <4>1. /\ \A v \in Threads : mid'[v] = IF v = t THEN pending.mid ELSE mid[v]
            /\ softMsg' = softMsg /\ pending'.mid = 0 /\ Len(cards') = Len(cards)
        BY <3>2 DEF SettleTakes, NoPending
      <4> QED
        BY <4>1, CardsPassed
    <3> QED
      BY <2>6, <3>1, <3>2, SettleCases
  <2>7. ASSUME NEW u \in Threads, Dispatch(t, u) PROVE CardInv'
    <3>1. /\ u # t /\ softMsg' = softMsg /\ pending' = pending /\ cards' = cards
          /\ \A v \in Threads : mid'[v] = IF v = t THEN 0 ELSE IF v = u THEN mid[t] ELSE mid[v]
      BY <2>7 DEF Dispatch, Spawn
    <3> QED
      BY <3>1, CardsPassed
  <2>8. CASE DispatchFails(t)
    BY <1>0, <2>8, CardsLeft DEF DispatchFails, Return
  <2> QED
    BY <1>2, <2>1, <2>2, <2>3, <2>4, <2>5, <2>6, <2>7, <2>8 DEF ThreadStep
<1>3. ASSUME NEW t \in Threads, SoftFire(t) \/ CallbackStep(t) PROVE CardInv'
  <2>1. CASE SoftFire(t) \/ SoftRelease(t) \/ SoftReplace(t)
    <3>1. UNCHANGED <<mid, softMsg, pending, cards>>
      BY <2>1 DEF SoftFire, SoftRelease, SoftReplace, SoftGoto
    <3> QED
      BY <1>0, <3>1, CardsLeft
  <2>2. CASE SoftPop(t)
    <3>1. UNCHANGED <<mid, cards>> /\ pending'.mid = 0
      BY <2>2, SoftPopCases DEF NoPending
    <3>2. CASE softMsg' = softMsg
      BY <1>0, <3>1, <3>2, CardsLeft
    <3>3. CASE softMsg' = [softMsg EXCEPT ![t] = pending]
      <4>1. \A v \in Threads : softMsg'[v] = IF v = t THEN pending ELSE softMsg[v]
        BY <3>3
      <4> QED
        BY <3>1, <4>1, CardsPassed
    <3> QED
      BY <2>2, <3>2, <3>3, SoftPopCases
  <2>3. ASSUME NEW u \in Threads, SoftStart(t, u) PROVE CardInv'
    <3>1. /\ \A v \in Threads : mid'[v] = IF v = u THEN softMsg[t].mid ELSE mid[v]
          /\ pending' = pending /\ Len(cards') = Len(cards)
      BY <2>3 DEF SoftStart
    <3>2. \A v \in Threads : softMsg'[v].mid = IF v = t THEN 0 ELSE softMsg[v].mid
      BY <2>3 DEF SoftStart, NoPending
    <3> QED
      BY <3>1, <3>2, CardsPassed
  <2>4. CASE SoftStartFails(t)
    <3>1. mid' = mid /\ cards' = cards /\ pending'.mid = 0
          /\ \A v \in Threads : softMsg'[v] = IF v = t THEN NoPending ELSE softMsg[v]
      BY <2>4 DEF SoftStartFails, SoftGoto
    <3> HIDE DEF TypeInv, TypeOK
    <3> QED
      BY <1>0, <3>1 DEF CardInv, NoPending
  <2> QED
    BY <1>3, <2>1, <2>2, <2>3, <2>4 DEF CallbackStep
<1>4. CASE \/ CommandStep \/ CancelButton \/ EvictEvent \/ UNCHANGED vars
           \/ \E kind \in {"cancel", "probe"} : ProbeLock(kind)
  <2>1. UNCHANGED <<mid, softMsg, cards>> /\ pending'.mid \in {pending.mid, 0}
    BY <1>4 DEF CommandStep, ProbeRelease, CancelPop, CancelTrigger, CancelButton, EvictEvent,
                ProbeLock, locals, vars, NoPending
  <2> QED
    BY <1>0, <2>1, CardsLeft
<1>5. ASSUME NEW c \in 1..Len(cards), CancelQueueButton(c) PROVE CardInv'
  <2>1. UNCHANGED <<mid, softMsg>> /\ pending'.mid = 0 /\ Len(cards') = Len(cards)
    BY <1>5 DEF CancelQueueButton, locals, NoPending
  <2> QED
    BY <1>0, <2>1, CardsLeft
<1> QED
  BY <1>1, <1>2, <1>3, <1>4, <1>5 DEF Next, UserStep

LEMMA CardInvariant == Spec => []CardInv
<1>1. Init => CardInv
  BY DEF Init, CardInv, NoPending
<1>2. TypeInv /\ CardInv /\ [Next]_vars => CardInv'
  BY CardStep
<1> QED
  BY <1>1, <1>2, TypeCorrect, PTL DEF Spec

\* Card c shows the message and nobody who may still change the card has another one for it: the
\* thread that has sent it is about to say so to the slot.
ShownBy(c, m) ==
  /\ c \in DOMAIN cards /\ cards[c] = m
  /\ \A t \in Threads : (mid[t] = c => pc[t] = "tag") /\ softMsg[t].mid # c

\* The message in the slot is shown, or its thread is about to show it.
VisibleInv ==
  pending.msg # None =>
    \/ \E u \in Threads : pc[u] = "card" /\ msg[u] = pending.msg
    \/ \E c \in DOMAIN cards : ShownBy(c, pending.msg)

LEMMA ShownStays ==
  ASSUME NEW c, NEW m, ShownBy(c, m), UNCHANGED cards,
         \A t \in Threads : mid'[t] = c => mid[t] = c /\ pc'[t] = pc[t],
         \A t \in Threads : softMsg'[t].mid = c => softMsg[t].mid = c
  PROVE  ShownBy(c, m)'
  BY DEF ShownBy

\* The steps that neither show nor hide a card and leave alone the slot and those who queue.
LEMMA VisibleStays ==
  ASSUME TypeInv, VisibleInv, UNCHANGED <<pending, cards>>,
         \A t \in Threads : pc[t] = "card" => pc'[t] = "card" /\ msg'[t] = msg[t],
         \A t \in Threads : mid'[t] # 0 => mid'[t] = mid[t] /\ (pc[t] = "tag" => pc'[t] = "tag"),
         \A t \in Threads : softMsg'[t].mid # 0 => softMsg'[t].mid = softMsg[t].mid
  PROVE  VisibleInv'
<1>1. \A c \in DOMAIN cards : c # 0
  BY DEF TypeInv, TypeOK
<1> QED
  BY <1>1 DEF VisibleInv, ShownBy

\* The thread patches a card of its own, or a new one.
LEMMA PatchVisible ==
  ASSUME TypeInv, CardInv, VisibleInv, NEW t \in Threads, "card" \notin Hazards, PatchQueueCard(t)
  PROVE  VisibleInv'
<1> DEFINE d == mid[t]
<1>1. /\ pc[t] = "card" /\ d # 0 /\ d \in DOMAIN cards
      /\ cards' = [cards EXCEPT ![d] = msg[t]]
      /\ UNCHANGED <<pending, softMsg>>
      /\ \A v \in Threads : mid'[v] = IF v = t THEN 0 ELSE mid[v]
      /\ \A v \in Threads : pc'[v] = IF v = t THEN "idle" ELSE pc[v]
      /\ \A v \in Threads \ {t} : msg'[v] = msg[v]
  BY DEF PatchQueueCard, Return, TypeInv, TypeOK, CardInv
<1>2. DOMAIN cards' = DOMAIN cards /\ \A c \in DOMAIN cards : cards'[c] = IF c = d THEN msg[t] ELSE cards[c]
  BY <1>1
<1>3. \A v \in Threads : mid'[v] # d /\ softMsg'[v].mid # d
  BY <1>1 DEF CardInv
<1>4. CASE pending.msg = msg[t]
  BY <1>1, <1>2, <1>3, <1>4 DEF VisibleInv, ShownBy
<1>5. ASSUME NEW u \in Threads, pc[u] = "card", msg[u] = pending.msg, u # t
      PROVE  VisibleInv'
  BY <1>1, <1>5 DEF VisibleInv
<1>6. ASSUME NEW c \in DOMAIN cards, ShownBy(c, pending.msg)
      PROVE  VisibleInv'
  <2>1. c # d /\ c # 0
    BY <1>1, <1>6 DEF ShownBy, TypeInv, TypeOK
  <2>2. ShownBy(c, pending.msg)'
    BY <1>1, <1>2, <1>6, <2>1 DEF ShownBy
  <2> QED
    BY <1>2, <1>6, <2>2 DEF VisibleInv
<1> QED
  BY <1>1, <1>4, <1>5, <1>6 DEF VisibleInv

LEMMA SendVisible ==
  ASSUME TypeInv, CardInv, VisibleInv, NEW t \in Threads, "card" \notin Hazards, SendQueueCard(t)
  PROVE  VisibleInv'
<1> DEFINE d == Len(cards) + 1
<1>1. /\ pc[t] = "card" /\ cards' = Append(cards, msg[t])
      /\ UNCHANGED <<pending, softMsg, msg>>
      /\ \A v \in Threads : mid'[v] = IF v = t THEN d ELSE mid[v]
      /\ \A v \in Threads : pc'[v] = IF v = t THEN "tag" ELSE pc[v]
  BY DEF SendQueueCard, Goto, TypeInv, TypeOK
<1>2. /\ DOMAIN cards' = 1..d /\ DOMAIN cards = 1..Len(cards) /\ Len(cards) \in Nat
      /\ \A c \in DOMAIN cards' : cards'[c] = IF c = d THEN msg[t] ELSE cards[c]
  BY <1>1 DEF TypeInv, TypeOK
<1>3. \A v \in Threads : mid[v] \in Nat /\ softMsg[v].mid \in Nat
  BY DEF TypeInv, TypeOK, Slot
<1>4. \A v \in Threads : mid[v] # d /\ softMsg[v].mid # d
  BY <1>2, <1>3 DEF CardInv
<1>5. CASE pending.msg = msg[t]
  <2>1. d \in DOMAIN cards' /\ cards'[d] = pending'.msg
    BY <1>1, <1>2, <1>5
  <2>2. \A v \in Threads : (mid'[v] = d => pc'[v] = "tag") /\ softMsg'[v].mid # d
    BY <1>1, <1>4
  <2> HIDE DEF d
  <2> QED
    BY <2>1, <2>2 DEF VisibleInv, ShownBy
<1>6. ASSUME NEW u \in Threads, pc[u] = "card", msg[u] = pending.msg, u # t
      PROVE  VisibleInv'
  BY <1>1, <1>6 DEF VisibleInv
<1>7. ASSUME NEW c \in DOMAIN cards, ShownBy(c, pending.msg)
      PROVE  VisibleInv'
  <2>1. c # d /\ c \in DOMAIN cards'
    BY <1>2, <1>7
  <2>2. ShownBy(c, pending.msg)'
    BY <1>1, <1>2, <1>7, <2>1 DEF ShownBy
  <2> QED
    BY <2>1, <2>2 DEF VisibleInv
<1> QED
  BY <1>1, <1>5, <1>6, <1>7 DEF VisibleInv

LEMMA BeginVisible ==
  ASSUME TypeInv, CardInv, VisibleInv, NEW t \in Threads, Begin(t)
  PROVE  VisibleInv'
<1>1. /\ pc[t] = "begin" /\ UNCHANGED <<pending, softMsg, msg, mid>>
      /\ \A v \in Threads : pc'[v] = IF v = t THEN "run" ELSE pc[v]
  BY DEF Begin, Goto, TypeInv, TypeOK
<1>2. DOMAIN cards' = DOMAIN cards /\ \A c \in DOMAIN cards : c # mid[t] => cards'[c] = cards[c]
  BY DEF Begin, TypeInv, TypeOK
<1>3. ASSUME NEW u \in Threads, pc[u] = "card", msg[u] = pending.msg
      PROVE  VisibleInv'
  BY <1>1, <1>3 DEF VisibleInv
<1>4. ASSUME NEW c \in DOMAIN cards, ShownBy(c, pending.msg)
      PROVE  VisibleInv'
  <2>1. c # mid[t]
    BY <1>1, <1>4 DEF ShownBy
  <2>2. ShownBy(c, pending.msg)'
    BY <1>1, <1>2, <1>4, <2>1 DEF ShownBy
  <2> QED
    BY <1>2, <2>2 DEF VisibleInv
<1> QED
  BY <1>1, <1>3, <1>4 DEF VisibleInv

\* A hand-over starts a thread with a card that shows nothing of the slot.
LEMMA HandOverVisible ==
  ASSUME TypeInv, CardInv, VisibleInv, NEW t \in Threads, NEW u \in Threads,
         Dispatch(t, u) \/ SoftStart(t, u)
  PROVE  VisibleInv'
<1>1. CASE Dispatch(t, u)
  <2>1. /\ pc[t] = "dispatch" /\ pc[u] = "idle" /\ UNCHANGED <<pending, softMsg, cards>>
        /\ \A v \in Threads : mid'[v] = IF v = u THEN mid[t] ELSE IF v = t THEN 0 ELSE mid[v]
        /\ \A v \in Threads \ {t, u} : pc'[v] = pc[v] /\ msg'[v] = msg[v]
    BY <1>1 DEF Dispatch, Spawn, Free, TypeInv, TypeOK
  <2>2. ASSUME NEW c \in DOMAIN cards, ShownBy(c, pending.msg)
        PROVE  VisibleInv'
    <3>1. c # mid[t] /\ c # 0
      BY <2>1, <2>2 DEF ShownBy, TypeInv, TypeOK
    <3>2. ShownBy(c, pending.msg)'
      BY <2>1, <2>2, <3>1 DEF ShownBy
    <3> QED
      BY <2>1, <3>2 DEF VisibleInv
  <2>3. ASSUME NEW v \in Threads, pc[v] = "card", msg[v] = pending.msg
        PROVE  VisibleInv'
    BY <2>1, <2>3 DEF VisibleInv
  <2> QED
    BY <2>1, <2>2, <2>3 DEF VisibleInv
<1>2. CASE SoftStart(t, u)
  <2>1. /\ pc[u] = "idle" /\ UNCHANGED <<pending, cards>>
        /\ \A v \in Threads : mid'[v] = IF v = u THEN softMsg[t].mid ELSE mid[v]
        /\ \A v \in Threads : softMsg'[v].mid = IF v = t THEN 0 ELSE softMsg[v].mid
        /\ \A v \in Threads \ {u} : pc'[v] = pc[v] /\ msg'[v] = msg[v]
    BY <1>2 DEF SoftStart, Free, TypeInv, TypeOK, NoPending
  <2>2. ASSUME NEW c \in DOMAIN cards, ShownBy(c, pending.msg)
        PROVE  VisibleInv'
    <3>1. c # softMsg[t].mid /\ c # 0
      BY <2>2 DEF ShownBy, TypeInv, TypeOK
    <3>2. ShownBy(c, pending.msg)'
      BY <2>1, <2>2, <3>1 DEF ShownBy
    <3> QED
      BY <2>1, <3>2 DEF VisibleInv
  <2>3. ASSUME NEW v \in Threads, pc[v] = "card", msg[v] = pending.msg
        PROVE  VisibleInv'
    BY <2>1, <2>3 DEF VisibleInv
  <2> QED
    BY <2>1, <2>2, <2>3 DEF VisibleInv
<1> QED
  BY <1>1, <1>2

\* Without soft timeouts no callback ever has a message to give back.
SoftInv == "soft" \notin Hazards => \A t \in Threads : soft[t] \in {"armed", "done"}

LEMMA SoftStep ==
  ASSUME TypeInv, SoftInv, [Next]_vars
  PROVE  SoftInv'
<1> USE DEF TypeInv, TypeOK, SoftInv
<1>1. ASSUME NEW m \in Messages, NEW u \in Threads, Receive(m, u) PROVE SoftInv'
  BY <1>1 DEF Receive, Spawn
<1>2. ASSUME NEW t \in Threads, ThreadStep(t) PROVE SoftInv'
  <2>1. CASE soft' = soft
    BY <2>1
  <2>2. ASSUME NEW u \in Threads, Dispatch(t, u) PROVE SoftInv'
    BY <2>2 DEF Dispatch, Spawn
  <2>3. CASE Settle(t)
    BY <2>1, <2>3, SettleCases DEF SettleReturns, SettleTakes
  <2> QED
    BY <1>2, <2>1, <2>2, <2>3
    DEF ThreadStep, Fetch, Acquire, Busy, Enqueue, PatchQueueCard, SendQueueCard, TagPending, Begin,
        End, Release, DispatchFails, Goto, Return
<1>3. ASSUME NEW t \in Threads, SoftFire(t) \/ CallbackStep(t) PROVE SoftInv'
  BY <1>3 DEF SoftFire, CallbackStep, SoftRelease, SoftReplace, SoftPop, SoftStart, SoftStartFails
<1>4. CASE CommandStep \/ UserStep \/ UNCHANGED vars
  <2>1. CASE soft' = soft
    BY <2>1
  <2> QED
    BY <1>1, <1>4, <2>1
    DEF CommandStep, ProbeRelease, CancelPop, CancelTrigger, UserStep, ProbeLock, CancelButton,
        EvictEvent, CancelQueueButton, locals, vars
<1> QED
  BY <1>1, <1>2, <1>3, <1>4 DEF Next

LEMMA VisibleStep ==
  ASSUME "card" \notin Hazards, ~({"soft", "thread"} \subseteq Hazards),
         TypeInv, CardInv, SoftInv, VisibleInv, [Next]_vars
  PROVE  VisibleInv'
<1>1. ASSUME NEW m \in Messages, NEW u \in Threads, Receive(m, u) PROVE VisibleInv'
  <2>1. /\ UNCHANGED <<pending, cards, softMsg>> /\ pc[u] = "idle"
        /\ \A v \in Threads : mid'[v] = IF v = u THEN 0 ELSE mid[v]
        /\ \A v \in Threads \ {u} : pc'[v] = pc[v] /\ msg'[v] = msg[v]
    BY <1>1 DEF Receive, Spawn, Free, TypeInv, TypeOK
  <2> QED
    BY <2>1, VisibleStays
<1>2. ASSUME NEW t \in Threads, ThreadStep(t) PROVE VisibleInv'
  <2>1. CASE Fetch(t) \/ Acquire(t) \/ Busy(t) \/ End(t) \/ Release(t)
    <3>1. UNCHANGED <<msg, mid, softMsg, pending, cards>>
      BY <2>1 DEF Fetch, Acquire, Busy, End, Release, Goto
    <3>2. \A v \in Threads : pc[v] \in {"card", "tag"} => pc'[v] = pc[v]
      BY <2>1 DEF Fetch, Acquire, Busy, End, Release, Goto, TypeInv, TypeOK
    <3> QED
      BY <3>1, <3>2, VisibleStays
  <2>2. CASE Enqueue(t)
    <3>1. pc'[t] = "card" /\ msg' = msg /\ pending'.msg = msg[t]
      BY <2>2 DEF Enqueue, Goto, TypeInv, TypeOK
    <3> QED
      BY <3>1 DEF VisibleInv
  <2>3. CASE TagPending(t)
    <3>1. /\ pc[t] = "tag" /\ UNCHANGED <<cards, softMsg>> /\ pending'.msg = pending.msg
          /\ \A v \in Threads : mid'[v] = IF v = t THEN 0 ELSE mid[v]
          /\ \A v \in Threads \ {t} : pc'[v] = pc[v] /\ msg'[v] = msg[v]
      BY <2>3 DEF TagPending, Return, TypeInv, TypeOK, Slot
    <3>2. \A c \in DOMAIN cards : c # 0
      BY DEF TypeInv, TypeOK
    <3> QED
      BY <3>1, <3>2 DEF VisibleInv, ShownBy
  <2>4. CASE Settle(t)
    <3>1. CASE SettleReturns(t)
      <4>1. /\ pc[t] = "settle" /\ UNCHANGED <<pending, cards, softMsg>>
            /\ \A v \in Threads : mid'[v] = IF v = t THEN 0 ELSE mid[v]
            /\ \A v \in Threads \ {t} : pc'[v] = pc[v] /\ msg'[v] = msg[v]
        BY <2>4, <3>1, SettleCases DEF SettleReturns, TypeInv, TypeOK
      <4> QED
        BY <4>1, VisibleStays
    <3>2. CASE SettleTakes(t)
      BY <3>2 DEF SettleTakes, NoPending, VisibleInv
    <3> QED
      BY <2>4, <3>1, <3>2, SettleCases
  <2>5. CASE DispatchFails(t)
    <3>1. /\ pc[t] = "dispatch" /\ UNCHANGED <<pending, cards, softMsg>>
          /\ \A v \in Threads : mid'[v] = IF v = t THEN 0 ELSE mid[v]
          /\ \A v \in Threads \ {t} : pc'[v] = pc[v] /\ msg'[v] = msg[v]
      BY <2>5 DEF DispatchFails, Return, TypeInv, TypeOK
    <3> QED
      BY <3>1, VisibleStays
  <2> QED
    BY <1>2, <2>1, <2>2, <2>3, <2>4, <2>5, PatchVisible, SendVisible, BeginVisible, HandOverVisible
    DEF ThreadStep
<1>3. ASSUME NEW t \in Threads, SoftFire(t) \/ CallbackStep(t) PROVE VisibleInv'
  <2>1. CASE SoftFire(t) \/ SoftRelease(t) \/ SoftReplace(t)
    <3>1. UNCHANGED <<pc, msg, mid, softMsg, pending, cards>>
      BY <2>1 DEF SoftFire, SoftRelease, SoftReplace, SoftGoto
    <3> QED
      BY <3>1, VisibleStays
  <2>2. CASE SoftPop(t)
    BY <2>2, SoftPopCases DEF VisibleInv, NoPending
  <2>3. ~SoftStartFails(t)
    BY DEF SoftStartFails, SoftInv
  <2> QED
    BY <1>3, <2>1, <2>2, <2>3, HandOverVisible DEF CallbackStep
<1>4. CASE \/ ProbeRelease \/ CancelTrigger \/ CancelButton \/ EvictEvent \/ UNCHANGED vars
           \/ \E kind \in {"cancel", "probe"} : ProbeLock(kind)
  <2>1. UNCHANGED <<pc, msg, mid, softMsg, pending, cards>>
    BY <1>4 DEF ProbeRelease, CancelTrigger, CancelButton, EvictEvent, ProbeLock, locals, vars
  <2> QED
    BY <2>1, VisibleStays
<1>5. ASSUME CancelPop \/ \E c \in 1..Len(cards) : CancelQueueButton(c) PROVE VisibleInv'
  BY <1>5 DEF CancelPop, CancelQueueButton, VisibleInv, NoPending
<1> QED
  BY <1>1, <1>2, <1>3, <1>4, <1>5 DEF Next, UserStep, CommandStep

\* A message in the slot is on a card where it can be cancelled, for any number of threads and
\* messages and whatever replaces what, as long as Feishu shows the cards that are sent and no
\* callback has to give back a message that it could not start a thread for: that one goes back to
\* the slot without its card.
THEOREM VisibleSafe ==
  ASSUME "card" \notin Hazards, ~({"soft", "thread"} \subseteq Hazards)
  PROVE  Spec => []QueuedIsVisible
<1>1. Init => SoftInv /\ VisibleInv
  BY DEF Init, SoftInv, VisibleInv, NoPending
<1>2. TypeInv /\ CardInv /\ SoftInv /\ VisibleInv /\ [Next]_vars => (SoftInv /\ VisibleInv)'
  BY SoftStep, VisibleStep
<1>3. VisibleInv => QueuedIsVisible
  BY DEF VisibleInv, QueuedIsVisible, ShownBy
<1> QED
  BY <1>1, <1>2, <1>3, TypeCorrect, CardInvariant, PTL DEF Spec

----------------------------------------------------------------------------
(* The chat as its user sees it.                                            *)

\* What StatusOf asks of a message.
Worked(m) == \E t \in Threads : pc[t] \in Running /\ msg[t] = m
Held(m)   == (\E t \in Threads : pc[t] \in Waiting /\ msg[t] = m) \/ pending.msg = m

\* A message that is worked on has been taken from those that wait.
WorkInv == \A t \in Threads : pc[t] \in Running => msg[t] \in executed

\* What the steps know of the messages where no query passes a soft timeout.
ServiceInv == TypeInv /\ LockInv /\ OwnerInv /\ WorkInv

LEMMA NothingPopped ==
  ASSUME ServiceInv, NEW t \in Threads
  PROVE  softMsg[t].msg = None
<1>1. soft[t] = "armed"
  BY DEF ServiceInv, LockInv
<1>2. softMsg[t] = NoPending
  BY <1>1 DEF ServiceInv, OwnerInv, CallbackInv
<1> QED
  BY <1>2 DEF NoPending

LEMMA StatusIs ==
  ASSUME ServiceInv, NEW m \in Messages
  PROVE  StatusOf(m) = IF m \in todo THEN "new"
                       ELSE IF Worked(m) THEN "running"
                       ELSE IF m \in executed THEN "done"
                       ELSE IF Held(m) THEN "waiting" ELSE "dropped"
<1>1. \A t \in Threads : softMsg[t].msg # m
  BY NothingPopped, ChatQueryAssumption
<1>2. m \in Owned <=> Held(m)
  BY <1>1 DEF Owned, Held
<1> QED
  BY <1>2 DEF StatusOf, Worked

\* The same of the next state.
LEMMA StatusWillBe ==
  ASSUME ServiceInv', NEW m \in Messages
  PROVE  StatusOf(m)' = IF m \in todo' THEN "new"
                        ELSE IF Worked(m)' THEN "running"
                        ELSE IF m \in executed' THEN "done"
                        ELSE IF Held(m)' THEN "waiting" ELSE "dropped"
<1>1. ASSUME NEW t \in Threads PROVE softMsg'[t].msg = None
  <2>1. soft'[t] = "armed"
    BY DEF ServiceInv, LockInv
  <2>2. softMsg'[t] = NoPending
    BY <2>1 DEF ServiceInv, OwnerInv, CallbackInv, NoPending
  <2> QED
    BY <2>2 DEF NoPending
<1>2. \A t \in Threads : softMsg'[t].msg # m
  BY <1>1, ChatQueryAssumption
<1>3. m \in Owned' <=> Held(m)'
  BY <1>2 DEF Owned, Held
<1> QED
  BY <1>3 DEF StatusOf, Worked

\* The same message in another state.
Alike(m) ==
  /\ m \in todo' <=> m \in todo
  /\ m \in executed' <=> m \in executed
  /\ Worked(m)' <=> Worked(m)
  /\ Held(m)' <=> Held(m)

LEMMA StatusStays ==
  ASSUME ServiceInv, ServiceInv', NEW m \in Messages, Alike(m)
  PROVE  StatusOf(m)' = StatusOf(m)
  BY StatusIs, StatusWillBe DEF Alike

View == [m \in Messages |-> StatusOf(m)]

LEMMA ViewStays ==
  ASSUME ServiceInv, ServiceInv', \A m \in Messages : Alike(m)
  PROVE  View' = View
  BY StatusStays DEF View

\* One message moves.
LEMMA ViewMoves ==
  ASSUME ServiceInv, ServiceInv', NEW m \in Messages, NEW from, NEW to,
         \A n \in Messages \ {m} : Alike(n),
         StatusOf(m) = from, StatusOf(m)' = to
  PROVE  Service!Move(m, from, to)
<1>1. \A n \in Messages \ {m} : StatusOf(n)' = StatusOf(n)
  BY StatusStays
<1> QED
  BY <1>1 DEF Service!Move

\* Where nobody waits or works any more, or begins to, nothing changes for the user.
LEMMA ThreadsAlike ==
  ASSUME UNCHANGED <<todo, executed>>, pending'.msg = pending.msg,
         \A t \in Threads : /\ pc'[t] \in Waiting <=> pc[t] \in Waiting
                            /\ pc'[t] \in Running <=> pc[t] \in Running
                            /\ pc[t] \in Waiting \cup Running => msg'[t] = msg[t]
  PROVE  \A m \in Messages : Alike(m)
  BY DEF Alike, Worked, Held

\* A message that waits, is given up and has no other place.
LEMMA MessageDropped ==
  ASSUME ServiceInv, ServiceInv', NEW m \in Messages, Held(m), ~Held(m)',
         UNCHANGED <<todo, executed>>, \A n \in Messages : Worked(n)' <=> Worked(n),
         \A n \in Messages \ {m} : Held(n)' <=> Held(n)
  PROVE  Service!Drop(m)
<1>1. m \notin todo /\ m \notin executed /\ ~Worked(m)
  BY DEF ServiceInv, OwnerInv, NoSecondArrival, NoSecondExecution, Held, Worked, WorkInv
<1>2. StatusOf(m) = "waiting"
  BY <1>1, StatusIs
<1>3. StatusOf(m)' = "dropped"
  BY <1>1, StatusWillBe
<1>4. \A n \in Messages \ {m} : Alike(n)
  BY DEF Alike
<1> QED
  BY <1>2, <1>3, <1>4, ViewMoves DEF Service!Drop

\* The slot is emptied, or given another message by a thread that waited with it.
LEMMA SlotDropped ==
  ASSUME ServiceInv, ServiceInv', UNCHANGED <<todo, executed>>,
         pending'.msg = None,
         \A t \in Threads : pc'[t] = pc[t] /\ msg'[t] = msg[t]
  PROVE  (\E m \in Messages : Service!Drop(m)) \/ View' = View
<1>1. CASE pending.msg = None
  BY <1>1, ThreadsAlike, ViewStays
<1>2. ASSUME NEW m \in Messages, m = pending.msg
      PROVE  Service!Drop(m)
  <2>1. \A t \in Threads : pc[t] \in Waiting => msg[t] # m
    BY <1>2 DEF ServiceInv, OwnerInv, SingleOwner
  <2>2. Held(m) /\ ~Held(m)'
    BY <1>2, <2>1, ChatQueryAssumption DEF Held
  <2>3. \A n \in Messages \ {m} : Held(n)' <=> Held(n)
    BY <1>2, ChatQueryAssumption DEF Held
  <2>4. \A n \in Messages : Worked(n)' <=> Worked(n)
    BY DEF Worked
  <2> QED
    BY <2>2, <2>3, <2>4, MessageDropped
<1>3. pending.msg \in Messages \cup {None}
  BY DEF ServiceInv, TypeInv, TypeOK, Slot
<1> QED
  BY <1>1, <1>2, <1>3

LEMMA ReceiveServed ==
  ASSUME ServiceInv, ServiceInv', NEW m \in Messages, NEW u \in Threads, Receive(m, u)
  PROVE  Service!Arrive(m)
<1>1. /\ m \in todo /\ todo' = todo \ {m} /\ UNCHANGED <<executed, pending>>
      /\ pc[u] = "idle"
      /\ \A t \in Threads : pc'[t] = IF t = u THEN "fetch" ELSE pc[t]
      /\ \A t \in Threads : msg'[t] = IF t = u THEN m ELSE msg[t]
  BY DEF Receive, Spawn, Free, ServiceInv, TypeInv, TypeOK
<1>2. \A n \in Messages : Worked(n)' <=> Worked(n)
  BY <1>1 DEF Worked, Running
<1>3. \A n \in Messages \ {m} : Held(n)' <=> Held(n)
  BY <1>1 DEF Held, Waiting
<1>4. Held(m)'
  BY <1>1 DEF Held, Waiting
<1>5. m \notin executed /\ ~Worked(m)
  BY <1>1 DEF ServiceInv, OwnerInv, NoSecondArrival, WorkInv, Worked
<1>6. StatusOf(m) = "new"
  BY <1>1, StatusIs
<1>7. StatusOf(m)' = "waiting"
  BY <1>1, <1>2, <1>4, <1>5, StatusWillBe
<1>8. \A n \in Messages \ {m} : Alike(n)
  BY <1>1, <1>2, <1>3 DEF Alike
<1> QED
  BY <1>6, <1>7, <1>8, ViewMoves DEF Service!Arrive

LEMMA AcquireServed ==
  ASSUME ServiceInv, ServiceInv', NEW t \in Threads, Acquire(t)
  PROVE  \E m \in Messages : Service!Start(m)
<1>1. msg[t] \in Messages
  BY DEF Acquire, ServiceInv, TypeInv, HasMessage, Waiting
<1>2. PICK m \in Messages : m = msg[t]
  BY <1>1
<1>3. /\ pc[t] = "acquire" /\ holder = None /\ executed' = executed \cup {m}
      /\ UNCHANGED <<todo, pending, msg>>
      /\ \A v \in Threads : pc'[v] = IF v = t THEN "begin" ELSE pc[v]
  BY <1>2 DEF Acquire, Goto, ServiceInv, TypeInv, TypeOK
<1>4. \A v \in Threads : pc[v] \notin Running
  BY <1>3, ChatQueryAssumption DEF ServiceInv, LockInv
<1>5. Held(m) /\ m \notin todo /\ m \notin executed
  BY <1>2, <1>3 DEF Held, Waiting, ServiceInv, OwnerInv, NoSecondArrival, NoSecondExecution
<1>6. \A n \in Messages : ~Worked(n) /\ (Worked(n)' <=> n = m)
  BY <1>2, <1>3, <1>4 DEF Worked, Running
<1>7. \A n \in Messages \ {m} : Held(n)' <=> Held(n)
  BY <1>2, <1>3 DEF Held, Waiting
<1>8. StatusOf(m) = "waiting"
  BY <1>5, <1>6, StatusIs
<1>9. StatusOf(m)' = "running"
  BY <1>3, <1>5, <1>6, StatusWillBe
<1>10. \A n \in Messages \ {m} : Alike(n)
  BY <1>3, <1>6, <1>7 DEF Alike
<1>11. \A n \in Messages : StatusOf(n) # "running"
  BY <1>6, StatusIs
<1>12. Service!Move(m, "waiting", "running")
  BY <1>8, <1>9, <1>10, ViewMoves
<1>13. Service!Start(m)
  BY <1>11, <1>12 DEF Service!Start
<1> QED
  BY <1>13

LEMMA EndServed ==
  ASSUME ServiceInv, ServiceInv', NEW t \in Threads, End(t)
  PROVE  (\E m \in Messages : Service!Finish(m)) \/ View' = View
<1>1. /\ pc[t] = "run" /\ UNCHANGED <<todo, executed, pending, msg>>
      /\ \A v \in Threads : pc'[v] = IF v = t THEN "release" ELSE pc[v]
  BY DEF End, Goto, ServiceInv, TypeInv, TypeOK
<1>2. msg[t] \in executed
  BY <1>1 DEF ServiceInv, WorkInv, Running
<1>3. PICK m \in Messages : m = msg[t]
  BY <1>2 DEF ServiceInv, TypeInv, TypeOK
<1>4. \A v \in Threads : pc[v] \in Running => v = t
  BY <1>1 DEF ServiceInv, LockInv, Running
<1>5. \A n \in Messages : (Worked(n) <=> n = m) /\ ~Worked(n)'
  BY <1>1, <1>3, <1>4 DEF Worked, Running
<1>6. \A n \in Messages : Held(n)' <=> Held(n)
  BY <1>1 DEF Held, Waiting
<1>7. m \notin todo /\ m \in executed
  BY <1>2, <1>3 DEF ServiceInv, OwnerInv, NoSecondArrival
<1>8. StatusOf(m) = "running"
  BY <1>5, <1>7, StatusIs
<1>9. StatusOf(m)' = "done"
  BY <1>1, <1>5, <1>7, StatusWillBe
<1>10. \A n \in Messages \ {m} : Alike(n)
  BY <1>1, <1>5, <1>6 DEF Alike
<1>11. Service!Finish(m)
  BY <1>8, <1>9, <1>10, ViewMoves DEF Service!Finish
<1> QED
  BY <1>11

\* The message that waited in the slot gives way to the one that takes it.
LEMMA EnqueueServed ==
  ASSUME ServiceInv, ServiceInv', NEW t \in Threads, Enqueue(t)
  PROVE  (\E m \in Messages : Service!Drop(m)) \/ View' = View
<1>1. /\ pc[t] = "enqueue" /\ UNCHANGED <<todo, executed, msg>> /\ pending'.msg = msg[t]
      /\ \A v \in Threads : pc'[v] = IF v = t THEN "card" ELSE pc[v]
  BY DEF Enqueue, Goto, ServiceInv, TypeInv, TypeOK
<1>2. \A n \in Messages : Worked(n)' <=> Worked(n)
  BY <1>1 DEF Worked, Running
<1>3. \A n \in Messages : Held(n)' <=> Held(n) /\ n # pending.msg
  <2>1. \A v \in Threads : pc[v] \in Waiting => msg[v] # pending.msg
    BY DEF ServiceInv, OwnerInv, SingleOwner
  <2> QED
    BY <1>1, <2>1 DEF Held, Waiting
<1>4. CASE pending.msg = None
  <2>1. \A n \in Messages : Alike(n)
    BY <1>1, <1>2, <1>3, <1>4, ChatQueryAssumption DEF Alike
  <2> QED
    BY <2>1, ViewStays
<1>5. ASSUME NEW m \in Messages, m = pending.msg
      PROVE  Service!Drop(m)
  <2>1. Held(m) /\ ~Held(m)'
    BY <1>3, <1>5 DEF Held
  <2>2. \A n \in Messages \ {m} : Held(n)' <=> Held(n)
    BY <1>3, <1>5
  <2> QED
    BY <1>1, <1>2, <2>1, <2>2, MessageDropped
<1>6. pending.msg \in Messages \cup {None}
  BY DEF ServiceInv, TypeInv, TypeOK, Slot
<1> QED
  BY <1>4, <1>5, <1>6

LEMMA DispatchFailsServed ==
  ASSUME ServiceInv, ServiceInv', NEW t \in Threads, DispatchFails(t)
  PROVE  \E m \in Messages : Service!Drop(m)
<1>1. /\ pc[t] = "dispatch" /\ UNCHANGED <<todo, executed, pending>>
      /\ \A v \in Threads : pc'[v] = IF v = t THEN "idle" ELSE pc[v]
      /\ \A v \in Threads \ {t} : msg'[v] = msg[v]
  BY DEF DispatchFails, Return, ServiceInv, TypeInv, TypeOK
<1>2. msg[t] \in Messages
  BY <1>1 DEF ServiceInv, TypeInv, HasMessage, Waiting
<1>3. PICK m \in Messages : m = msg[t]
  BY <1>2
<1>4. \A n \in Messages : Worked(n)' <=> Worked(n)
  BY <1>1 DEF Worked, Running
<1>5. /\ \A v \in Threads : pc[v] \in Waiting /\ msg[v] = m => v = t
      /\ pending.msg # m
  BY <1>1, <1>3 DEF ServiceInv, OwnerInv, SingleOwner, Waiting
<1>6. Held(m) /\ ~Held(m)'
  BY <1>1, <1>3, <1>5 DEF Held, Waiting
<1>7. \A n \in Messages \ {m} : Held(n)' <=> Held(n)
  BY <1>1, <1>3 DEF Held, Waiting
<1> QED
  BY <1>1, <1>4, <1>6, <1>7, MessageDropped

\* What waits passes from the slot to the thread that has ended, and from it to a new one.
LEMMA HandOverServed ==
  ASSUME ServiceInv, ServiceInv', NEW t \in Threads,
         (SettleTakes(t) /\ pc[t] = "settle") \/ \E u \in Threads : Dispatch(t, u)
  PROVE  View' = View
<1>1. CASE SettleTakes(t) /\ pc[t] = "settle"
  <2>1. /\ pc[t] = "settle" /\ UNCHANGED <<todo, executed>> /\ pending'.msg = None
        /\ \A v \in Threads : pc'[v] = IF v = t THEN "dispatch" ELSE pc[v]
        /\ \A v \in Threads : msg'[v] = IF v = t THEN pending.msg ELSE msg[v]
    BY <1>1 DEF SettleTakes, NoPending, ServiceInv, TypeInv, TypeOK
  <2>2. \A n \in Messages : (Worked(n)' <=> Worked(n)) /\ (Held(n)' <=> Held(n))
    BY <2>1, ChatQueryAssumption DEF Worked, Held, Running, Waiting
  <2> QED
    BY <2>1, <2>2, ViewStays DEF Alike
<1>2. ASSUME NEW u \in Threads, Dispatch(t, u)
      PROVE  View' = View
  <2>1. /\ pc[t] = "dispatch" /\ pc[u] = "idle" /\ UNCHANGED <<todo, executed, pending>>
        /\ \A v \in Threads : pc'[v] = IF v = u THEN "fetch" ELSE IF v = t THEN "idle" ELSE pc[v]
        /\ \A v \in Threads : msg'[v] = IF v = u THEN msg[t] ELSE IF v = t THEN None ELSE msg[v]
    <3>1. /\ pc \in [Threads -> PCs] /\ msg \in [Threads -> Messages \cup {None}]
      BY DEF ServiceInv, TypeInv, TypeOK
    <3>2. /\ pc[t] = "dispatch" /\ pc[u] = "idle" /\ UNCHANGED <<todo, executed, pending>>
          /\ pc' = [pc EXCEPT ![t] = "idle", ![u] = "fetch"]
          /\ msg' = [msg EXCEPT ![t] = None, ![u] = msg[t]]
      BY <1>2 DEF Dispatch, Spawn, Free
    <3> QED
      BY <3>1, <3>2
  <2>2. \A n \in Messages : (Worked(n)' <=> Worked(n)) /\ (Held(n)' <=> Held(n))
    BY <2>1 DEF Worked, Held, Running, Waiting
  <2> QED
    BY <2>1, <2>2, ViewStays DEF Alike
<1> QED
  BY <1>1, <1>2

LEMMA ThreadServed ==
  ASSUME ServiceInv, ServiceInv', NEW t \in Threads, ThreadStep(t)
  PROVE  [Service!Next]_View
<1>1. CASE Fetch(t) \/ Busy(t) \/ Begin(t) \/ Release(t) \/ SendQueueCard(t)
  <2>1. UNCHANGED <<todo, executed, pending, msg>>
    BY <1>1 DEF Fetch, Busy, Begin, Release, SendQueueCard, Goto
  <2>2. \E next \in PCs :
          /\ pc' = [pc EXCEPT ![t] = next]
          /\ next \in Waiting <=> pc[t] \in Waiting
          /\ next \in Running <=> pc[t] \in Running
    BY <1>1 DEF Fetch, Busy, Begin, Release, SendQueueCard, Goto, Waiting, Running, Ending, PCs
  <2>3. \A v \in Threads : /\ pc'[v] \in Waiting <=> pc[v] \in Waiting
                           /\ pc'[v] \in Running <=> pc[v] \in Running
    BY <2>2 DEF ServiceInv, TypeInv, TypeOK
  <2>4. \A m \in Messages : Alike(m)
    BY <2>1, <2>3, ThreadsAlike
  <2> QED
    BY <2>4, ViewStays
<1>2. CASE PatchQueueCard(t) \/ TagPending(t) \/ (SettleReturns(t) /\ pc[t] = "settle")
  <2>1. UNCHANGED <<todo, executed>> /\ pending'.msg = pending.msg
    BY <1>2 DEF PatchQueueCard, TagPending, SettleReturns, Return, ServiceInv, TypeInv, TypeOK, Slot
  <2>2. /\ pc[t] \in {"card", "tag", "settle"}
        /\ \A v \in Threads : pc'[v] = IF v = t THEN "idle" ELSE pc[v]
        /\ \A v \in Threads \ {t} : msg'[v] = msg[v]
    BY <1>2 DEF PatchQueueCard, TagPending, SettleReturns, Return, ServiceInv, TypeInv, TypeOK
  <2>3. \A v \in Threads : /\ pc'[v] \in Waiting <=> pc[v] \in Waiting
                           /\ pc'[v] \in Running <=> pc[v] \in Running
                           /\ pc[v] \in Waiting \cup Running => msg'[v] = msg[v]
    BY <2>2 DEF Waiting, Running
  <2>4. \A m \in Messages : Alike(m)
    BY <2>1, <2>3, ThreadsAlike
  <2> QED
    BY <2>4, ViewStays
<1>3. CASE Settle(t)
  <2>1. pc[t] = "settle" /\ (SettleReturns(t) \/ SettleTakes(t))
    BY <1>3, SettleCases
  <2> QED
    BY <1>2, <2>1, HandOverServed
<1>4. CASE \E u \in Threads : Dispatch(t, u)
  BY <1>4, HandOverServed
<1>5. CASE Acquire(t) \/ End(t) \/ Enqueue(t) \/ DispatchFails(t)
  BY <1>5, AcquireServed, EndServed, EnqueueServed, DispatchFailsServed DEF Service!Next
<1> QED
  BY <1>1, <1>2, <1>3, <1>4, <1>5 DEF ThreadStep

LEMMA NextServed ==
  ASSUME "soft" \notin Hazards, ServiceInv, ServiceInv', [Next]_vars
  PROVE  [Service!Next]_View
<1>1. ASSUME NEW m \in Messages, NEW u \in Threads, Receive(m, u)
      PROVE  [Service!Next]_View
  BY <1>1, ReceiveServed DEF Service!Next
<1>2. ASSUME NEW t \in Threads, SoftFire(t) \/ CallbackStep(t)
      PROVE  FALSE
  <2>1. soft[t] = "armed"
    BY DEF ServiceInv, LockInv
  <2> QED
    BY <1>2, <2>1
    DEF SoftFire, CallbackStep, SoftRelease, SoftReplace, SoftPop, SoftStart, SoftStartFails
<1>3. CASE CancelPop \/ \E c \in 1..Len(cards) : CancelQueueButton(c)
  <2>1. UNCHANGED <<todo, executed, pc, msg>> /\ pending'.msg = None
    BY <1>3 DEF CancelPop, CancelQueueButton, locals, NoPending
  <2> QED
    BY <2>1, SlotDropped DEF Service!Next
<1>4. CASE \/ ProbeRelease \/ CancelTrigger \/ CancelButton \/ EvictEvent \/ UNCHANGED vars
           \/ \E kind \in {"cancel", "probe"} : ProbeLock(kind)
  <2>1. UNCHANGED <<pc, msg, pending, todo, executed>>
    BY <1>4 DEF ProbeRelease, CancelTrigger, CancelButton, EvictEvent, ProbeLock, locals, vars
  <2>2. \A m \in Messages : Alike(m)
    BY <2>1, ThreadsAlike
  <2> QED
    BY <2>2, ViewStays
<1> QED
  BY <1>1, <1>2, <1>3, <1>4, ThreadServed DEF Next, UserStep, CommandStep

LEMMA WorkInvariant == Spec => []WorkInv
<1>1. Init => WorkInv
  BY DEF Init, WorkInv, Running
<1>2. TypeInv /\ WorkInv /\ [Next]_vars => WorkInv'
  <2> SUFFICES ASSUME TypeOK, WorkInv, [Next]_vars PROVE WorkInv'
    BY DEF TypeInv
  <2> USE DEF TypeOK, WorkInv, Running, Waiting, Ending, PCs, Slot, NoPending
  <2>1. ASSUME NEW m \in Messages, NEW u \in Threads, Receive(m, u) PROVE WorkInv'
    BY <2>1 DEF Receive, Spawn, Free
  <2>2. ASSUME NEW t \in Threads, ThreadStep(t) PROVE WorkInv'
    <3>1. CASE Acquire(t) BY <3>1 DEF Acquire, Goto
    <3>2. CASE Fetch(t) \/ Busy(t) \/ Enqueue(t) \/ SendQueueCard(t)
      BY <3>2 DEF Fetch, Busy, Enqueue, SendQueueCard, Goto
    <3>3. CASE Begin(t) \/ End(t) \/ Release(t)
      BY <3>3 DEF Begin, End, Release, Goto
    <3>4. CASE PatchQueueCard(t) \/ TagPending(t) \/ DispatchFails(t)
      BY <3>4 DEF PatchQueueCard, TagPending, DispatchFails, Return
    <3>5. CASE Settle(t)
      <4>1. CASE SettleReturns(t) BY <4>1 DEF SettleReturns, Return
      <4>2. CASE SettleTakes(t) BY <3>5, <4>2, SettleCases DEF SettleTakes
      <4> QED BY <3>5, <4>1, <4>2, SettleCases
    <3>6. ASSUME NEW u \in Threads, Dispatch(t, u) PROVE WorkInv'
      BY <3>6 DEF Dispatch, Spawn, Free
    <3> QED
      BY <2>2, <3>1, <3>2, <3>3, <3>4, <3>5, <3>6 DEF ThreadStep
  <2>3. ASSUME NEW t \in Threads, SoftFire(t) \/ CallbackStep(t) PROVE WorkInv'
    <3>1. CASE SoftFire(t) \/ SoftRelease(t) \/ SoftReplace(t) \/ SoftStartFails(t)
      BY <3>1 DEF SoftFire, SoftRelease, SoftReplace, SoftStartFails, SoftGoto
    <3>2. CASE SoftPop(t)
      BY <3>2, SoftPopCases
    <3>3. ASSUME NEW u \in Threads, SoftStart(t, u) PROVE WorkInv'
      BY <3>3 DEF SoftStart, Free
    <3> QED
      BY <2>3, <3>1, <3>2, <3>3 DEF CallbackStep
  <2>4. CASE CommandStep \/ \E kind \in {"cancel", "probe"} : ProbeLock(kind)
    BY <2>4 DEF ProbeLock, CommandStep, ProbeRelease, CancelPop, CancelTrigger, locals
  <2>5. CASE CancelButton \/ EvictEvent \/ \E c \in 1..Len(cards) : CancelQueueButton(c)
    BY <2>5 DEF CancelButton, EvictEvent, CancelQueueButton, Input, locals
  <2>6. CASE UNCHANGED vars
    BY <2>6 DEF vars, locals
  <2> QED
    BY <2>1, <2>2, <2>3, <2>4, <2>5, <2>6 DEF Next, UserStep
<1> QED
  BY <1>1, <1>2, TypeCorrect, PTL DEF Spec

\* Where no query passes a soft timeout, what the chat's lock, slot and threads do is what
\* ChatService promises the user, with any number of threads and messages: one answer at a time,
\* a message that has to wait is answered later or dropped, and none is answered twice or after
\* it was dropped.
THEOREM ServiceRefined ==
  ASSUME "soft" \notin Hazards
  PROVE  Spec => ImplementsService
<1>1. ASSUME Init PROVE Service!Init
  <2>1. ASSUME NEW m \in Messages PROVE StatusOf(m) = "new"
    BY <1>1 DEF Init, StatusOf
  <2> QED
    BY <2>1 DEF Service!Init
<1>2. ServiceInv /\ ServiceInv' /\ [Next]_vars => [Service!Next]_View
  BY NextServed
<1>3. Spec => []ServiceInv
  BY TypeCorrect, LockInvariant, OwnerInvariant, WorkInvariant, PTL DEF ServiceInv
<1> QED
  BY <1>1, <1>2, <1>3, PTL DEF Spec, ImplementsService, Service!Spec, View

----------------------------------------------------------------------------
(* The life of a message, whatever goes wrong.  With soft timeouts several  *)
(* messages may be worked on together, but each still lives as ChatService  *)
(* says.                                                                   *)

Owns(m) == \/ \E t \in Threads : (pc[t] \in Waiting /\ msg[t] = m) \/ softMsg[t].msg = m
           \/ pending.msg = m

\* What no step does to a message: one that has come does not come again, one that was taken stays
\* taken, what waits came or waited before, and what is begun has waited.
Passes(m) ==
  /\ m \in todo' => m \in todo
  /\ m \in todo /\ m \notin todo' => Owns(m)' /\ m \notin executed'
  /\ m \in executed => m \in executed'
  /\ m \in executed' /\ m \notin executed => Worked(m)'
  /\ Owns(m)' => Owns(m) \/ m \in todo
  /\ Worked(m)' => Worked(m) \/ (Owns(m) /\ m \notin executed)

LifeInv == TypeInv /\ OwnerInv /\ WorkInv

Lives == {<<"new", "waiting">>, <<"waiting", "running">>, <<"running", "done">>, <<"waiting", "dropped">>}

LEMMA LifeIs ==
  ASSUME NEW m \in Messages
  PROVE  StatusOf(m) = IF m \in todo THEN "new"
                       ELSE IF Worked(m) THEN "running"
                       ELSE IF m \in executed THEN "done"
                       ELSE IF Owns(m) THEN "waiting" ELSE "dropped"
<1>1. m \in Owned <=> Owns(m)
  BY DEF Owned, Owns
<1> QED
  BY <1>1 DEF StatusOf, Worked

LEMMA LifeWillBe ==
  ASSUME NEW m \in Messages
  PROVE  StatusOf(m)' = IF m \in todo' THEN "new"
                        ELSE IF Worked(m)' THEN "running"
                        ELSE IF m \in executed' THEN "done"
                        ELSE IF Owns(m)' THEN "waiting" ELSE "dropped"
<1>1. m \in Owned' <=> Owns(m)'
  BY DEF Owned, Owns
<1> QED
  BY <1>1 DEF StatusOf, Worked

LEMMA PassesLives ==
  ASSUME LifeInv, LifeInv', NEW m \in Messages, Passes(m)
  PROVE  StatusOf(m)' = StatusOf(m) \/ <<StatusOf(m), StatusOf(m)'>> \in Lives
<1>1. /\ Worked(m) => m \in executed
      /\ Worked(m)' => m \in executed'
  BY DEF LifeInv, WorkInv, Worked
<1>2. ~(m \in todo /\ m \in executed)
  BY DEF LifeInv, OwnerInv, NoSecondArrival
<1>3. CASE m \in todo
  <2>1. StatusOf(m) = "new"
    BY <1>3, LifeIs
  <2>2. StatusOf(m)' \in {"new", "waiting"}
    BY <1>1, <1>3, LifeWillBe DEF Passes
  <2> QED
    BY <2>1, <2>2 DEF Lives
<1>4. CASE m \notin todo /\ Worked(m)
  <2>1. StatusOf(m) = "running"
    BY <1>4, LifeIs
  <2>2. StatusOf(m)' \in {"running", "done"}
    BY <1>1, <1>4, LifeWillBe DEF Passes
  <2> QED
    BY <2>1, <2>2 DEF Lives
<1>5. CASE m \notin todo /\ ~Worked(m) /\ m \in executed
  <2>1. StatusOf(m) = "done"
    BY <1>5, LifeIs
  <2>2. StatusOf(m)' = "done"
    BY <1>5, LifeWillBe DEF Passes
  <2> QED
    BY <2>1, <2>2
<1>6. CASE m \notin todo /\ ~Worked(m) /\ m \notin executed /\ Owns(m)
  <2>1. StatusOf(m) = "waiting"
    BY <1>6, LifeIs
  <2>2. StatusOf(m)' \in {"running", "waiting", "dropped"}
    BY <1>6, LifeWillBe DEF Passes
  <2> QED
    BY <2>1, <2>2 DEF Lives
<1>7. CASE m \notin todo /\ ~Worked(m) /\ m \notin executed /\ ~Owns(m)
  <2>1. StatusOf(m) = "dropped"
    BY <1>7, LifeIs
  <2>2. StatusOf(m)' = "dropped"
    BY <1>7, LifeWillBe DEF Passes
  <2> QED
    BY <2>1, <2>2
<1> QED
  BY <1>3, <1>4, <1>5, <1>6, <1>7

LEMMA PassesStep ==
  ASSUME LifeInv, [Next]_vars, NEW m \in Messages
  PROVE  Passes(m)
<1> USE ChatQueryAssumption DEF Slot, NoPending, Waiting, Running, Ending, PCs, Passes, Owns, Worked
<1>1. TypeOK /\ HasMessage /\ NoSecondExecution
  BY DEF LifeInv, TypeInv, OwnerInv
<1>2. ASSUME NEW n \in Messages, NEW u \in Threads, Receive(n, u) PROVE Passes(m)
  <2>1. /\ todo' = todo \ {n} /\ UNCHANGED <<softMsg, pending, executed>>
        /\ pc' = [pc EXCEPT ![u] = "idle", ![u] = "fetch"]
        /\ msg' = [msg EXCEPT ![u] = None, ![u] = n]
        /\ n \in todo /\ pc[u] = "idle"
    BY <1>2 DEF Receive, Spawn, Free
  <2>2. /\ pc'[u] = "fetch" /\ msg'[u] = n
        /\ \A v \in Threads \ {u} : pc'[v] = pc[v] /\ msg'[v] = msg[v]
    BY <1>1, <2>1 DEF TypeOK
  <2>3. n \notin executed
    BY <2>1 DEF LifeInv, OwnerInv, NoSecondArrival
  <2> QED
    BY <2>1, <2>2, <2>3
<1>3. ASSUME NEW t \in Threads, ThreadStep(t) PROVE Passes(m)
  <2>1. CASE Acquire(t)
    <3>1. /\ pc[t] = "acquire" /\ executed' = executed \cup {msg[t]}
          /\ UNCHANGED <<msg, softMsg, pending, todo>>
          /\ \A v \in Threads : pc'[v] = IF v = t THEN "begin" ELSE pc[v]
      BY <1>1, <2>1 DEF Acquire, Goto, TypeOK
    <3>2. msg[t] \notin executed
      BY <1>1, <3>1 DEF NoSecondExecution
    <3>3. msg[t] \notin todo
      BY <3>1 DEF LifeInv, OwnerInv, NoSecondArrival
    <3> QED
      BY <3>1, <3>2, <3>3
  <2>2. CASE Fetch(t) \/ Busy(t) \/ SendQueueCard(t) \/ Begin(t) \/ End(t) \/ Release(t)
    <3>1. UNCHANGED <<msg, softMsg, pending, todo, executed>>
      BY <2>2 DEF Fetch, Busy, SendQueueCard, Begin, End, Release, Goto
    <3>2. \E next \in PCs :
            /\ pc' = [pc EXCEPT ![t] = next]
            /\ next \in Waiting => pc[t] \in Waiting
            /\ next \in Running => pc[t] \in Running
      BY <2>2 DEF Fetch, Busy, SendQueueCard, Begin, End, Release, Goto
    <3>3. \A v \in Threads : /\ pc'[v] \in Waiting => pc[v] \in Waiting
                             /\ pc'[v] \in Running => pc[v] \in Running
      BY <1>1, <3>2 DEF TypeOK
    <3> QED
      BY <3>1, <3>3
  <2>3. CASE Enqueue(t)
    <3>1. /\ UNCHANGED <<msg, softMsg, todo, executed>> /\ pending'.msg = msg[t] /\ pc[t] = "enqueue"
          /\ \A v \in Threads : pc'[v] = IF v = t THEN "card" ELSE pc[v]
      BY <1>1, <2>3 DEF Enqueue, Goto, TypeOK
    <3> QED
      BY <3>1
  <2>4. CASE PatchQueueCard(t) \/ TagPending(t) \/ DispatchFails(t)
             \/ (SettleReturns(t) /\ pc[t] = "settle")
    <3>1. UNCHANGED <<softMsg, todo, executed>> /\ pending'.msg = pending.msg
      BY <1>1, <2>4 DEF PatchQueueCard, TagPending, DispatchFails, SettleReturns, Return, TypeOK
    <3>2. \A v \in Threads : IF v = t THEN pc'[v] = "idle" ELSE pc'[v] = pc[v] /\ msg'[v] = msg[v]
      BY <1>1, <2>4 DEF PatchQueueCard, TagPending, DispatchFails, SettleReturns, Return, TypeOK
    <3> QED
      BY <3>1, <3>2
  <2>5. CASE SettleTakes(t) /\ pc[t] = "settle"
    <3>1. /\ UNCHANGED <<softMsg, todo, executed>> /\ pending'.msg = None
          /\ \A v \in Threads : pc'[v] = IF v = t THEN "dispatch" ELSE pc[v]
          /\ \A v \in Threads : msg'[v] = IF v = t THEN pending.msg ELSE msg[v]
      BY <1>1, <2>5 DEF SettleTakes, TypeOK
    <3> QED
      BY <3>1
  <2>6. ASSUME NEW u \in Threads, Dispatch(t, u) PROVE Passes(m)
    <3>1. /\ UNCHANGED <<softMsg, pending, todo, executed>> /\ pc[t] = "dispatch"
          /\ pc' = [pc EXCEPT ![t] = "idle", ![u] = "fetch"]
          /\ msg' = [msg EXCEPT ![t] = None, ![u] = msg[t]]
      BY <2>6 DEF Dispatch, Spawn
    <3>2. /\ pc'[u] = "fetch" /\ msg'[u] = msg[t]
          /\ \A v \in Threads \ {u} : pc'[v] = IF v = t THEN "idle" ELSE pc[v]
          /\ \A v \in Threads \ {u, t} : msg'[v] = msg[v]
      BY <1>1, <3>1 DEF TypeOK
    <3>3. ASSUME NEW v \in Threads, pc'[v] \in Waiting, msg'[v] = m
          PROVE  \E w \in Threads : pc[w] \in Waiting /\ msg[w] = m
      <4>1. CASE v = u BY <3>1, <3>2, <3>3, <4>1
      <4>2. CASE v # u BY <3>2, <3>3, <4>2
      <4> QED BY <4>1, <4>2
    <3>4. Worked(m)' => Worked(m)
      BY <3>2
    <3>5. Owns(m)' => Owns(m)
      BY <3>1, <3>3
    <3> QED
      BY <3>1, <3>4, <3>5
  <2>7. Settle(t) => pc[t] = "settle" /\ (SettleReturns(t) \/ SettleTakes(t))
    BY SettleCases
  <2> QED
    BY <1>3, <2>1, <2>2, <2>3, <2>4, <2>5, <2>6, <2>7 DEF ThreadStep
<1>4. ASSUME NEW t \in Threads, SoftFire(t) \/ CallbackStep(t) PROVE Passes(m)
  <2>1. CASE SoftFire(t) \/ SoftRelease(t) \/ SoftReplace(t)
    <3>1. UNCHANGED <<pc, msg, softMsg, pending, todo, executed>>
      BY <2>1 DEF SoftFire, SoftRelease, SoftReplace, SoftGoto
    <3> QED
      BY <3>1
  <2>2. CASE SoftPop(t)
    <3>1. /\ UNCHANGED <<pc, msg, todo, executed>> /\ pending'.msg = None
          /\ \A v \in Threads : softMsg'[v] = softMsg[v] \/ softMsg'[v] = pending
      BY <1>1, <2>2, SoftPopCases DEF TypeOK
    <3> QED
      BY <3>1
  <2>3. ASSUME NEW u \in Threads, SoftStart(t, u) PROVE Passes(m)
    <3>1. /\ UNCHANGED <<pending, todo, executed>>
          /\ pc'[u] = "fetch" /\ msg'[u] = softMsg[t].msg
          /\ \A v \in Threads \ {u} : pc'[v] = pc[v] /\ msg'[v] = msg[v]
          /\ \A v \in Threads : softMsg'[v].msg = IF v = t THEN None ELSE softMsg[v].msg
      BY <1>1, <2>3 DEF SoftStart, TypeOK
    <3> QED
      BY <3>1
  <2>4. CASE SoftStartFails(t)
    <3>1. /\ UNCHANGED <<pc, msg, todo, executed>> /\ pending'.msg = softMsg[t].msg
          /\ \A v \in Threads : softMsg'[v].msg = IF v = t THEN None ELSE softMsg[v].msg
      BY <1>1, <2>4 DEF SoftStartFails, SoftGoto, TypeOK
    <3> QED
      BY <3>1
  <2> QED
    BY <1>4, <2>1, <2>2, <2>3, <2>4 DEF CallbackStep
<1>5. CASE \/ CommandStep \/ CancelButton \/ EvictEvent \/ UNCHANGED vars
           \/ \E kind \in {"cancel", "probe"} : ProbeLock(kind)
           \/ \E c \in 1..Len(cards) : CancelQueueButton(c)
  <2>1. UNCHANGED <<pc, msg, softMsg, todo, executed>> /\ pending'.msg \in {pending.msg, None}
    BY <1>5 DEF CommandStep, ProbeRelease, CancelPop, CancelTrigger, CancelButton, EvictEvent, ProbeLock,
                CancelQueueButton, locals, vars
  <2> QED
    BY <2>1
<1> QED
  BY <1>2, <1>3, <1>4, <1>5 DEF Next, UserStep

\* Through soft timeouts, failing threads and cards, commands and evicted events, for any threads and
\* messages: a message that came waits, is begun or dropped once, and once it is done or dropped
\* it is never worked on or waits again.
THEOREM LifeSafe ==
  Spec => [][\A m \in Messages :
               StatusOf(m)' = StatusOf(m) \/ <<StatusOf(m), StatusOf(m)'>> \in Lives]_vars
<1>1. LifeInv /\ LifeInv' /\ [Next]_vars =>
        [\A m \in Messages : StatusOf(m)' = StatusOf(m) \/ <<StatusOf(m), StatusOf(m)'>> \in Lives]_vars
  BY PassesStep, PassesLives
<1>2. Spec => []LifeInv
  BY TypeCorrect, OwnerInvariant, WorkInvariant, PTL DEF LifeInv
<1> QED
  BY <1>1, <1>2, PTL DEF Spec

----------------------------------------------------------------------------
(* Who takes the message out of the slot.  The end of a query and its soft  *)
(* timeout may come together, and each leaves the slot to the other in some *)
(* of their steps.                                                          *)

\* The query ends with a look at the slot, or its callback has one still before it.
TakesSlot(t) ==
  \/ Foreground(t)
  \/ pc[t] = "settle" /\ t \notin lockReleased
  \/ soft[t] \in {"replace", "pop"}

\* The flag is set by the callback, on its way to the slot, and not before.
FlagInv == \A t \in Threads : soft[t] \in {"armed", "release", "replace"} => t \notin lockReleased

SlotKept == (\E t \in Threads : TakesSlot(t)) /\ pending.msg # None
              => pending'.msg = None \/ \E t \in Threads : TakesSlot(t)'

\* A thread that is free takes nothing.
LEMMA FreeTakesNothing ==
  ASSUME NEW t \in Threads, Free(t)
  PROVE  ~TakesSlot(t)
BY DEF Free, TakesSlot, Foreground, Running

LEMMA FlagStep ==
  ASSUME TypeInv, FlagInv, [Next]_vars
  PROVE  FlagInv'
<1> USE DEF TypeInv, TypeOK, FlagInv
<1>1. ASSUME NEW m \in Messages, NEW u \in Threads, Receive(m, u) PROVE FlagInv'
  BY <1>1 DEF Receive, Spawn
<1>2. ASSUME NEW t \in Threads, NEW u \in Threads, Dispatch(t, u) PROVE FlagInv'
  BY <1>2 DEF Dispatch, Spawn
<1>3. ASSUME NEW t \in Threads, ThreadStep(t), ~\E u \in Threads : Dispatch(t, u) PROVE FlagInv'
  <2>1. UNCHANGED <<soft, lockReleased>>
    BY <1>3 DEF ThreadStep, Fetch, Acquire, Busy, Enqueue, PatchQueueCard, SendQueueCard, TagPending,
                Begin, End, Release, Settle, DispatchFails, Return, Goto
  <2> QED
    BY <2>1
<1>4. ASSUME NEW t \in Threads, SoftFire(t) \/ SoftRelease(t) \/ SoftReplace(t) PROVE FlagInv'
  BY <1>4 DEF SoftFire, SoftRelease, SoftReplace, SoftGoto
<1>5. ASSUME NEW t \in Threads, SoftPop(t) PROVE FlagInv'
  BY <1>5, SoftPopCases
<1>6. ASSUME NEW t \in Threads, NEW u \in Threads, SoftStart(t, u) PROVE FlagInv'
  BY <1>6 DEF SoftStart
<1>7. ASSUME NEW t \in Threads, SoftStartFails(t) PROVE FlagInv'
  BY <1>7 DEF SoftStartFails, SoftGoto
<1>8. CASE CommandStep \/ (\E kind \in {"cancel", "probe"} : ProbeLock(kind)) \/ CancelButton \/ EvictEvent
           \/ (\E c \in 1..Len(cards) : CancelQueueButton(c)) \/ UNCHANGED vars
  <2>1. UNCHANGED <<soft, lockReleased>>
    BY <1>8 DEF CommandStep, ProbeRelease, CancelPop, CancelTrigger, ProbeLock, CancelButton, EvictEvent,
                CancelQueueButton, vars, locals
  <2> QED
    BY <2>1
<1> QED
  BY <1>1, <1>2, <1>3, <1>4, <1>5, <1>6, <1>7, <1>8 DEF Next, UserStep, CallbackStep

\* A step of a thread, but for the start of another one: only the last look of a query at the
\* slot ends its claim, and that look takes the message.
LEMMA ThreadKeepsSlot ==
  ASSUME TypeInv, FlagInv, NEW t \in Threads, ThreadStep(t), ~\E u \in Threads : Dispatch(t, u)
  PROVE  SlotKept
<1> SUFFICES ASSUME NEW v \in Threads, TakesSlot(v), pending.msg # None
             PROVE  pending'.msg = None \/ TakesSlot(v)'
  BY DEF SlotKept
<1> USE DEF TypeInv, TypeOK
<1>0. UNCHANGED <<soft, lockReleased>>
  BY DEF ThreadStep, Fetch, Acquire, Busy, Enqueue, PatchQueueCard, SendQueueCard, TagPending,
         Begin, End, Release, Settle, DispatchFails, Return, Goto
<1>1. CASE v # t
  <2>1. pc'[v] = pc[v]
    BY <1>1 DEF ThreadStep, Fetch, Acquire, Busy, Enqueue, PatchQueueCard, SendQueueCard, TagPending,
                Begin, End, Release, Settle, DispatchFails, Return, Goto
  <2> QED
    BY <1>0, <2>1 DEF TakesSlot, Foreground
<1>2. CASE v = t /\ soft[v] \in {"replace", "pop"}
  BY <1>0, <1>2 DEF TakesSlot
<1>3. CASE v = t /\ pc[v] = "settle" /\ v \notin lockReleased
  <2>1. Settle(t)
    BY <1>3 DEF ThreadStep, Fetch, Acquire, Busy, Enqueue, PatchQueueCard, SendQueueCard, TagPending,
                Begin, End, Release, Dispatch, DispatchFails
  <2> QED
    BY <1>3, <2>1 DEF Settle, NoPending
<1>4. CASE v = t /\ Foreground(v)
  <2>1. v \notin lockReleased
    BY <1>4 DEF Foreground, FlagInv
  <2>2. pc[t] \in {"begin", "run", "release"} /\ soft[t] \in {"armed", "release"}
    BY <1>4 DEF Foreground, Running
  <2>3. Begin(t) \/ End(t) \/ Release(t)
    BY <2>2 DEF ThreadStep, Fetch, Acquire, Busy, Enqueue, PatchQueueCard, SendQueueCard, TagPending,
                Settle, Dispatch, DispatchFails
  <2>4. pc'[t] \in {"run", "release", "settle"}
    BY <2>3 DEF Begin, End, Release, Goto
  <2> QED
    BY <1>0, <1>4, <2>1, <2>2, <2>4 DEF TakesSlot, Foreground, Running
<1> QED
  BY <1>1, <1>2, <1>3, <1>4 DEF TakesSlot

LEMMA SlotStep ==
  ASSUME TypeInv, FlagInv, [Next]_vars
  PROVE  SlotKept
<1> USE DEF TypeInv, TypeOK
<1>1. ASSUME NEW t \in Threads, NEW u \in Threads, Free(u), pc[t] \in {"idle", "dispatch"},
             \A v \in Threads \ {u} : v # t => pc'[v] = pc[v],
             \A v \in Threads \ {u} : soft'[v] = soft[v],
             pc'[t] \in {"idle", "dispatch", "fetch"}, lockReleased' \subseteq lockReleased
      PROVE  SlotKept
  <2> SUFFICES ASSUME NEW v \in Threads, TakesSlot(v) PROVE TakesSlot(v)'
    BY DEF SlotKept
  <2>1. v # u
    BY <1>1, FreeTakesNothing
  <2>2. CASE v # t
    <3>1. pc'[v] = pc[v] /\ soft'[v] = soft[v]
      BY <1>1, <2>1, <2>2
    <3> QED
      BY <1>1, <3>1 DEF TakesSlot, Foreground
  <2>3. CASE v = t
    <3>1. soft[v] \in {"replace", "pop"}
      BY <1>1, <2>3 DEF TakesSlot, Foreground, Running
    <3> QED
      BY <1>1, <2>1, <3>1 DEF TakesSlot
  <2> QED
    BY <2>2, <2>3
<1>2. ASSUME NEW m \in Messages, NEW u \in Threads, Receive(m, u) PROVE SlotKept
  BY <1>1, <1>2 DEF Receive, Spawn, Free
<1>3. ASSUME NEW t \in Threads, NEW u \in Threads, Dispatch(t, u) PROVE SlotKept
  BY <1>1, <1>3 DEF Dispatch, Spawn
<1>4. ASSUME NEW t \in Threads, SoftFire(t) \/ SoftRelease(t) \/ SoftReplace(t) PROVE SlotKept
  <2> SUFFICES ASSUME NEW v \in Threads, TakesSlot(v) PROVE TakesSlot(v)'
    BY DEF SlotKept
  <2>1. pc' = pc /\ \A x \in Threads \ {t} : soft'[x] = soft[x] /\ (x \in lockReleased' <=> x \in lockReleased)
    BY <1>4 DEF SoftFire, SoftRelease, SoftReplace, SoftGoto
  <2>2. CASE v # t
    BY <2>1, <2>2 DEF TakesSlot, Foreground
  <2>3. CASE v = t /\ SoftFire(t)
    BY <2>1, <2>3 DEF SoftFire, SoftGoto, TakesSlot, Foreground, Running
  <2>4. CASE v = t /\ (SoftRelease(t) \/ SoftReplace(t))
    BY <2>4 DEF SoftRelease, SoftReplace, SoftGoto, TakesSlot
  <2> QED
    BY <1>4, <2>2, <2>3, <2>4
<1>5. ASSUME NEW t \in Threads, SoftPop(t) PROVE SlotKept
  BY <1>5, SoftPopCases DEF SlotKept, NoPending
<1>6. ASSUME NEW t \in Threads, NEW u \in Threads, SoftStart(t, u) PROVE SlotKept
  <2> SUFFICES ASSUME NEW v \in Threads, TakesSlot(v) PROVE TakesSlot(v)'
    BY DEF SlotKept
  <2>1. v # u
    BY <1>6, FreeTakesNothing DEF SoftStart
  <2>2. pc'[v] = pc[v] /\ (v \in lockReleased' => v \in lockReleased)
    BY <1>6, <2>1 DEF SoftStart
  <2>3. CASE v # t
    <3>1. soft'[v] = soft[v]
      BY <1>6, <2>1, <2>3 DEF SoftStart
    <3> QED
      BY <2>2, <3>1 DEF TakesSlot, Foreground
  <2>4. CASE v = t
    <3>1. pc[v] = "settle" /\ v \notin lockReleased
      BY <1>6, <2>4 DEF SoftStart, TakesSlot, Foreground
    <3> QED
      BY <2>2, <3>1 DEF TakesSlot
  <2> QED
    BY <2>3, <2>4
<1>7. ASSUME NEW t \in Threads, SoftStartFails(t) PROVE SlotKept
  <2> SUFFICES ASSUME NEW v \in Threads, TakesSlot(v) PROVE TakesSlot(v)'
    BY DEF SlotKept
  <2>1. UNCHANGED <<pc, lockReleased>> /\ \A x \in Threads \ {t} : soft'[x] = soft[x]
    BY <1>7 DEF SoftStartFails, SoftGoto
  <2>2. soft[t] = "start"
    BY <1>7 DEF SoftStartFails
  <2> QED
    BY <2>1, <2>2 DEF TakesSlot, Foreground
<1>8. CASE CommandStep \/ (\E kind \in {"cancel", "probe"} : ProbeLock(kind)) \/ CancelButton \/ EvictEvent
           \/ (\E c \in 1..Len(cards) : CancelQueueButton(c)) \/ UNCHANGED vars
  <2>1. UNCHANGED <<pc, soft, lockReleased>>
    BY <1>8 DEF CommandStep, ProbeRelease, CancelPop, CancelTrigger, ProbeLock, CancelButton, EvictEvent,
                CancelQueueButton, vars, locals
  <2> QED
    BY <2>1 DEF SlotKept, TakesSlot, Foreground
<1> QED
  BY <1>2, <1>3, <1>4, <1>5, <1>6, <1>7, <1>8, ThreadKeepsSlot DEF Next, UserStep, CallbackStep

\* The core of QueueDrains.  Once a message waits in the slot beside a query in the foreground, it is
\* never left there alone: until the slot is empty some query still ends with a look at it, or the
\* callback of one is on its way to it, however the end of the query and its soft timeout
\* (_query.py 827-842 and 1385-1397) interleave with each other, with other threads, with probes that
\* take the lock and with failing starts.
THEOREM DrainSafe ==
  Spec => [][(\E t \in Threads : TakesSlot(t)) /\ pending.msg # None
               => pending'.msg = None \/ \E t \in Threads : TakesSlot(t)']_vars
<1>1. Init => FlagInv
  BY DEF Init, FlagInv
<1>2. Spec => []FlagInv
  BY <1>1, FlagStep, TypeCorrect, PTL DEF Spec
<1>3. TypeInv /\ FlagInv /\ [Next]_vars =>
        [(\E t \in Threads : TakesSlot(t)) /\ pending.msg # None
           => pending'.msg = None \/ \E t \in Threads : TakesSlot(t)']_vars
  BY SlotStep DEF SlotKept
<1> QED
  BY <1>2, <1>3, TypeCorrect, PTL DEF Spec

=============================================================================
