------------------------------ MODULE PermProofs ------------------------------
(* Proofs about PermGate, for every set of calls, every number of places for *)
(* connections and every length of the two waits.                            *)
EXTENDS PermGate, TLAPS, FiniteSetTheorems

----------------------------------------------------------------------------
(* Types, but for the bound on slots                                        *)

GateType ==
  /\ hook \in [Calls -> {"new", "started", "asked", "allowed", "denied", "killed"}]
  /\ env \subseteq Calls
  /\ conn \in [Calls -> {"none", "backlog", "done"} \cup Handling]
  /\ reply \in [Calls -> {"none", "allow", "deny", "eof"}]
  /\ serving \in {"up", "down"}
  /\ pending \subseteq Calls
  /\ isSet \subseteq pending
  /\ decision \in [Calls -> Buttons \cup {"none"}]
  /\ expired \subseteq Calls
  /\ verdict \in [Calls -> Buttons \cup {"none", "timeout"}]
  /\ card \in [Calls -> Buttons \cup {"none", "ask", "timeout"}]
  /\ yolo \in {"granted", "none"}
  /\ hookAge \in [Calls -> 0..Wait]
  /\ waitAge \in [Calls -> 0..Wait]
  /\ clicks \in Nat
  /\ lastClick \in [Calls -> Buttons \cup {"none"}]

LEMMA GateTypes == Spec => []GateType
<1> USE PermAssumption DEF GateType, Handling, Buttons
<1>1. Init => GateType
  BY DEF Init
<1>2. GateType /\ [Next]_vars => GateType'
  <2> SUFFICES ASSUME GateType, [Next]_vars PROVE GateType'
    OBVIOUS
  <2> USE DEF HookTo, ConnTo, serverVars, gateVars, userVars, ages
  <2>1. ASSUME NEW r \in Calls, HookStep(r) PROVE GateType'
    BY <2>1 DEF HookStep, HookPasses, HookRefused, HookAsks, HookReads, HookTimesOut
  <2>2. ASSUME NEW r \in Calls, AcceptStep(r) PROVE GateType'
    BY <2>2 DEF AcceptStep, Accept, AcceptFull, AcceptNoThread, Drop
  <2>3. ASSUME NEW r \in Calls, ReadAllows(r) \/ ReadRegisters(r) \/ SendCard(r) PROVE GateType'
    BY <2>3 DEF ReadAllows, ReadRegisters, SendCard, Send
  <2>4. ASSUME NEW r \in Calls, WaitReturns(r) \/ WaitExpires(r) PROVE GateType'
    BY <2>4 DEF WaitReturns, WaitExpires
  <2>5. ASSUME NEW r \in Calls, Decide(r) PROVE GateType'
    BY <2>5 DEF Decide, Verdict, Consents
  <2>6. ASSUME NEW r \in Calls, PatchCard(r) \/ Reply(r) \/ Close(r) PROVE GateType'
    BY <2>6 DEF PatchCard, Reply, Close, Send
  <2>7. ASSUME NEW r \in Calls, StartCli(r) \/ HookKilled(r) PROVE GateType'
    BY <2>7 DEF StartCli, HookKilled
  <2>8. ASSUME NEW r \in Calls, Tick(r) PROVE GateType'
    <3>1. ASSUME NEW age \in [Calls -> 0..Wait], NEW running
          PROVE  Older(age, r, running) \in [Calls -> 0..Wait]
      BY DEF Older
    <3>2. /\ hookAge' = Older(hookAge, r, hook[r] = "asked")
          /\ waitAge' = Older(waitAge, r, conn[r] = "wait")
      BY <2>8 DEF Tick
    <3>3. hookAge' \in [Calls -> 0..Wait] /\ waitAge' \in [Calls -> 0..Wait]
      BY <3>1, <3>2
    <3>4. QED
      BY <2>8, <3>3 DEF Tick
  <2>9. ASSUME NEW r \in Calls, NEW button \in Buttons, Click(r, button) PROVE GateType'
    BY <2>9 DEF Click
  <2>10. CASE AcceptRaises
    BY <2>10 DEF AcceptRaises
  <2>11. CASE Revoke
    BY <2>11 DEF Revoke
  <2>12. CASE UNCHANGED vars
    BY <2>12 DEF vars
  <2>13. QED
    BY <2>1, <2>2, <2>3, <2>4, <2>5, <2>6, <2>7, <2>8, <2>9, <2>10, <2>11, <2>12
    DEF Next, HandlerStep
<1>3. QED
  BY <1>1, <1>2, PTL DEF Spec

----------------------------------------------------------------------------
(* From the click to the exit of the hook                                   *)

Undecided == {"none", "backlog", "read", "card", "wait", "decide"}
Deciding  == {"card", "wait", "decide"}

\* The way of a consent: the last click is the decision, the decision becomes the verdict, the
\* verdict the reply and the reply the exit of the hook; and nothing is in a later place before
\* its time.
ConsentInv ==
  \A r \in Calls :
    /\ r \in pending <=> conn[r] \in Deciding
    /\ decision[r] # "none" => r \in pending /\ lastClick[r] = decision[r]
    /\ conn[r] \in Undecided => verdict[r] = "none"
    /\ verdict[r] \in Consents => lastClick[r] \in Consents
    /\ reply[r] # "none" => conn[r] \in {"closing", "done"}
    /\ reply[r] = "allow" => verdict[r] \in Consents \cup {"none"}
    /\ hook[r] \in {"new", "started"} => conn[r] = "none"
    /\ hook[r] = "allowed" => conn[r] = "none" \/ reply[r] = "allow"

LEMMA ConsentInvariant == Spec => []ConsentInv
<1> USE DEF Undecided, Deciding, Consents, Buttons, Handling
<1>1. Init => ConsentInv
  BY DEF Init, ConsentInv
<1>2. GateType /\ ConsentInv /\ [Next]_vars => ConsentInv'
  <2> SUFFICES ASSUME GateType, ConsentInv, [Next]_vars PROVE ConsentInv'
    OBVIOUS
  <2> USE DEF GateType, ConsentInv, HookTo, ConnTo, serverVars, gateVars, userVars, ages
  <2>1. ASSUME NEW r \in Calls, HookPasses(r) \/ HookRefused(r) \/ HookAsks(r) PROVE ConsentInv'
    BY <2>1 DEF HookPasses, HookRefused, HookAsks
  <2>2. ASSUME NEW r \in Calls, HookReads(r) \/ HookTimesOut(r) \/ HookKilled(r) PROVE ConsentInv'
    BY <2>2 DEF HookReads, HookTimesOut, HookKilled
  <2>3. ASSUME NEW r \in Calls, AcceptStep(r) PROVE ConsentInv'
    BY <2>3 DEF AcceptStep, Accept, AcceptFull, AcceptNoThread, Drop
  <2>4. ASSUME NEW r \in Calls, ReadAllows(r) PROVE ConsentInv'
    BY <2>4 DEF ReadAllows, Send
  <2>5. ASSUME NEW r \in Calls, ReadRegisters(r) \/ SendCard(r) PROVE ConsentInv'
    BY <2>5 DEF ReadRegisters, SendCard
  <2>6. ASSUME NEW r \in Calls, WaitReturns(r) \/ WaitExpires(r) PROVE ConsentInv'
    BY <2>6 DEF WaitReturns, WaitExpires
  <2>7. ASSUME NEW r \in Calls, Decide(r) PROVE ConsentInv'
    BY <2>7 DEF Decide, Verdict
  <2>8. ASSUME NEW r \in Calls, PatchCard(r) \/ Close(r) PROVE ConsentInv'
    BY <2>8 DEF PatchCard, Close
  <2>9. ASSUME NEW r \in Calls, Reply(r) PROVE ConsentInv'
    BY <2>9 DEF Reply, Send
  <2>10. ASSUME NEW r \in Calls, StartCli(r) \/ Tick(r) PROVE ConsentInv'
    BY <2>10 DEF StartCli, Tick
  <2>11. ASSUME NEW r \in Calls, NEW button \in Buttons, Click(r, button) PROVE ConsentInv'
    BY <2>11 DEF Click
  <2>12. CASE AcceptRaises
    BY <2>12 DEF AcceptRaises
  <2>13. CASE Revoke \/ UNCHANGED vars
    BY <2>13 DEF Revoke, vars
  <2>14. QED
    BY <2>1, <2>2, <2>3, <2>4, <2>5, <2>6, <2>7, <2>8, <2>9, <2>10, <2>11, <2>12, <2>13
    DEF Next, HookStep, HandlerStep
<1>3. QED
  BY <1>1, <1>2, GateTypes, PTL DEF Spec

\* A call the user was asked about is let through only if his last click on it, before the
\* decision was taken, was a consent; whatever else is late, lost, repeated or dead.
THEOREM ConsentSafe == Spec => []OnlyByConsent
<1>1. GateType /\ ConsentInv => OnlyByConsent
  BY DEF GateType, ConsentInv, OnlyByConsent, Undecided
<1>2. QED
  BY <1>1, GateTypes, ConsentInvariant, PTL

\* A call that has been decided is in none of the tables, and no later click puts it back.
THEOREM ResidueSafe == Spec => []NoResidue
<1>1. GateType /\ ConsentInv => NoResidue
  BY DEF GateType, ConsentInv, NoResidue, Deciding
<1>2. QED
  BY <1>1, GateTypes, ConsentInvariant, PTL

----------------------------------------------------------------------------
(* What was approved in time                                                *)

\* A reply other than an approval is none of a consent, and a hook that has denied a call has read
\* such a reply, was refused the connection, or has waited as long as it may.
ArrivalInv ==
  \A r \in Calls :
    /\ reply[r] = "deny" => verdict[r] \notin Consents
    /\ reply[r] = "eof" => verdict[r] = "none"
    /\ hook[r] = "denied" => conn[r] = "none" \/ reply[r] \in {"deny", "eof"} \/ hookAge[r] = Wait

\* A wait that is over stays over.
LEMMA OlderStays ==
  ASSUME NEW age \in [Calls -> 0..Wait], NEW q \in Calls, NEW r \in Calls, NEW running,
         age[r] = Wait
  PROVE  Older(age, q, running)[r] = Wait
  BY PermAssumption DEF Older

LEMMA ArrivalStep ==
  ASSUME GateType, ConsentInv, ArrivalInv, [Next]_vars
  PROVE  ArrivalInv'
<1> USE DEF Undecided, Consents, GateType, ConsentInv, ArrivalInv, HookTo, ConnTo, serverVars, gateVars,
            userVars, ages
<1>1. ASSUME NEW r \in Calls, HookStep(r) PROVE ArrivalInv'
  BY <1>1 DEF HookStep, HookPasses, HookRefused, HookAsks, HookReads, HookTimesOut
<1>2. ASSUME NEW r \in Calls, AcceptStep(r) PROVE ArrivalInv'
  BY <1>2 DEF AcceptStep, Accept, AcceptFull, AcceptNoThread, Drop
<1>3. ASSUME NEW r \in Calls, ReadAllows(r) \/ ReadRegisters(r) \/ SendCard(r) PROVE ArrivalInv'
  BY <1>3 DEF ReadAllows, ReadRegisters, SendCard, Send
<1>4. ASSUME NEW r \in Calls, WaitReturns(r) \/ WaitExpires(r) PROVE ArrivalInv'
  BY <1>4 DEF WaitReturns, WaitExpires
<1>5. ASSUME NEW r \in Calls, Decide(r) PROVE ArrivalInv'
  BY <1>5 DEF Decide
<1>6. ASSUME NEW r \in Calls, PatchCard(r) \/ Reply(r) \/ Close(r) PROVE ArrivalInv'
  BY <1>6 DEF PatchCard, Reply, Close, Send
<1>7. ASSUME NEW r \in Calls, StartCli(r) \/ HookKilled(r) PROVE ArrivalInv'
  BY <1>7 DEF StartCli, HookKilled
<1>8. ASSUME NEW q \in Calls, Tick(q) PROVE ArrivalInv'
  <2>1. UNCHANGED <<hook, conn, reply, verdict>>
        /\ hookAge' = Older(hookAge, q, hook[q] = "asked")
    BY <1>8 DEF Tick
  <2>2. \A r \in Calls : hookAge[r] = Wait => hookAge'[r] = Wait
    BY <2>1, OlderStays
  <2> QED
    BY <2>1, <2>2
<1>9. ASSUME NEW r \in Calls, NEW button \in Buttons, Click(r, button) PROVE ArrivalInv'
  BY <1>9 DEF Click
<1>10. CASE AcceptRaises
  BY <1>10 DEF AcceptRaises
<1>11. CASE Revoke \/ UNCHANGED vars
  BY <1>11 DEF Revoke, vars
<1> QED
  BY <1>1, <1>2, <1>3, <1>4, <1>5, <1>6, <1>7, <1>8, <1>9, <1>10, <1>11 DEF Next, HandlerStep

\* What the user has approved is carried out unless the hook, which began to wait before the thread
\* of the bridge did, has waited as long as it may; whatever is lost, fails or ends between the two.
THEOREM ApprovalSafe == Spec => []ApprovalArrives
<1>1. Init => ArrivalInv
  BY DEF Init, ArrivalInv
<1>2. GateType /\ ConsentInv /\ ArrivalInv => ApprovalArrives
  BY DEF GateType, ConsentInv, ArrivalInv, ApprovalArrives, Undecided, Consents
<1>3. GateType /\ ConsentInv /\ ArrivalInv /\ [Next]_vars => ArrivalInv'
  BY ArrivalStep
<1> QED
  BY <1>1, <1>2, <1>3, GateTypes, ConsentInvariant, PTL DEF Spec

----------------------------------------------------------------------------
(* The places for connections                                               *)

Workers == {r \in Calls : conn[r] \in Handling}

LEMMA WorkersFinite == IsFiniteSet(Workers) /\ Cardinality(Workers) \in Nat
<1>1. Workers \subseteq Calls
  BY DEF Workers
<1>2. QED
  BY <1>1, PermAssumption, FS_Subset, FS_CardinalityType

LEMMA WorkersEnter ==
  ASSUME GateType, NEW r \in Calls, conn[r] \notin Handling, NEW next \in Handling,
         ConnTo(r, next)
  PROVE  Cardinality(Workers)' = Cardinality(Workers) + 1
<1>1. Workers' = Workers \cup {r} /\ r \notin Workers
  BY DEF Workers, ConnTo, GateType
<1>2. QED
  BY <1>1, WorkersFinite, FS_AddElement

LEMMA WorkersLeave ==
  ASSUME GateType, NEW r \in Calls, conn[r] \in Handling, NEW next, next \notin Handling,
         ConnTo(r, next)
  PROVE  Cardinality(Workers)' = Cardinality(Workers) - 1
<1>1. Workers' = Workers \ {r} /\ r \in Workers
  BY DEF Workers, ConnTo, GateType
<1>2. QED
  BY <1>1, WorkersFinite, FS_RemoveElement

\* Every other step of the accept loop or of a handler leaves the thread a thread, or none.
LEMMA WorkersMove ==
  ASSUME GateType, NEW r \in Calls, NEW next, ConnTo(r, next),
         next \in Handling <=> conn[r] \in Handling
  PROVE  Workers' = Workers
  BY DEF Workers, ConnTo, GateType

LEMMA WorkersStay ==
  ASSUME UNCHANGED conn
  PROVE  Workers' = Workers
  BY DEF Workers

PlacesInv == slots \in Nat /\ slots + Cardinality(Workers) = MaxConns

LEMMA WorkersSame ==
  ASSUME PlacesInv, Workers' = Workers, UNCHANGED slots
  PROVE  PlacesInv'
  BY DEF PlacesInv

LEMMA PlacesInvariant == Spec => []PlacesInv
<1> USE PermAssumption
<1>1. Init => PlacesInv
  <2> SUFFICES ASSUME Init PROVE PlacesInv
    OBVIOUS
  <2>1. Workers = {} /\ slots = MaxConns
    BY DEF Init, Workers, Handling
  <2>2. QED
    BY <2>1, FS_EmptySet DEF PlacesInv
<1>2. GateType /\ ConsentInv /\ PlacesInv /\ [Next]_vars => PlacesInv'
  <2> SUFFICES ASSUME GateType, ConsentInv, PlacesInv, [Next]_vars PROVE PlacesInv'
    OBVIOUS
  <2> USE DEF serverVars, gateVars, userVars, ages
  <2>1. ASSUME NEW r \in Calls, Accept(r) PROVE PlacesInv'
    <3>1. slots > 0 /\ slots' = slots - 1
      BY <2>1 DEF Accept
    <3>2. conn[r] \notin Handling /\ ConnTo(r, "read") /\ "read" \in Handling
      BY <2>1 DEF Accept, Handling
    <3>3. Cardinality(Workers)' = Cardinality(Workers) + 1
      BY <3>2, WorkersEnter
    <3>4. QED
      BY <3>1, <3>3, WorkersFinite DEF PlacesInv
  <2>2. ASSUME NEW r \in Calls, Close(r) PROVE PlacesInv'
    <3>1. slots' = slots + 1
      BY <2>2 DEF Close
    <3>2. conn[r] \in Handling /\ ConnTo(r, "done") /\ "done" \notin Handling
      BY <2>2 DEF Close, Handling
    <3>3. Cardinality(Workers)' = Cardinality(Workers) - 1
      BY <3>2, WorkersLeave
    <3>4. QED
      BY <3>1, <3>3, WorkersFinite DEF PlacesInv
  <2>3. ASSUME NEW r \in Calls, AcceptFull(r) \/ AcceptNoThread(r) PROVE PlacesInv'
    <3>1. UNCHANGED slots /\ ConnTo(r, "done") /\ ("done" \in Handling <=> conn[r] \in Handling)
      BY <2>3 DEF AcceptFull, AcceptNoThread, Drop, Handling
    <3>2. QED
      BY <3>1, WorkersMove, WorkersSame
  <2>4. ASSUME NEW r \in Calls, HandlerStep(r), ~Close(r) PROVE PlacesInv'
    <3>1. UNCHANGED slots
      BY <2>4 DEF HandlerStep, ReadAllows, ReadRegisters, SendCard, WaitReturns, WaitExpires,
                  Decide, PatchCard, Reply
    <3>2. \E next \in Handling : conn[r] \in Handling /\ ConnTo(r, next)
      BY <2>4 DEF HandlerStep, ReadAllows, ReadRegisters, SendCard, WaitReturns, WaitExpires,
                  Decide, PatchCard, Reply, Handling
    <3>3. QED
      BY <3>1, <3>2, WorkersMove, WorkersSame
  <2>5. ASSUME NEW r \in Calls, HookAsks(r) PROVE PlacesInv'
    <3>1. UNCHANGED slots /\ ConnTo(r, "backlog") /\ conn[r] = "none"
      BY <2>5 DEF HookAsks, ConsentInv
    <3>2. "backlog" \in Handling <=> conn[r] \in Handling
      BY <3>1 DEF Handling
    <3>3. QED
      BY <3>1, <3>2, WorkersMove, WorkersSame
  <2>6. ASSUME NEW r \in Calls, HookStep(r), ~HookAsks(r) PROVE PlacesInv'
    BY <2>6, WorkersStay, WorkersSame
    DEF HookStep, HookPasses, HookRefused, HookReads, HookTimesOut
  <2>7. ASSUME NEW r \in Calls, StartCli(r) \/ HookKilled(r) \/ Tick(r) PROVE PlacesInv'
    BY <2>7, WorkersStay, WorkersSame DEF StartCli, HookKilled, Tick
  <2>8. ASSUME NEW r \in Calls, NEW button \in Buttons, Click(r, button) PROVE PlacesInv'
    BY <2>8, WorkersStay, WorkersSame DEF Click
  <2>9. CASE AcceptRaises
    <3>1. UNCHANGED slots
      BY <2>9 DEF AcceptRaises
    <3>2. Workers' = Workers
      BY <2>9 DEF AcceptRaises, Workers, Handling, GateType
    <3>3. QED
      BY <3>1, <3>2, WorkersSame
  <2>10. CASE Revoke \/ UNCHANGED vars
    BY <2>10, WorkersStay, WorkersSame DEF Revoke, vars
  <2>11. QED
    BY <2>1, <2>2, <2>3, <2>4, <2>5, <2>6, <2>7, <2>8, <2>9, <2>10 DEF Next, AcceptStep
<1>3. QED
  BY <1>1, <1>2, GateTypes, ConsentInvariant, PTL DEF Spec

\* Whatever is refused, fails or times out, the places that are free and the threads at work add
\* up to MaxConns.
THEOREM ConnSafe == Spec => []ConnBound
<1>1. PlacesInv => ConnBound
  BY DEF PlacesInv, ConnBound, Workers
<1>2. QED
  BY <1>1, PlacesInvariant, PTL

\* The types hold of every run; only the count keeps slots below MaxConns.
THEOREM TypeSafe == Spec => []TypeOK
<1>1. GateType /\ PlacesInv => TypeOK
  <2> SUFFICES ASSUME GateType, PlacesInv PROVE TypeOK
    OBVIOUS
  <2>1. slots \in 0..MaxConns
    BY WorkersFinite, PermAssumption DEF PlacesInv
  <2>2. QED
    BY <2>1 DEF GateType, TypeOK
<1>2. QED
  BY <1>1, GateTypes, PlacesInvariant, PTL

----------------------------------------------------------------------------
(* The way of a connection                                                  *)

\* The stages of a connection, in the order of _handle_perm_conn.
Stage(at) ==
  CASE at = "none" -> 0
    [] at = "backlog" -> 1
    [] at = "read" -> 2
    [] at = "card" -> 3
    [] at = "wait" -> 4
    [] at = "decide" -> 5
    [] at = "patch" -> 6
    [] at = "reply" -> 7
    [] at = "closing" -> 8
    [] at = "done" -> 9

Settled(r) ==
  /\ verdict[r] # "none" => verdict'[r] = verdict[r]
  /\ reply[r] # "none" => reply'[r] = reply[r]
  /\ hook[r] \in {"allowed", "denied", "killed"} => hook'[r] = hook[r]

Onward ==
  \A r \in Calls :
    /\ Stage(conn'[r]) >= Stage(conn[r])
    /\ waitAge'[r] >= waitAge[r]
    /\ Settled(r)

\* A step that moves only the connection of r, and answers or decides no call but r.
LEMMA MovesOn ==
  ASSUME GateType, ConsentInv, NEW r \in Calls,
         \E later : ConnTo(r, later) /\ Stage(later) \in Nat /\ Stage(later) > Stage(conn[r]),
         UNCHANGED <<waitAge, hook>>,
         \A q \in Calls \ {r} : verdict'[q] = verdict[q] /\ reply'[q] = reply[q],
         verdict[r] = "none" \/ verdict'[r] = verdict[r],
         reply[r] = "none" \/ reply'[r] = reply[r]
  PROVE  Onward
<1> SUFFICES ASSUME NEW q \in Calls
             PROVE  Stage(conn'[q]) >= Stage(conn[q]) /\ waitAge'[q] >= waitAge[q] /\ Settled(q)
  BY DEF Onward
<1>1. Stage(conn[q]) \in Nat /\ waitAge[q] \in Nat
  BY PermAssumption DEF GateType, Handling, Stage
<1>2. PICK later : ConnTo(r, later) /\ Stage(later) \in Nat /\ Stage(later) > Stage(conn[r])
  OBVIOUS
<1>3. conn'[q] = IF q = r THEN later ELSE conn[q]
  BY <1>2 DEF ConnTo, GateType
<1>4. Stage(conn'[q]) >= Stage(conn[q])
  BY <1>1, <1>2, <1>3
<1>5. Settled(q)
  BY DEF Settled
<1> QED
  BY <1>1, <1>4, <1>5

\* A step that leaves the connections, their clocks and what was decided and sent alone.
LEMMA StaysPut ==
  ASSUME GateType, UNCHANGED <<conn, waitAge, verdict, reply>>,
         \A q \in Calls : hook[q] \in {"allowed", "denied", "killed"} => hook'[q] = hook[q]
  PROVE  Onward
<1> SUFFICES ASSUME NEW q \in Calls
             PROVE  Stage(conn'[q]) >= Stage(conn[q]) /\ waitAge'[q] >= waitAge[q] /\ Settled(q)
  BY DEF Onward
<1>1. Stage(conn[q]) \in Nat /\ waitAge[q] \in Nat
  BY PermAssumption DEF GateType, Handling, Stage
<1> QED
  BY <1>1 DEF Settled

LEMMA OnwardStep ==
  ASSUME GateType, ConsentInv, [Next]_vars
  PROVE  Onward
<1> USE DEF GateType, ConsentInv, serverVars, gateVars, userVars, ages
<1>1. ASSUME NEW r \in Calls, HookAsks(r) PROVE Onward
  <2>1. conn[r] = "none" /\ hook[r] = "started"
    BY <1>1 DEF HookAsks
  <2> SUFFICES ASSUME NEW q \in Calls
               PROVE  Stage(conn'[q]) >= Stage(conn[q]) /\ waitAge'[q] >= waitAge[q] /\ Settled(q)
    BY DEF Onward
  <2>2. Stage(conn[q]) \in Nat /\ waitAge[q] \in Nat
    BY PermAssumption DEF Handling, Stage
  <2>3. conn'[q] = (IF q = r THEN "backlog" ELSE conn[q]) /\ waitAge' = waitAge
    BY <1>1 DEF HookAsks, ConnTo
  <2>4. Stage("none") = 0 /\ Stage("backlog") = 1
    BY DEF Stage
  <2>5. Stage(conn'[q]) >= Stage(conn[q])
    BY <2>1, <2>2, <2>3, <2>4
  <2>6. Settled(q)
    BY <1>1, <2>1 DEF HookAsks, HookTo, Settled
  <2> QED
    BY <2>2, <2>3, <2>5, <2>6
<1>2. ASSUME NEW r \in Calls, HookStep(r) \/ StartCli(r) \/ HookKilled(r), ~HookAsks(r) PROVE Onward
  <2>1. UNCHANGED <<conn, waitAge, verdict, reply>> /\ hook[r] \in {"new", "started", "asked"}
    BY <1>2 DEF HookStep, HookPasses, HookRefused, HookReads, HookTimesOut, StartCli, HookKilled
  <2>2. \A q \in Calls \ {r} : hook'[q] = hook[q]
    BY <1>2 DEF HookStep, HookPasses, HookRefused, HookReads, HookTimesOut, StartCli, HookKilled, HookTo
  <2> QED
    BY <2>1, <2>2, StaysPut
<1>3. ASSUME NEW r \in Calls, AcceptStep(r) PROVE Onward
  <2>1. conn[r] = "backlog" /\ UNCHANGED <<waitAge, hook, verdict>>
    BY <1>3 DEF AcceptStep, Accept, AcceptFull, AcceptNoThread, Drop
  <2>2. reply[r] = "none" /\ \A q \in Calls \ {r} : reply'[q] = reply[q]
    BY <1>3, <2>1 DEF AcceptStep, Accept, AcceptFull, AcceptNoThread, Drop
  <2>3. \E later \in {"read", "done"} : ConnTo(r, later)
    BY <1>3 DEF AcceptStep, Accept, AcceptFull, AcceptNoThread, Drop
  <2>4. Stage("backlog") = 1 /\ Stage("read") = 2 /\ Stage("done") = 9
    BY DEF Stage
  <2>5. \E later : ConnTo(r, later) /\ Stage(later) \in Nat /\ Stage(later) > Stage(conn[r])
    BY <2>1, <2>3, <2>4
  <2> QED
    BY <2>1, <2>2, <2>5, MovesOn
<1>4. ASSUME NEW r \in Calls, ReadAllows(r) \/ Reply(r) PROVE Onward
  <2>1. conn[r] \in {"read", "reply"} /\ ConnTo(r, "closing") /\ UNCHANGED <<waitAge, hook, verdict>>
    BY <1>4 DEF ReadAllows, Reply
  <2>2. reply[r] = "none" /\ \A q \in Calls \ {r} : reply'[q] = reply[q]
    BY <1>4, <2>1 DEF ReadAllows, Reply, Send
  <2>3. Stage("closing") \in Nat /\ Stage("closing") > Stage(conn[r])
    BY <2>1 DEF Stage
  <2> QED
    BY <2>1, <2>2, <2>3, MovesOn
<1>5. ASSUME NEW r \in Calls, Decide(r) PROVE Onward
  <2>1. conn[r] = "decide" /\ ConnTo(r, "patch") /\ UNCHANGED <<waitAge, hook, reply>>
    BY <1>5 DEF Decide
  <2>2. verdict[r] = "none" /\ \A q \in Calls \ {r} : verdict'[q] = verdict[q]
    BY <1>5, <2>1 DEF Decide, Undecided
  <2>3. Stage("patch") \in Nat /\ Stage("patch") > Stage(conn[r])
    BY <2>1 DEF Stage
  <2> QED
    BY <2>1, <2>2, <2>3, MovesOn
<1>6. ASSUME NEW r \in Calls, HandlerStep(r), ~ReadAllows(r), ~Reply(r), ~Decide(r) PROVE Onward
  <2>1. UNCHANGED <<waitAge, hook, verdict, reply>>
    BY <1>6 DEF HandlerStep, ReadRegisters, SendCard, WaitReturns, WaitExpires, PatchCard, Close
  <2>2. \/ conn[r] = "read" /\ ConnTo(r, "card")
        \/ conn[r] = "card" /\ ConnTo(r, "wait")
        \/ conn[r] = "wait" /\ ConnTo(r, "decide")
        \/ conn[r] = "patch" /\ ConnTo(r, "reply")
        \/ conn[r] = "closing" /\ ConnTo(r, "done")
    BY <1>6 DEF HandlerStep, ReadRegisters, SendCard, WaitReturns, WaitExpires, PatchCard, Close
  <2>3. \E later : ConnTo(r, later) /\ Stage(later) \in Nat /\ Stage(later) > Stage(conn[r])
    BY <2>2 DEF Stage
  <2> QED
    BY <2>1, <2>3, MovesOn
<1>7. ASSUME NEW r \in Calls, Tick(r) PROVE Onward
  <2> SUFFICES ASSUME NEW q \in Calls
               PROVE  Stage(conn'[q]) >= Stage(conn[q]) /\ waitAge'[q] >= waitAge[q] /\ Settled(q)
    BY DEF Onward
  <2>1. UNCHANGED <<conn, hook, verdict, reply>> /\ waitAge' = Older(waitAge, r, conn[r] = "wait")
    BY <1>7 DEF Tick
  <2>2. Stage(conn[q]) \in Nat /\ waitAge[q] \in Nat
    BY PermAssumption DEF Handling, Stage
  <2>3. waitAge' = waitAge \/ waitAge' = [waitAge EXCEPT ![r] = waitAge[r] + 1]
    BY <2>1 DEF Older
  <2>4. waitAge'[q] \in {waitAge[q], waitAge[q] + 1}
    BY <2>3
  <2> QED
    BY <2>1, <2>2, <2>4 DEF Settled
<1>8. CASE AcceptRaises
  <2> SUFFICES ASSUME NEW q \in Calls
               PROVE  Stage(conn'[q]) >= Stage(conn[q]) /\ waitAge'[q] >= waitAge[q] /\ Settled(q)
    BY DEF Onward
  <2>1. UNCHANGED <<hook, verdict, waitAge>>
    BY <1>8 DEF AcceptRaises
  <2>2. Stage(conn[q]) \in Nat /\ waitAge[q] \in Nat
    BY PermAssumption DEF Handling, Stage
  <2>3. \/ conn'[q] = conn[q] /\ reply'[q] = reply[q]
        \/ conn[q] = "backlog" /\ conn'[q] = "done" /\ reply[q] = "none"
    BY <1>8 DEF AcceptRaises
  <2>4. Stage("backlog") = 1 /\ Stage("done") = 9
    BY DEF Stage
  <2>5. Stage(conn'[q]) >= Stage(conn[q])
    BY <2>2, <2>3, <2>4
  <2>6. Settled(q)
    BY <2>1, <2>3 DEF Settled
  <2> QED
    BY <2>1, <2>2, <2>5, <2>6
<1>9. CASE (\E r \in Calls, button \in Buttons : Click(r, button)) \/ Revoke \/ UNCHANGED vars
  <2>1. UNCHANGED <<conn, waitAge, verdict, reply, hook>>
    BY <1>9 DEF Click, Revoke, vars
  <2> QED
    BY <2>1, StaysPut
<1> QED
  BY <1>1, <1>2, <1>3, <1>4, <1>5, <1>6, <1>7, <1>8, <1>9 DEF Next

\* The core of PlacesComeBack, and more: a call is taken up, decided and answered at most once.  Its
\* connection only moves towards its end, the clock of its wait is never set back (a second click,
\* a card that fails or a hook that is gone does not start the five minutes anew), a verdict is not
\* overturned, and what is in the socket for the hook is not written twice (perm.py 196-274).
THEOREM OnwardSafe == Spec => [][Onward]_vars
<1>1. GateType /\ ConsentInv /\ [Next]_vars => [Onward]_vars
  BY OnwardStep
<1> QED
  BY <1>1, GateTypes, ConsentInvariant, PTL DEF Spec

=============================================================================
