---------------------------- MODULE FailoverProofs ----------------------------
(***************************************************************************)
(* Proofs about Failover: its types, which need that routing and the chain *)
(* always name a backend; where a failing query may go; and that one query *)
(* cannot disable a backend by transient failures.                         *)
(***************************************************************************)
EXTENDS Failover, WellFoundedInduction, TLAPS

----------------------------------------------------------------------------
(* Routing                                                                 *)

\* A nonempty set of numbers has a least one.
LEMMA LeastNat ==
  ASSUME NEW T \in SUBSET Nat, T # {}
  PROVE  \E m \in T : \A n \in T : m <= n
<1> DEFINE R == {ss \in Nat \X Nat : ss[1] < ss[2]}
<1>1. IsWellFoundedOn(R, Nat)
  BY NatLessThanWellFounded, Zenon DEF OpToRel
<1> HIDE DEF R
<1>2. PICK m \in T : \A n \in T : <<n, m>> \notin R
  BY <1>1, WFMin, Zenon
<1>3. ASSUME NEW n \in T PROVE m <= n
  <2>1. n \in Nat /\ m \in Nat
    OBVIOUS
  <2>2. n < m => <<n, m>> \in R
    <3>1. <<n, m>> \in Nat \X Nat /\ <<n, m>>[1] = n /\ <<n, m>>[2] = m
      BY <2>1
    <3>2. QED
      BY <3>1, Zenon DEF R
  <2>3. QED
    BY <2>1, <2>2, <1>2
<1>4. QED
  BY <1>3

\* The first of some backends is one of them.
LEMMA FirstOfIn ==
  ASSUME NEW S \in SUBSET Backends, S # {}
  PROVE  FirstOf(S) \in S
<1> DEFINE T == {Place[b] : b \in S}
<1>1. T \in SUBSET Nat /\ T # {}
  BY RoutingAssumption
<1>2. PICK m \in T : \A n \in T : m <= n
  BY <1>1, LeastNat, Zenon
<1>3. PICK b \in S : m = Place[b]
  BY <1>2
<1>4. \A c \in S : Place[b] <= Place[c]
  BY <1>2, <1>3
<1>5. QED
  BY <1>4, Zenon DEF FirstOf

LEMMA FirstOfType ==
  ASSUME NEW S \in SUBSET Backends
  PROVE  FirstOf(S) \in S \cup {None} /\ (S = {} <=> FirstOf(S) = None)
BY FirstOfIn, RoutingAssumption DEF FirstOf

\* The first choice that names a backend is one of the choices.
LEMMA FirstSomeIn ==
  ASSUME NEW B, NEW choices \in Seq(B \cup {None})
  PROVE  /\ FirstSome(choices) \in B \cup {None}
         /\ (\E i \in DOMAIN choices : choices[i] # None) =>
              \E i \in DOMAIN choices : FirstSome(choices) = choices[i] /\ choices[i] # None
<1> DEFINE T == {i \in DOMAIN choices : choices[i] # None}
<1>1. CASE T = {}
  BY <1>1 DEF FirstSome
<1>2. CASE T # {}
  <2>1. T \in SUBSET Nat
    OBVIOUS
  <2>2. PICK m \in T : \A n \in T : m <= n
    BY <1>2, <2>1, LeastNat, Zenon
  <2>3. \A j \in DOMAIN choices : j < m => choices[j] = None
    BY <2>1, <2>2
  <2> DEFINE i == CHOOSE k \in DOMAIN choices :
                    choices[k] # None /\ \A j \in DOMAIN choices : j < k => choices[j] = None
  <2>4. i \in DOMAIN choices /\ choices[i] # None
    BY <2>2, <2>3, Zenon
  <2>5. FirstSome(choices) = choices[i]
    BY <1>2, Zenon DEF FirstSome
  <2> HIDE DEF i
  <2>6. QED
    BY <2>4, <2>5
<1>3. QED
  BY <1>1, <1>2

LEMMA HeadOfIn ==
  ASSUME NEW S \in SUBSET Backends, S # {}
  PROVE  HeadOf(S) \in S
<1> DEFINE a == FirstOf(S \cap Tagged("tools") \cap Cli)
           b == FirstOf(S \cap Tagged("tools"))
           c == FirstOf(S)
<1>1. a \in S \cup {None} /\ b \in S \cup {None}
  BY FirstOfType, Zenon
<1>2. c \in S /\ c # None
  BY FirstOfIn, RoutingAssumption, Zenon
<1> HIDE DEF a, b, c
<1>3. <<a, b, c>> \in Seq(S \cup {None}) /\ <<a, b, c>>[3] = c /\ 3 \in DOMAIN <<a, b, c>>
  BY <1>1, <1>2
<1>4. PICK i \in DOMAIN <<a, b, c>> :
        FirstSome(<<a, b, c>>) = <<a, b, c>>[i] /\ <<a, b, c>>[i] # None
  BY <1>2, <1>3, FirstSomeIn, Zenon
<1>5. FirstSome(<<a, b, c>>) \in S \cup {None}
  BY <1>3, FirstSomeIn, Zenon
<1>6. HeadOf(S) = FirstSome(<<a, b, c>>)
  BY DEF HeadOf, a, b, c
<1>7. QED
  BY <1>4, <1>5, <1>6
LEMMA ResolveType ==
  ASSUME NEW r \in RequestType, NEW h \in SUBSET Backends
  PROVE  ResolveBackend(r, h) \in Backends \cup {None, Unavailable}
<1> DEFINE docs   == "tools" \in r.needs
           forced == IF r.force = None THEN {} ELSE r.force \cap h
           C(b)   == IF b \in h /\ (docs => b \in Tagged("tools")) THEN b ELSE None
           ch     == OrchestratorChain(h)
           c1 == IF "vision" \in r.needs THEN GetByTag("vision", h) ELSE None
           c2 == IF docs THEN GetByTag("tools", h) ELSE None
           c5 == IF docs THEN HeadOf(ch \cap Tagged("tools")) ELSE None
           c6 == HeadOf(ch)
           c7 == FirstOf(h)
           BN == Backends \cup {None}
<1>1. forced \in SUBSET Backends
  BY DEF RequestType
<1>2. \A tag : GetByTag(tag, h) \in BN
  BY FirstOfType DEF GetByTag
<1>3. ch \in SUBSET Backends /\ ch \cap Tagged("tools") \in SUBSET Backends
  BY DEF OrchestratorChain
<1>4. \A S \in SUBSET Backends : HeadOf(S) \in BN
  <2> TAKE S \in SUBSET Backends
  <2>1. CASE S # {}
    BY <2>1, HeadOfIn
  <2>2. CASE S = {}
    <3>1. /\ FirstOf(S \cap Tagged("tools") \cap Cli) = None
          /\ FirstOf(S \cap Tagged("tools")) = None
          /\ FirstOf(S) = None
      BY <2>2 DEF FirstOf
    <3>2. \A i \in DOMAIN <<None, None, None>> : <<None, None, None>>[i] = None
      OBVIOUS
    <3>3. FirstSome(<<None, None, None>>) = None
      BY <3>2, Zenon DEF FirstSome
    <3>4. QED
      BY <3>1, <3>3, Zenon DEF HeadOf
  <2>3. QED
    BY <2>1, <2>2
<1>5. C(Preferred) \in BN /\ C(Default) \in BN
  BY RoutingAssumption
<1>6. c1 \in BN /\ c2 \in BN /\ c5 \in BN /\ c6 \in BN /\ c7 \in BN
  BY <1>2, <1>3, <1>4, FirstOfType, Zenon
<1> DEFINE cp == C(Preferred)
           cd == C(Default)
<1>7. ResolveBackend(r, h) =
        IF forced # {} THEN FirstOf(forced)
        ELSE IF r.locked # None THEN IF r.locked \in h THEN r.locked ELSE Unavailable
        ELSE FirstSome(<<c1, c2, cp, cd, c5, c6, c7>>)
  BY Zenon DEF ResolveBackend
<1> HIDE DEF c1, c2, cp, cd, c5, c6, c7
<1>8. <<c1, c2, cp, cd, c5, c6, c7>> \in Seq(BN)
  BY <1>5, <1>6 DEF cp, cd
<1>9. FirstSome(<<c1, c2, cp, cd, c5, c6, c7>>) \in BN
  BY <1>8, FirstSomeIn, Zenon
<1> HIDE DEF forced
<1>10. forced # {} => FirstOf(forced) \in BN
  BY <1>1, FirstOfType, Zenon
<1>11. QED
  BY <1>7, <1>9, <1>10

----------------------------------------------------------------------------
(* Types, and the course of a query                                        *)

CourseOf(q) ==
  /\ pc[q] \in Calling \cup {"failed"} => at[q] \in Backends
  /\ pc[q] \in {"calling", "failed"} => at[q] \in tried[q]
  /\ pc[q] \in {"new", "routed", "legacy"} => tried[q] = {}
  /\ pc[q] \in {"loop", "calling", "failed"} =>
       tried[q] \subseteq chain[q] /\ chain[q] \subseteq Orchestrators \cup {primary[q]}
  /\ pc[q] # "failed" => why[q] # "host"
  /\ pc[q] # "done" => ending[q] = "none"

Course == \A q \in Queries : CourseOf(q)

LEMMA PlainType == Plain \in RequestType
BY DEF Plain, RequestType

LEMMA InitTypes == Init => TypeOK /\ Course
<1> SUFFICES ASSUME Init PROVE TypeOK /\ Course
  OBVIOUS
<1>1. request \in [Queries -> RequestType]
  BY PlainType DEF Init
<1>2. TypeOK
  BY <1>1 DEF Init, TypeOK
<1>3. Course
  BY DEF Init, Course, CourseOf, Calling
<1>4. QED
  BY <1>2, <1>3

LEMMA RecordTypes ==
  ASSUME TypeOK, NEW b \in Backends, NEW q \in Queries, NEW category, NEW threshold,
         RecordFailure(b, q, category, threshold) \/ RecordSuccess(b) \/ UNCHANGED healthVars
  PROVE  /\ healthy' \subseteq Backends
         /\ window' \in [Backends -> Seq(Queries)]
         /\ resting' \subseteq Backends
<1>1. window[b] \in Seq(Queries) /\ Append(window[b], q) \in Seq(Queries)
  BY DEF TypeOK
<1>2. [window EXCEPT ![b] = Append(@, q)] \in [Backends -> Seq(Queries)]
  BY <1>1 DEF TypeOK
<1>3. CASE RecordFailure(b, q, category, threshold)
  BY <1>2, <1>3, Zenon DEF TypeOK, RecordFailure
<1>4. CASE RecordSuccess(b)
  BY <1>4 DEF TypeOK, RecordSuccess
<1>5. CASE UNCHANGED healthVars
  BY <1>5 DEF TypeOK, healthVars
<1>6. QED
  BY <1>3, <1>4, <1>5

LEMMA EndsTypes ==
  ASSUME TypeOK, NEW q \in Queries, NEW how, Ends(q, how),
         how \in {"answered", "cancelled", "timeout", "error", "exhausted", "unavailable"},
         healthy' \subseteq Backends, window' \in [Backends -> Seq(Queries)],
         resting' \subseteq Backends, UNCHANGED <<probe, up>>
  PROVE  TypeOK'
<1>1. request' \in [Queries -> RequestType]
  BY PlainType DEF TypeOK, Ends
<1>2. /\ pc' \in [Queries -> {"new", "routed", "loop", "failed", "done"} \cup Calling]
      /\ primary' \in [Queries -> Backends \cup {None}]
      /\ at' \in [Queries -> Backends \cup {None}]
      /\ why' \in [Queries -> Failures \cup {"none"}]
  BY DEF TypeOK, Ends
<1>3. chain' \in [Queries -> SUBSET Backends] /\ tried' \in [Queries -> SUBSET Backends]
  BY DEF TypeOK, Ends
<1>4. ending' \in [Queries -> {"none", "answered", "cancelled", "timeout", "error", "exhausted",
                               "unavailable"}]
  BY DEF TypeOK, Ends
<1>5. QED
  BY <1>1, <1>2, <1>3, <1>4 DEF TypeOK

LEMMA NextOfIn ==
  ASSUME TypeOK, NEW q \in Queries, Untried(q) # {}
  PROVE  NextOf(q) \in Untried(q) /\ NextOf(q) \in Backends
<1>1. Untried(q) \in SUBSET Backends
  BY DEF TypeOK, Untried
<1>2. HeadOf(Untried(q)) \in Untried(q)
  BY <1>1, HeadOfIn
<1>3. QED
  BY <1>1, <1>2 DEF NextOf

LEMMA ChainOfIn ==
  ASSUME TypeOK, NEW q \in Queries
  PROVE  ChainOf(q) \subseteq Backends /\ ChainOf(q) \subseteq Orchestrators \cup {primary[q]}
BY RoutingAssumption DEF TypeOK, ChainOf, OrchestratorChain

LEMMA QueryTypes ==
  ASSUME TypeOK, Course, NEW q \in Queries, QueryStep(q)
  PROVE  TypeOK'
<1>1. CASE Route(q)
  <2>1. PICK r \in Requests :
          \/ ResolveBackend(r, healthy) = Unavailable /\ Ends(q, "unavailable")
          \/ /\ ResolveBackend(r, healthy) # Unavailable
             /\ request' = [request EXCEPT ![q] = r]
             /\ primary' = [primary EXCEPT ![q] = ResolveBackend(r, healthy)]
             /\ pc' = [pc EXCEPT ![q] = "routed"]
             /\ UNCHANGED <<chain, tried, at, why, ending>>
    BY <1>1, Zenon DEF Route
  <2>2. UNCHANGED <<healthVars, probe, up>>
    BY <1>1 DEF Route
  <2>3. r \in RequestType /\ healthy \in SUBSET Backends
    BY FailoverAssumption DEF TypeOK
  <2>4. ResolveBackend(r, healthy) \in Backends \cup {None, Unavailable}
    BY <2>3, ResolveType
  <2>5. CASE Ends(q, "unavailable")
    BY <2>2, <2>5, EndsTypes DEF TypeOK, healthVars
  <2>6. CASE /\ ResolveBackend(r, healthy) # Unavailable
             /\ request' = [request EXCEPT ![q] = r]
             /\ primary' = [primary EXCEPT ![q] = ResolveBackend(r, healthy)]
             /\ pc' = [pc EXCEPT ![q] = "routed"]
             /\ UNCHANGED <<chain, tried, at, why, ending>>
    BY <2>2, <2>3, <2>4, <2>6 DEF TypeOK, healthVars
  <2>7. QED
    BY <2>1, <2>5, <2>6
<1>2. CASE BuildChain(q)
  <2>1. chain' \in [Queries -> SUBSET Backends]
    BY <1>2, ChainOfIn DEF BuildChain, TypeOK
  <2>2. /\ pc' \in [Queries -> {"new", "routed", "loop", "failed", "done"} \cup Calling]
        /\ at' \in [Queries -> Backends \cup {None}]
    <3>1. \/ pc' = [pc EXCEPT ![q] = "legacy"] /\ at' = [at EXCEPT ![q] = Legacy]
          \/ pc' = [pc EXCEPT ![q] = "loop"] /\ at' = at
      BY <1>2 DEF BuildChain
    <3>2. Legacy \in Backends
      BY FailoverAssumption
    <3>3. pc \in [Queries -> {"new", "routed", "loop", "failed", "done"} \cup Calling]
      BY DEF TypeOK
    <3>4. at \in [Queries -> Backends \cup {None}]
      BY DEF TypeOK
    <3>5. pc' \in [Queries -> {"new", "routed", "loop", "failed", "done"} \cup Calling]
      BY <3>1, <3>3 DEF Calling
    <3>6. at' \in [Queries -> Backends \cup {None}]
      BY <3>1, <3>2, <3>4
    <3>7. QED
      BY <3>5, <3>6
  <2>3. QED
    BY <1>2, <2>1, <2>2 DEF BuildChain, TypeOK, healthVars
<1>3. CASE Attempt(q)
  <2>1. NextOf(q) \in Backends
    BY <1>3, NextOfIn DEF Attempt
  <2> HIDE DEF NextOf
  <2>2. /\ pc' \in [Queries -> {"new", "routed", "loop", "failed", "done"} \cup Calling]
        /\ at' \in [Queries -> Backends \cup {None}]
    BY <1>3, <2>1 DEF Attempt, TypeOK, Calling
  <2>3. tried' \in [Queries -> SUBSET Backends]
    BY <1>3, <2>1 DEF Attempt, TypeOK
  <2>4. QED
    BY <1>3, <2>2, <2>3 DEF Attempt, TypeOK, healthVars
<1>4. CASE GiveUp(q)
  BY <1>4, EndsTypes DEF GiveUp, TypeOK, healthVars
<1>5. CASE CallReturns(q)
  <2>1. at[q] \in Backends
    BY <1>5 DEF CallReturns, Course, CourseOf
  <2>2. QED
    BY <1>5, <2>1, RecordTypes, EndsTypes DEF CallReturns
<1>6. CASE CallCancelled(q)
  BY <1>6, EndsTypes DEF CallCancelled, TypeOK, healthVars
<1>7. CASE CallTimesOut(q)
  <2>1. at[q] \in Backends
    BY <1>7 DEF CallTimesOut, Course, CourseOf
  <2>2. QED
    BY <1>7, <2>1, RecordTypes, EndsTypes DEF CallTimesOut
<1>8. CASE CallFails(q)
  <2>1. at[q] \in Backends
    BY <1>8 DEF CallFails, Course, CourseOf
  <2>2. PICK category \in Failures :
          /\ \/ RecordFailure(at[q], q, category, RunnerThreshold)
             \/ UNCHANGED healthVars
          /\ \/ pc[q] = "legacy" /\ Ends(q, "error")
             \/ /\ pc[q] = "calling"
                /\ why' = [why EXCEPT ![q] = category]
                /\ pc' = [pc EXCEPT ![q] = "failed"]
                /\ UNCHANGED <<request, primary, chain, tried, at, ending>>
    BY <1>8, Zenon DEF CallFails
  <2>3. /\ healthy' \subseteq Backends
        /\ window' \in [Backends -> Seq(Queries)]
        /\ resting' \subseteq Backends
    BY <2>1, <2>2, RecordTypes
  <2>4. UNCHANGED <<probe, up>>
    BY <1>8 DEF CallFails
  <2>5. CASE Ends(q, "error")
    BY <2>3, <2>4, <2>5, EndsTypes
  <2>6. CASE /\ why' = [why EXCEPT ![q] = category]
             /\ pc' = [pc EXCEPT ![q] = "failed"]
             /\ UNCHANGED <<request, primary, chain, tried, at, ending>>
    BY <2>3, <2>4, <2>6 DEF TypeOK, Calling
  <2>7. QED
    BY <2>2, <2>5, <2>6
<1>9. CASE NextOrRaise(q)
  <2>1. at[q] \in Backends
    BY <1>9 DEF NextOrRaise, Course, CourseOf
  <2>2. /\ healthy' \subseteq Backends
        /\ window' \in [Backends -> Seq(Queries)]
        /\ resting' \subseteq Backends
    BY <1>9, <2>1, RecordTypes DEF NextOrRaise
  <2>3. CASE Ends(q, "error")
    BY <1>9, <2>2, <2>3, EndsTypes DEF NextOrRaise
  <2>4. CASE ~Ends(q, "error")
    BY <1>9, <2>2, <2>4 DEF NextOrRaise, TypeOK, Calling
  <2>5. QED
    BY <2>3, <2>4
<1>10. QED
  BY <1>1, <1>2, <1>3, <1>4, <1>5, <1>6, <1>7, <1>8, <1>9 DEF QueryStep

\* A step of the health record, the probes or the providers leaves the queries alone.
HealthStep ==
  \/ HealthTick
  \/ \E b \in Backends : ProbeStep(b) \/ Expire(b) \/ Rest(b) \/ Break(b) \/ Repair(b)

LEMMA HealthTypes ==
  ASSUME TypeOK, HealthStep
  PROVE  TypeOK' /\ UNCHANGED queryVars
<1>1. CASE HealthTick
  BY <1>1 DEF HealthTick, TypeOK, queryVars, healthVars
<1>2. ASSUME NEW b \in Backends, ProbeSpec(b) PROVE TypeOK' /\ UNCHANGED queryVars
  <2>1. ProbeResults(b) \subseteq {"none", "sent", "ok", "failed", "unsure"}
    BY DEF ProbeResults
  <2>2. QED
    BY <1>2, <2>1 DEF ProbeSpec, TypeOK, queryVars, healthVars
<1>3. ASSUME NEW b \in Backends, SetProbeResult(b) PROVE TypeOK' /\ UNCHANGED queryVars
  <2>1. healthy' \subseteq Backends
    BY <1>3 DEF SetProbeResult, TypeOK
  <2>2. QED
    BY <1>3, <2>1 DEF SetProbeResult, TypeOK, queryVars
<1>4. ASSUME NEW b \in Backends, Expire(b) PROVE TypeOK' /\ UNCHANGED queryVars
  <2>1. Tail(window[b]) \in Seq(Queries)
    BY <1>4 DEF Expire, TypeOK
  <2>2. window' \in [Backends -> Seq(Queries)]
    BY <1>4, <2>1 DEF Expire, TypeOK
  <2>3. QED
    BY <1>4, <2>2 DEF Expire, TypeOK, queryVars
<1>5. ASSUME NEW b \in Backends, Rest(b) \/ Break(b) \/ Repair(b)
      PROVE  TypeOK' /\ UNCHANGED queryVars
  BY <1>5 DEF Rest, Break, Repair, TypeOK, queryVars, healthVars
<1>6. QED
  BY <1>1, <1>2, <1>3, <1>4, <1>5 DEF HealthStep, ProbeStep

\* What a step of one query leaves of another.
OthersStay(q) ==
  \A p \in Queries \ {q} :
    /\ pc'[p] = pc[p] /\ primary'[p] = primary[p] /\ chain'[p] = chain[p]
    /\ tried'[p] = tried[p] /\ at'[p] = at[p] /\ why'[p] = why[p] /\ ending'[p] = ending[p]

LEMMA EndsCourse ==
  ASSUME TypeOK, NEW q \in Queries, NEW how, Ends(q, how)
  PROVE  OthersStay(q) /\ CourseOf(q)' /\ pc'[q] = "done"
BY DEF TypeOK, Ends, OthersStay, CourseOf, Calling

LEMMA QueryCourse ==
  ASSUME TypeOK, Course, NEW q \in Queries, QueryStep(q)
  PROVE  OthersStay(q) /\ CourseOf(q)'
<1> USE DEF OthersStay
<1>0. CourseOf(q)
  BY DEF Course
<1>1. CASE Route(q)
  <2>1. CASE Ends(q, "unavailable")
    BY <2>1, EndsCourse
  <2>2. CASE ~Ends(q, "unavailable")
    <3>1. /\ pc[q] = "new" /\ pc' = [pc EXCEPT ![q] = "routed"]
          /\ \E r \in Backends \cup {None, Unavailable} \cup {ResolveBackend(x, healthy) : x \in Requests} :
               primary' = [primary EXCEPT ![q] = r]
          /\ UNCHANGED <<chain, tried, at, why, ending>>
      BY <1>1, <2>2 DEF Route
    <3>2. QED
      BY <1>0, <3>1 DEF TypeOK, CourseOf, Calling
  <2>3. QED
    BY <2>1, <2>2
<1>2. CASE BuildChain(q)
  <2>1. pc[q] = "routed" /\ UNCHANGED <<primary, tried, why, ending>>
        /\ chain' = [chain EXCEPT ![q] = ChainOf(q)]
    BY <1>2 DEF BuildChain
  <2>2. \/ pc' = [pc EXCEPT ![q] = "legacy"] /\ at' = [at EXCEPT ![q] = Legacy]
        \/ pc' = [pc EXCEPT ![q] = "loop"] /\ at' = at
    BY <1>2 DEF BuildChain
  <2>3. ChainOf(q) \subseteq Orchestrators \cup {primary[q]}
    BY ChainOfIn
  <2>4. QED
    BY <1>0, <2>1, <2>2, <2>3, FailoverAssumption DEF TypeOK, CourseOf, Calling
<1>3. CASE Attempt(q)
  <2>1. NextOf(q) \in Backends /\ NextOf(q) \in chain[q]
    BY <1>3, NextOfIn DEF Attempt, Untried
  <2>2. /\ pc[q] = "loop" /\ pc' = [pc EXCEPT ![q] = "calling"]
        /\ at' = [at EXCEPT ![q] = NextOf(q)]
        /\ tried' = [tried EXCEPT ![q] = @ \cup {NextOf(q)}]
        /\ UNCHANGED <<primary, chain, why, ending>>
    BY <1>3 DEF Attempt
  <2>3. QED
    BY <1>0, <2>1, <2>2 DEF TypeOK, CourseOf, Calling
<1>4. CASE GiveUp(q)
  BY <1>4, EndsCourse DEF GiveUp
<1>5. CASE CallReturns(q) \/ CallCancelled(q) \/ CallTimesOut(q)
  BY <1>5, EndsCourse DEF CallReturns, CallCancelled, CallTimesOut
<1>6. CASE CallFails(q)
  <2>1. CASE Ends(q, "error")
    BY <2>1, EndsCourse
  <2>2. CASE ~Ends(q, "error")
    <3>1. /\ pc[q] = "calling" /\ pc' = [pc EXCEPT ![q] = "failed"]
          /\ \E category \in Failures : why' = [why EXCEPT ![q] = category]
          /\ UNCHANGED <<primary, chain, tried, at, ending>>
      BY <1>6, <2>2 DEF CallFails
    <3>2. QED
      BY <1>0, <3>1 DEF TypeOK, CourseOf, Calling
  <2>3. QED
    BY <2>1, <2>2
<1>7. CASE NextOrRaise(q)
  <2>1. CASE Ends(q, "error")
    BY <2>1, EndsCourse
  <2>2. CASE ~Ends(q, "error")
    <3>1. /\ pc[q] = "failed" /\ why[q] # "host" /\ pc' = [pc EXCEPT ![q] = "loop"]
          /\ UNCHANGED <<primary, chain, tried, at, why, ending>>
      BY <1>7, <2>2 DEF NextOrRaise
    <3>2. QED
      BY <1>0, <3>1 DEF TypeOK, CourseOf, Calling
  <2>3. QED
    BY <2>1, <2>2
<1>8. QED
  BY <1>1, <1>2, <1>3, <1>4, <1>5, <1>6, <1>7 DEF QueryStep

----------------------------------------------------------------------------
(* The entries of a query in a window                                      *)

AtMost0(w, q) == \A i \in DOMAIN w : w[i] # q
AtMost1(w, q) == \A i, j \in DOMAIN w : w[i] = q /\ w[j] = q => i = j
AtMost2(w, q) == \A i, j, k \in DOMAIN w : Distinct(i, j, k) => ~(w[i] = q /\ w[j] = q /\ w[k] = q)

\* The elements of a sequence that one more is appended to, and of its tail.
LEMMA Appended ==
  ASSUME NEW S, NEW w \in Seq(S), NEW e \in S
  PROVE  /\ \A i \in DOMAIN Append(w, e) :
              \/ i \in DOMAIN w /\ Append(w, e)[i] = w[i]
              \/ i = Len(w) + 1 /\ i \notin DOMAIN w /\ Append(w, e)[i] = e
OBVIOUS

LEMMA Shortened ==
  ASSUME NEW S, NEW w \in Seq(S), w # <<>>
  PROVE  \A i \in DOMAIN Tail(w) : i + 1 \in DOMAIN w /\ Tail(w)[i] = w[i + 1] /\ i \in Nat
OBVIOUS

LEMMA AtMostWeaker ==
  ASSUME NEW w, NEW q
  PROVE  (AtMost0(w, q) => AtMost1(w, q)) /\ (AtMost1(w, q) => AtMost2(w, q))
BY Zenon DEF AtMost0, AtMost1, AtMost2, Distinct

LEMMA AppendSame ==
  ASSUME NEW S, NEW w \in Seq(S), NEW q \in S
  PROVE  /\ AtMost0(w, q) => AtMost1(Append(w, q), q)
         /\ AtMost1(w, q) => AtMost2(Append(w, q), q)
<1> DEFINE v == Append(w, q)
<1>1. \A i \in DOMAIN v : \/ i \in DOMAIN w /\ v[i] = w[i]
                          \/ i = Len(w) + 1 /\ v[i] = q
  BY Appended
<1> HIDE DEF v
<1>2. AtMost0(w, q) => AtMost1(v, q)
  BY <1>1, Zenon DEF AtMost0, AtMost1
<1>3. AtMost1(w, q) => AtMost2(v, q)
  BY <1>1, Zenon DEF AtMost1, AtMost2, Distinct
<1>4. QED
  BY <1>2, <1>3 DEF v

LEMMA AppendOther ==
  ASSUME NEW S, NEW w \in Seq(S), NEW p \in S, NEW q, p # q
  PROVE  /\ AtMost0(w, q) => AtMost0(Append(w, p), q)
         /\ AtMost1(w, q) => AtMost1(Append(w, p), q)
         /\ AtMost2(w, q) => AtMost2(Append(w, p), q)
<1> DEFINE v == Append(w, p)
<1>0. \A i \in DOMAIN v : \/ i \in DOMAIN w /\ v[i] = w[i]
                          \/ i = Len(w) + 1 /\ v[i] = p
  BY Appended
<1> HIDE DEF v
<1>1. \A i \in DOMAIN v : v[i] = q => i \in DOMAIN w /\ w[i] = q
  BY <1>0
<1>2. AtMost0(w, q) => AtMost0(v, q)
  BY <1>1, Zenon DEF AtMost0
<1>3. AtMost1(w, q) => AtMost1(v, q)
  BY <1>1, Zenon DEF AtMost1
<1>4. AtMost2(w, q) => AtMost2(v, q)
  BY <1>1, Zenon DEF AtMost2
<1>5. QED
  BY <1>2, <1>3, <1>4 DEF v

LEMMA TailKeeps ==
  ASSUME NEW S, NEW w \in Seq(S), w # <<>>, NEW q
  PROVE  /\ AtMost0(w, q) => AtMost0(Tail(w), q)
         /\ AtMost1(w, q) => AtMost1(Tail(w), q)
         /\ AtMost2(w, q) => AtMost2(Tail(w), q)
<1> DEFINE v == Tail(w)
<1>1. \A i \in DOMAIN v : i \in Nat /\ i + 1 \in DOMAIN w /\ v[i] = w[i + 1]
  BY Shortened
<1> HIDE DEF v
<1>2. AtMost0(w, q) => AtMost0(v, q)
  BY <1>1 DEF AtMost0
<1>3. AtMost1(w, q) => AtMost1(v, q)
  BY <1>1 DEF AtMost1
<1>4. AtMost2(w, q) => AtMost2(v, q)
  BY <1>1 DEF AtMost2, Distinct
<1>5. QED
  BY <1>2, <1>3, <1>4 DEF v

\* A query has no entry for a backend it has not finished calling, one before the loop has recorded
\* its failure, and two from then on.
EntriesOf(b, q) ==
  /\ AtMost2(window[b], q)
  /\ pc[q] # "done" /\ b \notin tried[q] => AtMost0(window[b], q)
  /\ pc[q] = "calling" /\ at[q] = b => AtMost0(window[b], q)
  /\ pc[q] = "failed" /\ at[q] = b => AtMost1(window[b], q)

Entries == \A b \in Backends, q \in Queries : EntriesOf(b, q)

\* What a query's step does to a window: nothing, or an entry of its own for the backend it called.
Recorded(q) ==
  \A b \in Backends : \/ window'[b] = window[b]
                      \/ b = at[q] /\ window'[b] = Append(window[b], q)

LEMMA RecordFailureRecords ==
  ASSUME TypeOK, NEW q \in Queries, NEW category, NEW threshold, at[q] \in Backends,
         \/ RecordFailure(at[q], q, category, threshold)
         \/ RecordSuccess(at[q])
         \/ UNCHANGED healthVars
  PROVE  Recorded(q)
BY DEF TypeOK, RecordFailure, RecordSuccess, healthVars, Recorded

LEMMA QueryRecords ==
  ASSUME TypeOK, Course, NEW q \in Queries, QueryStep(q)
  PROVE  Recorded(q)
<1>1. CASE UNCHANGED healthVars
  BY <1>1 DEF healthVars, Recorded
<1>2. CASE Route(q) \/ BuildChain(q) \/ Attempt(q) \/ GiveUp(q) \/ CallCancelled(q)
  BY <1>1, <1>2 DEF Route, BuildChain, Attempt, GiveUp, CallCancelled
<1>3. CASE CallReturns(q) \/ CallTimesOut(q) \/ CallFails(q) \/ NextOrRaise(q)
  <2>1. at[q] \in Backends
    BY <1>3 DEF CallReturns, CallTimesOut, CallFails, NextOrRaise, Course, CourseOf
  <2>2. QED
    BY <1>3, <2>1, RecordFailureRecords DEF CallReturns, CallTimesOut, CallFails, NextOrRaise
<1>4. QED
  BY <1>2, <1>3 DEF QueryStep

LEMMA OtherEntries ==
  ASSUME TypeOK, Entries, NEW q \in Queries, OthersStay(q), Recorded(q),
         NEW p \in Queries \ {q}, NEW b \in Backends
  PROVE  EntriesOf(b, p)'
<1>1. EntriesOf(b, p)
  BY DEF Entries
<1>2. pc'[p] = pc[p] /\ tried'[p] = tried[p] /\ at'[p] = at[p]
  BY DEF OthersStay
<1>3. window[b] \in Seq(Queries)
  BY DEF TypeOK
<1>4. CASE window'[b] = window[b]
  BY <1>1, <1>2, <1>4, Zenon DEF EntriesOf
<1>5. CASE window'[b] = Append(window[b], q)
  <2>1. /\ AtMost0(window[b], p) => AtMost0(window'[b], p)
        /\ AtMost1(window[b], p) => AtMost1(window'[b], p)
        /\ AtMost2(window[b], p) => AtMost2(window'[b], p)
    BY <1>3, <1>5, AppendOther
  <2>2. QED
    BY <1>1, <1>2, <2>1, Zenon DEF EntriesOf
<1>6. QED
  BY <1>4, <1>5 DEF Recorded

\* The levels of a query's own entries rise by one with each record.
LEMMA OwnWindow ==
  ASSUME TypeOK, NEW q \in Queries, Recorded(q), NEW b \in Backends
  PROVE  /\ b # at[q] => window'[b] = window[b]
         /\ AtMost0(window[b], q) => AtMost1(window'[b], q) /\ AtMost2(window'[b], q)
         /\ AtMost1(window[b], q) => AtMost2(window'[b], q)
<1>1. window[b] \in Seq(Queries)
  BY DEF TypeOK
<1>2. b # at[q] => window'[b] = window[b]
  BY DEF Recorded
<1>3. CASE window'[b] = window[b]
  BY <1>2, <1>3, AtMostWeaker, Zenon
<1>4. CASE window'[b] = Append(window[b], q)
  <2>1. /\ AtMost0(window[b], q) => AtMost1(window'[b], q)
        /\ AtMost1(window[b], q) => AtMost2(window'[b], q)
    BY <1>1, <1>4, AppendSame
  <2>2. QED
    BY <1>2, <2>1, AtMostWeaker, Zenon
<1>5. QED
  BY <1>3, <1>4 DEF Recorded

\* A query that ends has recorded at most once more, for a backend it had fewer than two entries for.
LEMMA EndsEntries ==
  ASSUME TypeOK, Course, Entries, NEW q \in Queries, Recorded(q), pc'[q] = "done",
         \/ healthVars' = healthVars
         \/ pc[q] \in Calling \cup {"failed"},
         NEW b \in Backends
  PROVE  EntriesOf(b, q)'
<1>1. EntriesOf(b, q) /\ CourseOf(q)
  BY DEF Entries, Course
<1> SUFFICES AtMost2(window'[b], q)
  BY Zenon DEF EntriesOf
<1>2. CASE window'[b] = window[b]
  BY <1>1, <1>2, Zenon DEF EntriesOf
<1>3. CASE window'[b] # window[b]
  <2>1. b = at[q]
    BY <1>3, OwnWindow
  <2>2. pc[q] \in Calling \cup {"failed"}
    BY <1>3 DEF healthVars
  <2>3. CASE pc[q] = "calling"
    BY <1>1, <2>1, <2>3, OwnWindow, Zenon DEF EntriesOf
  <2>4. CASE pc[q] = "failed"
    BY <1>1, <2>1, <2>4, OwnWindow, Zenon DEF EntriesOf
  <2>5. CASE pc[q] = "legacy"
    <3>1. b \notin tried[q] /\ pc[q] # "done"
      BY <1>1, <2>5 DEF CourseOf
    <3>2. AtMost0(window[b], q)
      BY <1>1, <3>1, Zenon DEF EntriesOf
    <3>3. QED
      BY <3>2, OwnWindow, Zenon
  <2>6. QED
    BY <2>2, <2>3, <2>4, <2>5 DEF Calling
<1>4. QED
  BY <1>2, <1>3

LEMMA OwnEntries ==
  ASSUME TypeOK, Course, Entries, NEW q \in Queries, QueryStep(q), NEW b \in Backends
  PROVE  EntriesOf(b, q)'
<1>0. /\ EntriesOf(b, q) /\ CourseOf(q) /\ Recorded(q)
      /\ pc \in [Queries -> {"new", "routed", "loop", "failed", "done"} \cup Calling]
      /\ at \in [Queries -> Backends \cup {None}] /\ tried \in [Queries -> SUBSET Backends]
  BY QueryRecords DEF Entries, Course, TypeOK
<1>1. CASE Route(q)
  <2>1. CASE Ends(q, "unavailable")
    BY <1>0, <1>1, <2>1, EndsCourse, EndsEntries DEF Route
  <2>2. CASE ~Ends(q, "unavailable")
    <3>1. /\ pc[q] = "new" /\ pc'[q] = "routed" /\ tried' = tried /\ window' = window
      BY <1>0, <1>1, <2>2 DEF Route, healthVars
    <3>2. QED
      BY <1>0, <3>1, Zenon DEF EntriesOf
  <2>3. QED
    BY <2>1, <2>2
<1>2. CASE BuildChain(q)
  <2>1. /\ pc[q] = "routed" /\ pc'[q] \in {"legacy", "loop"} /\ tried' = tried
        /\ window' = window
    BY <1>0, <1>2 DEF BuildChain, healthVars
  <2>2. pc'[q] # "calling" /\ pc'[q] # "failed" /\ pc[q] # "done"
    BY <2>1
  <2>3. QED
    BY <1>0, <2>1, <2>2, Zenon DEF EntriesOf
<1>3. CASE Attempt(q)
  <2>1. NextOf(q) \notin tried[q]
    BY <1>3, NextOfIn DEF Attempt, Untried
  <2>2. /\ pc[q] = "loop" /\ pc'[q] = "calling" /\ window' = window
        /\ at'[q] = NextOf(q) /\ tried'[q] = tried[q] \cup {NextOf(q)}
    BY <1>0, <1>3 DEF Attempt, healthVars
  <2>3. QED
    BY <1>0, <2>1, <2>2 DEF EntriesOf
<1>4. CASE GiveUp(q)
  BY <1>0, <1>4, EndsCourse, EndsEntries DEF GiveUp
<1>5. CASE CallReturns(q) \/ CallCancelled(q) \/ CallTimesOut(q)
  BY <1>0, <1>5, EndsCourse, EndsEntries DEF CallReturns, CallCancelled, CallTimesOut
<1>6. CASE CallFails(q)
  <2>1. CASE Ends(q, "error")
    BY <1>0, <1>6, <2>1, EndsCourse, EndsEntries DEF CallFails
  <2>2. CASE ~Ends(q, "error")
    <3>1. pc[q] = "calling" /\ pc'[q] = "failed" /\ at' = at /\ tried' = tried
      BY <1>0, <1>6, <2>2 DEF CallFails
    <3>2. at[q] \in tried[q]
      BY <1>0, <3>1 DEF CourseOf
    <3>3. CASE b = at[q]
      <4>1. AtMost1(window'[b], q) /\ AtMost2(window'[b], q)
        BY <1>0, <3>1, <3>3, OwnWindow, Zenon DEF EntriesOf
      <4>2. QED
        BY <3>1, <3>2, <3>3, <4>1, Zenon DEF EntriesOf
    <3>4. CASE b # at[q]
      BY <1>0, <3>1, <3>4, OwnWindow, Zenon DEF EntriesOf
    <3>5. QED
      BY <3>3, <3>4
  <2>3. QED
    BY <2>1, <2>2
<1>7. CASE NextOrRaise(q)
  <2>1. CASE Ends(q, "error")
    BY <1>0, <1>7, <2>1, EndsCourse, EndsEntries DEF NextOrRaise
  <2>2. CASE ~Ends(q, "error")
    <3>1. pc[q] = "failed" /\ pc'[q] = "loop" /\ at' = at /\ tried' = tried
      BY <1>0, <1>7, <2>2 DEF NextOrRaise
    <3>2. at[q] \in tried[q]
      BY <1>0, <3>1 DEF CourseOf
    <3>3. CASE b = at[q]
      <4>1. AtMost2(window'[b], q)
        BY <1>0, <3>1, <3>3, OwnWindow, Zenon DEF EntriesOf
      <4>2. QED
        BY <3>1, <3>2, <3>3, <4>1, Zenon DEF EntriesOf
    <3>4. CASE b # at[q]
      BY <1>0, <3>1, <3>4, OwnWindow, Zenon DEF EntriesOf
    <3>5. QED
      BY <3>3, <3>4
  <2>3. QED
    BY <2>1, <2>2
<1>8. QED
  BY <1>1, <1>2, <1>3, <1>4, <1>5, <1>6, <1>7 DEF QueryStep

LEMMA InitEntries == Init => Entries
<1> SUFFICES ASSUME Init, NEW b \in Backends, NEW q \in Queries PROVE EntriesOf(b, q)
  BY DEF Entries
<1>1. window[b] = <<>>
  BY DEF Init
<1>2. AtMost0(window[b], q)
  BY <1>1 DEF AtMost0
<1>3. QED
  BY <1>2, AtMostWeaker, Zenon DEF EntriesOf

LEMMA HealthEntries ==
  ASSUME TypeOK, Entries, HealthStep
  PROVE  Entries'
<1> SUFFICES ASSUME NEW b \in Backends, NEW q \in Queries PROVE EntriesOf(b, q)'
  BY DEF Entries
<1>1. EntriesOf(b, q) /\ window[b] \in Seq(Queries)
  BY DEF Entries, TypeOK
<1>2. pc' = pc /\ tried' = tried /\ at' = at
  BY HealthTypes DEF queryVars
<1>3. window'[b] = window[b] \/ (window[b] # <<>> /\ window'[b] = Tail(window[b]))
  BY DEF HealthStep, HealthTick, ProbeStep, ProbeSpec, SetProbeResult, Expire, Rest, Break, Repair,
         TypeOK, healthVars
<1>4. CASE window'[b] = window[b]
  BY <1>1, <1>2, <1>4, Zenon DEF EntriesOf
<1>5. CASE window[b] # <<>> /\ window'[b] = Tail(window[b])
  <2>1. /\ AtMost0(window[b], q) => AtMost0(window'[b], q)
        /\ AtMost1(window[b], q) => AtMost1(window'[b], q)
        /\ AtMost2(window[b], q) => AtMost2(window'[b], q)
    BY <1>1, <1>5, TailKeeps
  <2>2. QED
    BY <1>1, <1>2, <2>1, Zenon DEF EntriesOf
<1>6. QED
  BY <1>3, <1>4, <1>5

----------------------------------------------------------------------------
(* The theorems                                                            *)

IInv == TypeOK /\ Course /\ Entries

LEMMA StepInvariant == IInv /\ [Next]_vars => IInv'
<1> SUFFICES ASSUME TypeOK, Course, Entries, [Next]_vars PROVE TypeOK' /\ Course' /\ Entries'
  BY DEF IInv
<1>1. ASSUME NEW q \in Queries, QueryStep(q) PROVE TypeOK' /\ Course' /\ Entries'
  <2>1. OthersStay(q) /\ CourseOf(q)' /\ Recorded(q) /\ TypeOK'
    BY <1>1, QueryCourse, QueryRecords, QueryTypes
  <2>2. ASSUME NEW p \in Queries PROVE CourseOf(p)'
    <3>1. CASE p = q
      BY <2>1, <3>1
    <3>2. CASE p # q
      <4>1. CourseOf(p)
        BY DEF Course
      <4>2. /\ pc'[p] = pc[p] /\ primary'[p] = primary[p] /\ chain'[p] = chain[p]
            /\ tried'[p] = tried[p] /\ at'[p] = at[p] /\ why'[p] = why[p] /\ ending'[p] = ending[p]
        BY <2>1, <3>2 DEF OthersStay
      <4>3. QED
        BY <4>1, <4>2 DEF CourseOf
    <3>3. QED
      BY <3>1, <3>2
  <2>3. ASSUME NEW p \in Queries, NEW b \in Backends PROVE EntriesOf(b, p)'
    <3>1. CASE p = q
      BY <1>1, <3>1, OwnEntries
    <3>2. CASE p # q
      BY <2>1, <3>2, OtherEntries
    <3>3. QED
      BY <3>1, <3>2
  <2>4. QED
    BY <2>1, <2>2, <2>3 DEF Course, Entries
<1>2. CASE HealthStep
  <2>1. TypeOK' /\ UNCHANGED queryVars
    BY <1>2, HealthTypes
  <2>2. Course'
    BY <2>1 DEF queryVars, Course, CourseOf
  <2>3. QED
    BY <1>2, <2>1, <2>2, HealthEntries
<1>3. CASE UNCHANGED vars
  <2>1. UNCHANGED queryVars /\ UNCHANGED healthVars /\ UNCHANGED <<probe, up>>
    BY <1>3 DEF vars
  <2>2. TypeOK'
    BY <2>1 DEF TypeOK, queryVars, healthVars
  <2>3. Course'
    BY <2>1 DEF queryVars, Course, CourseOf
  <2>4. Entries'
    BY <2>1 DEF queryVars, healthVars, Entries, EntriesOf
  <2>5. QED
    BY <2>2, <2>3, <2>4
<1>4. QED
  BY <1>1, <1>2, <1>3 DEF Next, HealthStep

THEOREM Invariant == Spec => []IInv
<1>1. Init => IInv
  BY InitTypes, InitEntries DEF IInv
<1>2. QED
  BY <1>1, StepInvariant, PTL DEF Spec

\* Every query, whatever backends it meets, keeps to the types: in particular routing and the chain
\* never yield something that is not a backend.
THEOREM TypeSafe == Spec => []TypeOK
<1>1. IInv => TypeOK
  BY DEF IInv
<1>2. QED
  BY <1>1, Invariant, PTL

\* Failing over never reaches a worker that the query was not routed to.
THEOREM WorkersSafe == Spec => []WorkersSpared
<1>1. IInv => WorkersSpared
  BY DEF IInv, Course, CourseOf, WorkersSpared
<1>2. QED
  BY <1>1, Invariant, PTL

\* No backend is tried after a kill by the OS, a timeout or a cancellation.
THEOREM HostSafe == Spec => HostStops
<1>1. IInv /\ [Next]_vars =>
        [\A q \in Queries : pc'[q] = "calling" /\ pc[q] # "calling" =>
           why[q] # "host" /\ ending[q] = "none"]_vars
  <2> SUFFICES ASSUME IInv, Next, NEW q \in Queries, pc'[q] = "calling", pc[q] # "calling"
               PROVE  why[q] # "host" /\ ending[q] = "none"
    OBVIOUS
  <2>1. TypeOK /\ Course /\ CourseOf(q)
    BY DEF IInv, Course
  <2>2. CASE HealthStep
    BY <2>1, <2>2, HealthTypes DEF queryVars
  <2>3. ASSUME NEW p \in Queries, QueryStep(p) PROVE pc[q] = "loop"
    <3>1. p = q
      BY <2>1, <2>3, QueryCourse DEF OthersStay
    <3>2. pc \in [Queries -> {"new", "routed", "loop", "failed", "done"} \cup Calling]
      BY <2>1 DEF TypeOK
    <3>3. CASE Attempt(q)
      BY <3>3 DEF Attempt
    <3>4. CASE ~Attempt(q)
      BY <2>3, <3>1, <3>2, <3>4
         DEF QueryStep, Route, BuildChain, GiveUp, CallReturns, CallCancelled, CallTimesOut,
             CallFails, NextOrRaise, Ends
    <3>5. QED
      BY <3>3, <3>4
  <2>4. QED
    BY <2>1, <2>2, <2>3 DEF Next, HealthStep, CourseOf
<1>2. QED
  BY <1>1, Invariant, PTL DEF Spec, HostStops

\* Both together: failing over reaches nobody it must not reach and stops when it must.
THEOREM FailsOverSafe == Spec => FailsOverRight
  BY WorkersSafe, HostSafe, PTL DEF FailsOverRight

\* A query never has more than two entries in the window of a backend.
THEOREM EntriesSafe == Spec => []TwoEntries
<1>1. IInv => TwoEntries
  <2> SUFFICES ASSUME IInv, NEW b \in Backends, NEW i \in DOMAIN window[b],
                      NEW j \in DOMAIN window[b], NEW k \in DOMAIN window[b], Distinct(i, j, k),
                      window[b][i] = window[b][j], window[b][j] = window[b][k]
               PROVE  FALSE
    BY Zenon DEF TwoEntries
  <2>1. window[b] \in Seq(Queries)
    BY DEF IInv, TypeOK
  <2>2. window[b][i] \in Queries
    BY <2>1
  <2>3. AtMost2(window[b], window[b][i])
    BY <2>2, Zenon DEF IInv, Entries, EntriesOf
  <2>4. QED
    BY <2>3, Zenon DEF AtMost2
<1>2. QED
  BY <1>1, Invariant, PTL

\* A failure that a query records can disable a backend as transient only at the threshold.
LEMMA FlipAtThreshold ==
  ASSUME TypeOK, Course, NEW q \in Queries, QueryStep(q), NEW b \in Backends, TransientFlip(b)
  PROVE  \/ Len(window[b]) + 1 >= RunnerThreshold /\ window'[b] = Append(window[b], q)
         \/ Len(window[b]) + 1 >= LoopThreshold /\ window'[b] = Append(window[b], q)
<1>1. window[b] \in Seq(Queries) /\ b \in healthy /\ b \notin healthy' /\ window'[b] # window[b]
  BY DEF TypeOK, TransientFlip
<1>2. ~UNCHANGED healthVars /\ ~RecordSuccess(at[q])
  BY <1>1 DEF healthVars, RecordSuccess
<1>3. ASSUME NEW category, NEW threshold, RecordFailure(at[q], q, category, threshold)
      PROVE  Len(window[b]) + 1 >= threshold /\ window'[b] = Append(window[b], q)
  <2>1. category = "transient" /\ window' = [window EXCEPT ![at[q]] = Append(@, q)]
    BY <1>1, <1>3 DEF RecordFailure
  <2>2. b = at[q]
    BY <1>1, <2>1 DEF TypeOK
  <2>3. window'[b] = Append(window[b], q)
    BY <2>1, <2>2 DEF TypeOK
  <2>4. Len(window[b]) + 1 >= threshold
    BY <1>1, <1>3, <2>1, <2>2 DEF RecordFailure
  <2>5. QED
    BY <2>3, <2>4
<1>4. CASE CallTimesOut(q) \/ CallFails(q)
  <2>1. \E category : RecordFailure(at[q], q, category, RunnerThreshold)
    BY <1>2, <1>4 DEF CallTimesOut, CallFails
  <2>2. QED
    BY <2>1, <1>3
<1>5. CASE NextOrRaise(q)
  <2>1. RecordFailure(at[q], q, why[q], LoopThreshold)
    BY <1>5 DEF NextOrRaise
  <2>2. QED
    BY <2>1, <1>3
<1>6. CASE Route(q) \/ BuildChain(q) \/ Attempt(q) \/ GiveUp(q) \/ CallCancelled(q)
  BY <1>2, <1>6 DEF Route, BuildChain, Attempt, GiveUp, CallCancelled
<1>7. CASE CallReturns(q)
  BY <1>2, <1>7 DEF CallReturns
<1>8. QED
  BY <1>4, <1>5, <1>6, <1>7 DEF QueryStep

\* With thresholds of three or more, as in the default configuration, the transient failures of one
\* query alone never disable a backend, although each call of it is recorded twice.
THEOREM HiccupSafe ==
  ASSUME RunnerThreshold >= 3, LoopThreshold >= 3
  PROVE  Spec => HiccupTolerated
<1>1. IInv /\ IInv' /\ [Next]_vars =>
        [\A b \in Backends : TransientFlip(b) =>
           \E i, j \in DOMAIN window'[b] : window'[b][i] # window'[b][j]]_vars
  <2> SUFFICES ASSUME IInv, IInv', Next, NEW b \in Backends, TransientFlip(b)
               PROVE  \E i, j \in DOMAIN window'[b] : window'[b][i] # window'[b][j]
    OBVIOUS
  <2>1. TypeOK /\ Course /\ TypeOK' /\ Entries'
    BY DEF IInv
  <2>2. ~HealthStep
    BY <2>1 DEF TransientFlip, HealthStep, HealthTick, ProbeStep, ProbeSpec, SetProbeResult, Expire,
                Rest, Break, Repair, healthVars
  <2>3. PICK q \in Queries : QueryStep(q)
    BY <2>2 DEF Next, HealthStep
  <2>4. Len(window[b]) + 1 >= 3 /\ window'[b] = Append(window[b], q)
    <3>1. window[b] \in Seq(Queries) /\ RunnerThreshold \in Nat /\ LoopThreshold \in Nat
      BY <2>1, FailoverAssumption DEF TypeOK
    <3>2. QED
      BY <2>1, <2>3, <3>1, FlipAtThreshold
  <2>5. window'[b] \in Seq(Queries) /\ Len(window'[b]) >= 3
    BY <2>1, <2>4 DEF TypeOK
  <2>6. 1 \in DOMAIN window'[b] /\ 2 \in DOMAIN window'[b] /\ 3 \in DOMAIN window'[b]
    BY <2>5
  <2>7. window'[b][1] \in Queries
    BY <2>5, <2>6
  <2>8. AtMost2(window'[b], window'[b][1])
    BY <2>1, <2>7 DEF Entries, EntriesOf
  <2>9. Distinct(1, 2, 3)
    BY DEF Distinct
  <2> DEFINE w == window'[b]
  <2> HIDE DEF w
  <2>10. ~(w[1] = w[1] /\ w[2] = w[1] /\ w[3] = w[1])
    <3>1. AtMost2(w, w[1]) /\ 1 \in DOMAIN w /\ 2 \in DOMAIN w /\ 3 \in DOMAIN w
      BY <2>6, <2>8 DEF w
    <3>2. QED
      BY <2>9, <3>1, Zenon DEF AtMost2
  <2>11. w[2] # w[1] \/ w[3] # w[1]
    BY <2>10
  <2>12. QED
    BY <2>6, <2>11 DEF w
<1>2. QED
  BY <1>1, Invariant, PTL DEF Spec, HiccupTolerated

----------------------------------------------------------------------------
(* What the record keeps of the backends.  A result that was taken before a *)
(* backend broke or came back may be recorded after it; Slow ones excepted, *)
(* nothing else makes the record say what is not so.                        *)

\* The record knows that b does not work, and no older result will say otherwise.
KnownDown(b) == b \notin up /\ b \notin Slow /\ b \notin healthy /\ probe[b] # "ok"

\* The same of a backend that works.
KnownUp(b) == b \in up /\ b \notin Slow /\ b \in healthy /\ probe[b] # "failed"

\* A call of a query to b ends in this step, or the loop of the query records that it failed.
CallRecorded(b) ==
  \E q \in Queries : pc[q] \in Calling \cup {"failed"} /\ at[q] = b /\ pc'[q] # pc[q]

Remembered(b) ==
  /\ KnownDown(b) => KnownDown(b)' \/ b \in up'
  /\ KnownUp(b) => KnownUp(b)' \/ b \notin up' \/ CallRecorded(b)

LEMMA QueryRemembers ==
  ASSUME TypeOK, Course, NEW q \in Queries, QueryStep(q), NEW b \in Backends
  PROVE  Remembered(b)
<1>1. UNCHANGED <<probe, up>>
  BY DEF QueryStep, Route, BuildChain, Attempt, GiveUp, CallReturns, CallCancelled, CallTimesOut,
         CallFails, NextOrRaise
<1>2. CASE b \in healthy' <=> b \in healthy
  BY <1>1, <1>2 DEF Remembered, KnownDown, KnownUp
<1>3. CASE b \in healthy' /\ b \notin healthy
  <2>1. CallReturns(q) /\ at[q] = b
    BY <1>3 DEF QueryStep, Route, BuildChain, Attempt, GiveUp, CallReturns, CallCancelled,
                CallTimesOut, CallFails, NextOrRaise, healthVars, RecordSuccess, RecordFailure
  <2>2. b \in up
    BY <2>1 DEF CallReturns
  <2> QED
    BY <1>3, <2>2 DEF Remembered, KnownDown, KnownUp
<1>4. CASE b \notin healthy' /\ b \in healthy
  <2>1. (CallTimesOut(q) \/ CallFails(q) \/ NextOrRaise(q)) /\ at[q] = b
    BY <1>4 DEF QueryStep, Route, BuildChain, Attempt, GiveUp, CallReturns, CallCancelled,
                CallTimesOut, CallFails, NextOrRaise, healthVars, RecordSuccess, RecordFailure
  <2>2. pc[q] \in Calling \cup {"failed"} /\ pc'[q] # pc[q]
    BY <2>1 DEF CallTimesOut, CallFails, NextOrRaise, Ends, Calling, TypeOK
  <2>3. CallRecorded(b)
    BY <2>1, <2>2 DEF CallRecorded
  <2> QED
    BY <1>4, <2>3 DEF Remembered, KnownDown
<1> QED
  BY <1>2, <1>3, <1>4

LEMMA HealthRemembers ==
  ASSUME TypeOK, HealthStep, NEW b \in Backends
  PROVE  Remembered(b)
<1> USE DEF TypeOK, Remembered, KnownDown, KnownUp
<1>1. CASE HealthTick
  <2>1. UNCHANGED <<up, healthy>> /\ probe'[b] \in {"sent", "none"}
    BY <1>1 DEF HealthTick, healthVars
  <2> QED
    BY <2>1
<1>2. ASSUME NEW c \in Backends, ProbeSpec(c) PROVE Remembered(b)
  <2>1. UNCHANGED <<up, healthy>> /\ \E result \in ProbeResults(c) : probe' = [probe EXCEPT ![c] = result]
    BY <1>2 DEF ProbeSpec, healthVars
  <2>2. c = b /\ b \notin Slow => probe'[b] = IF b \in up THEN "ok" ELSE "failed"
    BY <2>1 DEF ProbeResults
  <2>3. c # b => probe'[b] = probe[b]
    BY <2>1
  <2> QED
    BY <2>1, <2>2, <2>3
<1>3. ASSUME NEW c \in Backends, SetProbeResult(c) PROVE Remembered(b)
  <2>1. up' = up /\ probe'[b] = IF b = c THEN "none" ELSE probe[b]
    BY <1>3 DEF SetProbeResult
  <2>2. c # b => (b \in healthy' <=> b \in healthy)
    BY <1>3 DEF SetProbeResult
  <2>3. c = b /\ probe[b] # "ok" /\ b \notin healthy => b \notin healthy'
    BY <1>3 DEF SetProbeResult
  <2>4. c = b /\ probe[b] # "failed" /\ b \in healthy => b \in healthy'
    BY <1>3 DEF SetProbeResult
  <2> QED
    BY <2>1, <2>2, <2>3, <2>4
<1>4. ASSUME NEW c \in Backends, Expire(c) \/ Rest(c) \/ Break(c) \/ Repair(c) PROVE Remembered(b)
  <2>1. UNCHANGED <<healthy, probe>>
    BY <1>4 DEF Expire, Rest, Break, Repair, healthVars
  <2>2. (b \in up' <=> b \in up) \/ (b \notin up' /\ b \in up) \/ (b \in up' /\ b \notin up)
    OBVIOUS
  <2> QED
    BY <2>1, <2>2
<1> QED
  BY <1>1, <1>2, <1>3, <1>4 DEF HealthStep, ProbeStep

\* The core of HealthFollows.  Once an outage is found out it stays found out until the backend works
\* again: no query, no probe of another backend and no failure that expires brings it back.  And a
\* backend that is known to work loses its health only by a call to it that failed
\* (backend_registry.py 406-528, config.py 481-510, model_probe.py 485-520).
THEOREM HealthSafe == Spec => [][\A b \in Backends : Remembered(b)]_vars
<1>1. IInv /\ [Next]_vars => [\A b \in Backends : Remembered(b)]_vars
  BY QueryRemembers, HealthRemembers DEF IInv, Next, HealthStep
<1>2. QED
  BY <1>1, Invariant, PTL DEF Spec

=============================================================================
