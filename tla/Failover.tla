------------------------------- MODULE Failover -------------------------------
(***************************************************************************)
(* Queries on their way through the backends (_query.py), the record of    *)
(* the backends' health that they share (backend_registry.py), and the     *)
(* probes that correct it (config.py, model_probe.py).  A failing call is  *)
(* recorded twice, by the runner's wrapper and by the loop of the query;   *)
(* both count.  Time is left out: an entry of the window may expire and a  *)
(* backend may come to rest at any moment.                                 *)
(***************************************************************************)
EXTENDS Routing, Sequences, FiniteSets

CONSTANTS
  Queries,
  Requests,          \* the messages that occur
  Legacy,            \* the backend of the chat's model, used when the chain is empty
  RunnerThreshold,   \* BACKEND_TRANSIENT_THRESHOLD, which the wrappers pass
  LoopThreshold,     \* the default of record_call_failure, which the loop uses
  Slow,              \* the backends whose probes may run into a timeout or not connect
  Steady             \* backends that never break (in a small instance)

ASSUME FailoverAssumption ==
  /\ Requests \subseteq RequestType
  /\ Legacy \in Backends
  /\ RunnerThreshold \in Nat \ {0} /\ LoopThreshold \in Nat \ {0}
  /\ Slow \subseteq Backends /\ Steady \subseteq Backends

VARIABLES
  pc,        \* where the query is
  request,   \* what it was asked
  primary,   \* primary_spec
  chain,     \* the backends of its chain, and
  tried,     \* those it has tried
  at,        \* attempt_spec
  why,       \* category of its last failure
  ending,    \* how it ended
  healthy,   \* the backends with healthy = True
  window,    \* failure_window of each: the queries whose failures are in it
  resting,   \* the backends not used or probed for the interval that their health asks for
  probe,     \* the probe of each: "sent", or its result until it is recorded
  up         \* the backends that really work

queryVars  == <<pc, request, primary, chain, tried, at, why, ending>>
healthVars == <<healthy, window, resting>>
vars == <<queryVars, healthVars, probe, up>>

----------------------------------------------------------------------------
Calling  == {"calling", "legacy"}
Failures == {"transient",  \* TRANSIENT
             "instant",    \* AUTH, QUOTA, MODEL_NOT_FOUND
             "host"}       \* TIMEOUT, USER_CANCEL: killed by the OS, or the wording of a cancellation

TypeOK ==
  /\ pc \in [Queries -> {"new", "routed", "loop", "failed", "done"} \cup Calling]
  /\ request \in [Queries -> RequestType]
  /\ primary \in [Queries -> Backends \cup {None}]
  /\ chain \in [Queries -> SUBSET Backends]
  /\ tried \in [Queries -> SUBSET Backends]
  /\ at \in [Queries -> Backends \cup {None}]
  /\ why \in [Queries -> Failures \cup {"none"}]
  /\ ending \in [Queries -> {"none", "answered", "cancelled", "timeout", "error", "exhausted",
                             "unavailable"}]
  /\ healthy \subseteq Backends
  /\ window \in [Backends -> Seq(Queries)]
  /\ resting \subseteq Backends
  /\ probe \in [Backends -> {"none", "sent", "ok", "failed", "unsure"}]
  /\ up \subseteq Backends

Plain == [force |-> None, needs |-> {}, locked |-> None]

\* health_check has looked for the commands and keys, and run_probes_async has been called.
Init ==
  /\ pc = [q \in Queries |-> "new"]
  /\ request = [q \in Queries |-> Plain]
  /\ primary = [q \in Queries |-> None]
  /\ chain = [q \in Queries |-> {}]
  /\ tried = [q \in Queries |-> {}]
  /\ at = [q \in Queries |-> None]
  /\ why = [q \in Queries |-> "none"]
  /\ ending = [q \in Queries |-> "none"]
  /\ healthy \in SUBSET Backends
  /\ window = [b \in Backends |-> <<>>]
  /\ resting = {}
  /\ probe = [b \in Backends |-> "sent"]
  /\ up \in SUBSET Backends /\ Steady \subseteq up

----------------------------------------------------------------------------
(* record_call_success and record_call_failure                             *)

RecordSuccess(b) ==
  /\ healthy' = healthy \cup {b}
  /\ resting' = resting \ {b}
  /\ UNCHANGED window

\* mutant: the count that is compared includes the entry twice.
RecordFailureEarly(b, q, category, threshold) ==
  /\ resting' = resting \ {b}
  /\ window' = IF category = "transient" THEN [window EXCEPT ![b] = Append(@, q)] ELSE window
  /\ healthy' = IF \/ category = "instant"
                   \/ category = "transient" /\ Len(window[b]) + 2 >= threshold
                THEN healthy \ {b} ELSE healthy

RecordFailure(b, q, category, threshold) ==
  /\ resting' = resting \ {b}
  /\ window' = IF category = "transient" THEN [window EXCEPT ![b] = Append(@, q)] ELSE window
  /\ healthy' = IF \/ category = "instant"
                   \/ category = "transient" /\ Len(window[b]) + 1 >= threshold
                THEN healthy \ {b} ELSE healthy

\* An entry older than the window no longer counts.
Expire(b) ==
  /\ window[b] # <<>>
  /\ window' = [window EXCEPT ![b] = Tail(@)]
  /\ UNCHANGED <<queryVars, healthy, resting, probe, up>>

----------------------------------------------------------------------------
(* The way of a query                                                      *)

\* _do_query is left, and its local variables are gone.
Ends(q, how) ==
  /\ pc' = [pc EXCEPT ![q] = "done"]
  /\ ending' = [ending EXCEPT ![q] = how]
  /\ request' = [request EXCEPT ![q] = Plain]
  /\ primary' = [primary EXCEPT ![q] = None]
  /\ chain' = [chain EXCEPT ![q] = {}]
  /\ tried' = [tried EXCEPT ![q] = {}]
  /\ at' = [at EXCEPT ![q] = None]
  /\ why' = [why EXCEPT ![q] = "none"]

Route(q) ==
  /\ pc[q] = "new"
  /\ \E r \in Requests :
       LET b == ResolveBackend(r, healthy)
       IN  \/ b = Unavailable /\ Ends(q, "unavailable")
           \/ /\ b # Unavailable
              /\ request' = [request EXCEPT ![q] = r]
              /\ primary' = [primary EXCEPT ![q] = b]
              /\ pc' = [pc EXCEPT ![q] = "routed"]
              /\ UNCHANGED <<chain, tried, at, why, ending>>
  /\ UNCHANGED <<healthVars, probe, up>>

\* The health may have changed since: a primary backend that is unhealthy by now is not in the
\* chain.  The backend that a command asked for is alone in it.
ChainOf(q) ==
  LET first == {primary[q]} \cap healthy
  IN  IF request[q].force # None /\ first # {} THEN first
      ELSE OrchestratorChain(healthy) \cup first

BuildChain(q) ==
  /\ pc[q] = "routed"
  /\ chain' = [chain EXCEPT ![q] = ChainOf(q)]
  /\ IF ChainOf(q) = {}
     THEN /\ pc' = [pc EXCEPT ![q] = "legacy"]
          /\ at' = [at EXCEPT ![q] = Legacy]
     ELSE /\ pc' = [pc EXCEPT ![q] = "loop"]
          /\ UNCHANGED at
  /\ UNCHANGED <<request, primary, tried, why, ending, healthVars, probe, up>>

\* The chain is a list made by BuildChain: the health of its members is not looked at again.
Untried(q) == chain[q] \ tried[q]

NextOf(q) == IF primary[q] \in Untried(q) THEN primary[q] ELSE HeadOf(Untried(q))

Attempt(q) ==
  /\ pc[q] = "loop"
  /\ Untried(q) # {}
  /\ at' = [at EXCEPT ![q] = NextOf(q)]
  /\ tried' = [tried EXCEPT ![q] = @ \cup {NextOf(q)}]
  /\ pc' = [pc EXCEPT ![q] = "calling"]
  /\ UNCHANGED <<request, primary, chain, why, ending, healthVars, probe, up>>

GiveUp(q) ==
  /\ pc[q] = "loop"
  /\ Untried(q) = {}
  /\ Ends(q, "exhausted")
  /\ UNCHANGED <<healthVars, probe, up>>

CallReturns(q) ==
  /\ pc[q] \in Calling
  /\ at[q] \in up
  /\ RecordSuccess(at[q])
  /\ Ends(q, "answered")
  /\ UNCHANGED <<probe, up>>

CallCancelled(q) ==
  /\ pc[q] \in Calling
  /\ Ends(q, "cancelled")
  /\ UNCHANGED <<healthVars, probe, up>>

\* The runner's own timeouts; one of Gemini's is worded so that it counts as TRANSIENT.
CallTimesOut(q) ==
  /\ pc[q] \in Calling
  /\ \E category \in {"host", "transient"} :
       RecordFailure(at[q], q, category, RunnerThreshold)
  /\ Ends(q, "timeout")
  /\ UNCHANGED <<probe, up>>

\* Any other exception.  It has been recorded by the wrapper unless the client of an API could
\* not even be built.
CallFails(q) ==
  /\ pc[q] \in Calling
  /\ \E category \in Failures :
       /\ \/ RecordFailure(at[q], q, category, RunnerThreshold)
          \/ UNCHANGED healthVars
       /\ \/ pc[q] = "legacy" /\ Ends(q, "error")
          \/ /\ pc[q] = "calling"
             /\ why' = [why EXCEPT ![q] = category]
             /\ pc' = [pc EXCEPT ![q] = "failed"]
             /\ UNCHANGED <<request, primary, chain, tried, at, ending>>
  /\ UNCHANGED <<probe, up>>

\* mutant: NON_RETRIABLE is not looked at.
NextAlways(q) ==
  /\ pc[q] = "failed"
  /\ RecordFailure(at[q], q, why[q], LoopThreshold)
  /\ pc' = [pc EXCEPT ![q] = "loop"]
  /\ UNCHANGED <<request, primary, chain, tried, at, why, ending, probe, up>>

\* The loop records the failure, and goes on unless the category is in NON_RETRIABLE.
NextOrRaise(q) ==
  /\ pc[q] = "failed"
  /\ RecordFailure(at[q], q, why[q], LoopThreshold)
  /\ \/ why[q] = "host" /\ Ends(q, "error")
     \/ /\ why[q] # "host"
        /\ pc' = [pc EXCEPT ![q] = "loop"]
        /\ UNCHANGED <<request, primary, chain, tried, at, why, ending>>
  /\ UNCHANGED <<probe, up>>

----------------------------------------------------------------------------
(* _health_tick and probe_spec                                             *)

\* mutant: an unhealthy backend is not probed.
HealthTickHealthy ==
  /\ \A b \in Backends : probe[b] = "none"
  /\ resting \cap healthy # {}
  /\ probe' = [b \in Backends |-> IF b \in resting \cap healthy THEN "sent" ELSE "none"]
  /\ UNCHANGED <<queryVars, healthVars, up>>

\* The next tick begins when every probe of the one before has been recorded.
HealthTick ==
  /\ \A b \in Backends : probe[b] = "none"
  /\ resting # {}
  /\ probe' = [b \in Backends |-> IF b \in resting THEN "sent" ELSE "none"]
  /\ UNCHANGED <<queryVars, healthVars, up>>

\* A probe that runs into its timeout or cannot connect says nothing, or counts as a failure for
\* a backend that must not be a free one (free_tier_ok).
ProbeResults(b) ==
  {IF b \in up THEN "ok" ELSE "failed"} \cup (IF b \in Slow THEN {"failed", "unsure"} ELSE {})

ProbeSpec(b) ==
  /\ probe[b] = "sent"
  /\ \E result \in ProbeResults(b) : probe' = [probe EXCEPT ![b] = result]
  /\ UNCHANGED <<queryVars, healthVars, up>>

SetProbeResult(b) ==
  /\ probe[b] \in {"ok", "failed", "unsure"}
  /\ healthy' = CASE probe[b] = "ok" -> healthy \cup {b}
                  [] probe[b] = "failed" -> healthy \ {b}
                  [] probe[b] = "unsure" -> healthy
  /\ resting' = resting \ {b}
  /\ probe' = [probe EXCEPT ![b] = "none"]
  /\ UNCHANGED <<queryVars, window, up>>

\* BACKEND_RECOVER_INTERVAL or, for a healthy backend, BACKEND_STALE_INTERVAL has passed.
Rest(b) ==
  /\ b \notin resting
  /\ resting' = resting \cup {b}
  /\ UNCHANGED <<queryVars, healthy, window, probe, up>>

----------------------------------------------------------------------------
(* The providers                                                           *)

Break(b) ==
  /\ b \in up \ Steady
  /\ up' = up \ {b}
  /\ UNCHANGED <<queryVars, healthVars, probe>>

Repair(b) ==
  /\ b \notin up
  /\ up' = up \cup {b}
  /\ UNCHANGED <<queryVars, healthVars, probe>>

----------------------------------------------------------------------------
QueryStep(q) ==
  \/ Route(q) \/ BuildChain(q) \/ Attempt(q) \/ GiveUp(q)
  \/ CallReturns(q) \/ CallCancelled(q) \/ CallTimesOut(q) \/ CallFails(q) \/ NextOrRaise(q)

ProbeStep(b) == ProbeSpec(b) \/ SetProbeResult(b)

Next ==
  \/ \E q \in Queries : QueryStep(q)
  \/ HealthTick
  \/ \E b \in Backends : ProbeStep(b) \/ Expire(b) \/ Rest(b) \/ Break(b) \/ Repair(b)

Spec == Init /\ [][Next]_vars

\* Threads are scheduled, calls and probes end (both have timeouts) and time passes.
Fairness ==
  /\ \A q \in Queries : WF_vars(QueryStep(q))
  /\ WF_vars(HealthTick)
  /\ \A b \in Backends : WF_vars(ProbeStep(b)) /\ WF_vars(Rest(b))

FairSpec == Spec /\ Fairness

----------------------------------------------------------------------------
(* Properties                                                              *)

Distinct(x, y, z) == x # y /\ y # z /\ x # z

\* A query leaves at most two entries in the window of a backend, although it may have tried it,
\* lost it to an outage and found it healthy again: the loop never comes back to it.
TwoEntries ==
  \A b \in Backends : \A i, j, k \in DOMAIN window[b] :
    Distinct(i, j, k) => ~(window[b][i] = window[b][j] /\ window[b][j] = window[b][k])

TransientFlip(b) == b \in healthy \ healthy' /\ window'[b] # window[b]

\* One query cannot disable a backend by a transient failure, whichever records it
\* ("single hiccups should not disable a backend").
HiccupTolerated ==
  [][\A b \in Backends : TransientFlip(b) =>
       \E i, j \in DOMAIN window'[b] : window'[b][i] # window'[b][j]]_vars

\* A worker serves a query only if it was routed there: failing over never reaches one, even if
\* the health changes between routing and building the chain.
WorkersSpared ==
  \A q \in Queries : pc[q] = "calling" => at[q] \in Orchestrators \cup {primary[q]}

\* After the user's cancellation, a timeout or a kill by the OS, on any backend of the chain, the
\* query is not sent to another one.
HostStops ==
  [][\A q \in Queries : pc'[q] = "calling" /\ pc[q] # "calling" =>
       why[q] # "host" /\ ending[q] = "none"]_vars

\* Whatever happens to the backends and their health meanwhile, failing over reaches only whom it
\* may, and stops when it must.
FailsOverRight == []WorkersSpared /\ HostStops

\* A backend that works again is used again, and one that no longer works is found out without a
\* query having to fail on it.
Recovers      == \A b \in Backends \ Slow : <>[](b \in up) => []<>(b \in healthy)
OutageNoticed == \A b \in Backends \ Slow : <>[](b \notin up) => <>[](b \notin healthy)

\* The health follows what the backends really do.
HealthFollows == Recovers /\ OutageNoticed

=============================================================================
