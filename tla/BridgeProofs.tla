----------------------------- MODULE BridgeProofs -----------------------------
(***************************************************************************)
(* Proofs about Bridge, for any messages, sizes and bounds: types, what    *)
(* is run at most once across restarts, the notice of an upgrade, and the  *)
(* merge buffer of voice messages.                                         *)
(***************************************************************************)
EXTENDS Bridge, TLAPS, FiniteSetTheorems, SequenceTheorems

----------------------------------------------------------------------------
(* Sequences                                                               *)

\* What Append adds to a sequence.
LEMMA InAppend ==
  ASSUME NEW S, NEW s \in Seq(S), NEW e \in S
  PROVE  /\ Append(s, e) \in Seq(S)
         /\ Len(Append(s, e)) = Len(s) + 1
         /\ InSeq(Append(s, e)) = InSeq(s) \cup {e}
         /\ Append(s, e) # <<>>
<1> DEFINE t == Append(s, e)
<1>1. /\ t \in Seq(S) /\ Len(t) = Len(s) + 1 /\ Len(s) \in Nat
      /\ t[Len(s) + 1] = e /\ \A i \in 1..Len(s) : t[i] = s[i]
      /\ DOMAIN s = 1..Len(s) /\ DOMAIN t = 1..Len(t)
  OBVIOUS
<1>2. InSeq(t) = InSeq(s) \cup {e}
  <2>1. ASSUME NEW x \in InSeq(t) PROVE x \in InSeq(s) \cup {e}
    <3>1. PICK i \in DOMAIN t : x = t[i]
      BY <2>1 DEF InSeq
    <3>2. i \in 1..Len(s) \/ i = Len(s) + 1
      BY <1>1, <3>1
    <3> QED
      BY <1>1, <3>1, <3>2 DEF InSeq
  <2>2. ASSUME NEW x \in InSeq(s) PROVE x \in InSeq(t)
    <3>1. PICK i \in 1..Len(s) : x = s[i]
      BY <2>2, <1>1 DEF InSeq
    <3>2. i \in DOMAIN t /\ t[i] = x
      BY <1>1, <3>1
    <3> QED
      BY <3>2 DEF InSeq
  <2>3. e \in InSeq(t)
    <3>1. Len(s) + 1 \in DOMAIN t /\ t[Len(s) + 1] = e
      BY <1>1
    <3> QED
      BY <3>1 DEF InSeq
  <2> QED
    BY <2>1, <2>2, <2>3
<1> QED
  BY <1>1, <1>2

\* A sequence is its head and its tail.
LEMMA InTail ==
  ASSUME NEW S, NEW s \in Seq(S), s # <<>>
  PROVE  /\ Head(s) \in S /\ Tail(s) \in Seq(S)
         /\ Len(Tail(s)) = Len(s) - 1
         /\ InSeq(s) = InSeq(Tail(s)) \cup {Head(s)}
<1> DEFINE t == Tail(s)
<1>1. /\ Head(s) = s[1] /\ Head(s) \in S /\ t \in Seq(S) /\ Len(t) = Len(s) - 1
      /\ Len(s) \in Nat /\ Len(s) >= 1
      /\ \A i \in 1..Len(t) : t[i] = s[i + 1]
      /\ DOMAIN s = 1..Len(s) /\ DOMAIN t = 1..Len(t)
  OBVIOUS
<1>2. ASSUME NEW x \in InSeq(s) PROVE x \in InSeq(t) \cup {Head(s)}
  <2>1. PICK i \in 1..Len(s) : x = s[i]
    BY <1>2, <1>1 DEF InSeq
  <2>2. CASE i = 1
    BY <2>1, <2>2, <1>1
  <2>3. CASE i # 1
    <3>1. i - 1 \in 1..Len(t) /\ t[i - 1] = x
      BY <2>1, <2>3, <1>1
    <3> QED
      BY <3>1, <1>1 DEF InSeq
  <2> QED
    BY <2>2, <2>3
<1>3. ASSUME NEW x \in InSeq(t) PROVE x \in InSeq(s)
  <2>1. PICK i \in 1..Len(t) : x = t[i]
    BY <1>3, <1>1 DEF InSeq
  <2>2. i + 1 \in 1..Len(s) /\ s[i + 1] = x
    BY <2>1, <1>1
  <2> QED
    BY <2>2, <1>1 DEF InSeq
<1>4. Head(s) \in InSeq(s)
  <2>1. 1 \in DOMAIN s /\ s[1] = Head(s)
    BY <1>1
  <2> QED
    BY <2>1 DEF InSeq
<1> QED
  BY <1>1, <1>2, <1>3, <1>4

\* The empty sequence.
LEMMA InNone ==
  ASSUME NEW S
  PROVE  <<>> \in Seq(S) /\ Len(<<>>) = 0 /\ InSeq(<<>>) = {}
  BY DEF InSeq

\* What is in a sequence over a set is in the set.
LEMMA InOf ==
  ASSUME NEW S, NEW s \in Seq(S)
  PROVE  InSeq(s) \subseteq S
  BY DEF InSeq

----------------------------------------------------------------------------
(* Types                                                                   *)

\* The parts of the type invariant, each about the variables of one part of the process.
ProcessType ==
  /\ main \in {"up", "transcribe", "drain", "notice", "exited", "failed"}
  /\ manager \in Managers
  /\ stopping \in SUBSET {"flag"}

UpgradeType ==
  /\ upgrade \in [Upgrades -> {"new", "prepare", "wait", "exec", "over"}]
  /\ marker \in 0..1 /\ notices \in Nat

DedupType ==
  /\ seen \in Seq(Messages) /\ Len(seen) <= Cap
  /\ saved \in Seq(Messages) /\ Len(saved) <= Cap
  /\ timer \in SUBSET {"save"}
  /\ lost \in SUBSET Messages
  /\ Flushed => saved = seen

QueryType ==
  /\ running \in SUBSET Messages
  /\ runs \in [Messages -> Nat] /\ sends \in 0..MaxSends

VoiceType ==
  /\ clip \in Voices \cup {Nobody}
  /\ clip # Nobody <=> main = "transcribe"
  /\ buffer \in Seq(Voices) /\ Len(buffer) < MaxMerge
  /\ armed \in {{}, {"timer"}, {"dead"}} /\ waiting \in Nat
  /\ texts \in SUBSET Voices /\ unheard \in SUBSET Voices

Types == ProcessType /\ UpgradeType /\ DedupType /\ QueryType /\ VoiceType

LEMMA TypeParts == Types => TypeOK
  BY DEF Types, TypeOK, ProcessType, UpgradeType, DedupType, QueryType, VoiceType

LEMMA InitTypes == Init => Types
<1> SUFFICES ASSUME Init PROVE Types
  OBVIOUS
<1> USE BridgeAssumption DEF Init
<1>1. ProcessType
  BY DEF ProcessType
<1>2. UpgradeType
  BY DEF UpgradeType
<1>3. DedupType
  BY InNone DEF DedupType, Flushed
<1>4. QueryType
  BY DEF QueryType
<1>5. VoiceType
  BY InNone DEF VoiceType, Nobody
<1> QED
  BY <1>1, <1>2, <1>3, <1>4, <1>5 DEF Types

\* The table after a message was added.
LEMMA RememberType ==
  ASSUME Types, NEW m \in Messages, m \notin InSeq(seen), Remember(m)
  PROVE  /\ seen' \in Seq(Messages) /\ Len(seen') <= Cap
         /\ lost' \in SUBSET Messages /\ lost \subseteq lost'
         /\ InSeq(seen) \cup {m} \subseteq InSeq(seen') \cup lost'
<1> DEFINE all == Append(seen, m)
<1>1. /\ seen \in Seq(Messages) /\ Len(seen) <= Cap /\ lost \in SUBSET Messages
      /\ Cap \in Nat /\ Len(seen) \in Nat
  BY BridgeAssumption DEF Types, DedupType
<1>2. /\ all \in Seq(Messages) /\ Len(all) = Len(seen) + 1
      /\ InSeq(all) = InSeq(seen) \cup {m} /\ all # <<>>
  BY <1>1, InAppend
<1>3. CASE Len(all) <= Cap /\ seen' = all /\ UNCHANGED lost
  BY <1>1, <1>2, <1>3
<1>4. CASE Len(all) > Cap /\ seen' = Tail(all) /\ lost' = lost \cup {Head(all)}
  <2>1. /\ Head(all) \in Messages /\ Tail(all) \in Seq(Messages)
        /\ Len(Tail(all)) = Len(all) - 1
        /\ InSeq(all) = InSeq(Tail(all)) \cup {Head(all)}
    BY <1>2, InTail
  <2> QED
    BY <1>1, <1>2, <1>4, <2>1
<1> QED
  BY <1>3, <1>4 DEF Remember

\* The table and the history at the end of a process.
LEMMA TableType ==
  ASSUME Types, NewTable
  PROVE  /\ seen' \in Seq(Messages) /\ Len(seen') <= Cap
         /\ timer' = {} /\ lost' \in SUBSET Messages /\ lost \subseteq lost'
         /\ InSeq(seen) \subseteq InSeq(seen') \cup lost'
<1>1. /\ InSeq(seen) \subseteq Messages /\ saved \in Seq(Messages) /\ Len(saved) <= Cap
      /\ Cap \in Nat /\ Len(saved) \in Nat /\ lost \in SUBSET Messages
  BY InOf, BridgeAssumption DEF Types, DedupType
<1>2. PICK old \in 0..Len(saved) : seen' = SubSeq(saved, old + 1, Len(saved))
  BY DEF NewTable
<1>3. \A i \in old + 1..Len(saved) : saved[i] \in Messages
  BY <1>1
<1>4. /\ seen' \in Seq(Messages)
      /\ Len(seen') = IF old + 1 <= Len(saved) THEN Len(saved) - (old + 1) + 1 ELSE 0
  BY <1>1, <1>2, <1>3, SubSeqProperties
<1>5. Len(seen') <= Cap
  BY <1>1, <1>4
<1> QED
  BY <1>1, <1>4, <1>5 DEF NewTable

\* What a flush leaves: each message of the batch has its query, or is counted as not heard.
LEMMA FlushType ==
  ASSUME Types, NEW batch \in Seq(Voices), Flush(batch)
  PROVE  /\ buffer' = <<>> /\ armed' = {}
         /\ running' \in SUBSET Messages
         /\ runs' \in [Messages -> Nat]
         /\ unheard' \in SUBSET Voices /\ unheard \subseteq unheard'
         /\ \A m \in Messages :
              \/ runs'[m] = runs[m] + 1 /\ m \in InSeq(batch)
              \/ runs'[m] = runs[m] /\ (m \in InSeq(batch) => m \in unheard')
<1>1. batch # <<>> => Head(batch) \in Messages
  BY InTail, BridgeAssumption
<1>2. running' \in SUBSET Messages
  BY <1>1 DEF Flush, Types, QueryType
<1>3. \A m \in Messages : runs[m] \in Nat
  BY DEF Types, QueryType
<1>4. InSeq(batch) \subseteq Voices
  BY InOf
<1> QED
  BY <1>2, <1>3, <1>4 DEF Flush, Types, QueryType, VoiceType

\* The buffer after a voice message was added to it.
LEMMA AddType ==
  ASSUME Types, NEW m \in Voices, AddVoice(m)
  PROVE  /\ buffer' \in Seq(Voices) /\ Len(buffer') < MaxMerge
         /\ armed' \in {{}, {"timer"}, {"dead"}}
         /\ buffer' # <<>> => armed' # {}
         /\ running' \in SUBSET Messages
         /\ runs' \in [Messages -> Nat]
         /\ unheard' \in SUBSET Voices /\ unheard \subseteq unheard'
         /\ \A o \in Messages :
              \/ /\ runs'[o] = runs[o]
                 /\ o \in InSeq(buffer') => o \in InSeq(buffer) \cup {m}
                 /\ o \in InSeq(buffer) \cup {m} => o \in InSeq(buffer') \cup unheard'
              \/ runs'[o] = runs[o] + 1 /\ o \notin InSeq(buffer') /\ o \in InSeq(buffer) \cup {m}
<1> DEFINE all == Append(buffer, m)
<1>1. /\ buffer \in Seq(Voices) /\ Len(buffer) \in Nat /\ MaxMerge \in Nat \ {0}
      /\ running \in SUBSET Messages /\ runs \in [Messages -> Nat]
      /\ unheard \in SUBSET Voices
  BY BridgeAssumption DEF Types, VoiceType, QueryType
<1>2. /\ all \in Seq(Voices) /\ Len(all) = Len(buffer) + 1
      /\ InSeq(all) = InSeq(buffer) \cup {m}
  BY <1>1, InAppend
<1>3. CASE Flush(all)
  <2>1. /\ buffer' = <<>> /\ armed' = {}
        /\ running' \in SUBSET Messages
        /\ runs' \in [Messages -> Nat]
        /\ unheard' \in SUBSET Voices /\ unheard \subseteq unheard'
        /\ \A o \in Messages :
             \/ runs'[o] = runs[o] + 1 /\ o \in InSeq(all)
             \/ runs'[o] = runs[o] /\ (o \in InSeq(all) => o \in unheard')
    BY <1>2, <1>3, FlushType
  <2>2. /\ buffer' \in Seq(Voices) /\ Len(buffer') = 0 /\ InSeq(buffer') = {}
    BY <2>1, InNone
  <2> QED
    BY <1>1, <1>2, <2>1, <2>2
<1>4. CASE /\ Len(buffer) + 1 < MaxMerge /\ buffer' = all
           /\ armed' = {"timer"} \/ armed' = {"dead"}
           /\ UNCHANGED <<running, runs, unheard>>
  BY <1>1, <1>2, <1>4
<1> QED
  BY <1>3, <1>4 DEF AddVoice

----------------------------------------------------------------------------
(* The actions, one after the other, for the types                         *)

LEMMA DeliverTypes ==
  ASSUME Types, NEW m \in Messages, Deliver(m)
  PROVE  Types'
<1> USE DEF Types
<1>1. ProcessType' /\ UpgradeType'
  BY DEF Deliver, ProcessType, UpgradeType, upgradeVars
<1>2. DedupType'
  <2>1. ~Flushed'
    BY DEF Deliver, Flushed
  <2>2. CASE UNCHANGED dedupVars
    BY <2>1, <2>2 DEF dedupVars, DedupType
  <2>3. CASE m \notin InSeq(seen) /\ Remember(m) /\ timer' = {"save"} /\ UNCHANGED saved
    BY <2>1, <2>3, RememberType DEF DedupType
  <2> QED
    BY <2>2, <2>3 DEF Deliver
<1>3. QueryType'
  BY BridgeAssumption DEF Deliver, Start, QueryType
<1>4. VoiceType'
  BY BridgeAssumption DEF Deliver, VoiceType, ProcessType
<1> QED
  BY <1>1, <1>2, <1>3, <1>4

LEMMA VoiceTypes ==
  ASSUME Types, Heard \/ NotHeard \/ VoiceTimer
  PROVE  Types'
<1> USE DEF Types
<1>0. ProcessType' /\ UpgradeType' /\ DedupType'
  BY DEF Heard, NotHeard, VoiceTimer, TimerFires, OnTimer, ProcessType, UpgradeType, DedupType,
         processVars, upgradeVars, dedupVars, Flushed
<1>1. CASE Heard
  <2>1. clip \in Voices
    BY <1>1 DEF Heard, VoiceType
  <2>2. AddVoice(clip) /\ UNCHANGED sends
    BY <1>1 DEF Heard
  <2>3. QueryType'
    BY <2>1, <2>2, AddType DEF QueryType
  <2>4. /\ main' = "up" /\ clip' = Nobody /\ texts' = texts \cup {clip}
        /\ UNCHANGED waiting
    BY <1>1 DEF Heard
  <2>5. VoiceType'
    BY <2>1, <2>2, <2>4, AddType DEF VoiceType
  <2> QED
    BY <1>0, <2>3, <2>5
<1>2. CASE NotHeard
  BY <1>0, <1>2 DEF NotHeard, QueryType, VoiceType, queryVars
<1>3. CASE TimerFires
  BY <1>0, <1>3 DEF TimerFires, QueryType, VoiceType, queryVars, processVars
<1>4. CASE OnTimer
  <2>1. /\ buffer \in Seq(Voices) /\ Flush(buffer) /\ waiting' = waiting - 1 /\ waiting > 0
        /\ UNCHANGED <<main, sends, clip, texts>>
    BY <1>4 DEF OnTimer, VoiceType, processVars
  <2>2. /\ buffer' = <<>> /\ armed' = {} /\ running' \in SUBSET Messages
        /\ runs' \in [Messages -> Nat] /\ unheard' \in SUBSET Voices
    BY <2>1, FlushType
  <2>3. QueryType'
    BY <2>1, <2>2 DEF QueryType
  <2>4. buffer' \in Seq(Voices) /\ Len(buffer') < MaxMerge
    BY <2>2, InNone, BridgeAssumption
  <2>5. VoiceType'
    BY <2>1, <2>2, <2>4 DEF VoiceType
  <2> QED
    BY <1>0, <2>3, <2>5
<1> QED
  BY <1>1, <1>2, <1>3, <1>4 DEF VoiceTimer

\* The end of a process.
LEMMA EndTypes ==
  ASSUME Types, ThreadsEnd, main' \in {"up", "notice", "exited", "failed"}
  PROVE  /\ stopping' = {} /\ UNCHANGED <<manager, notices>>
         /\ upgrade' \in [Upgrades -> {"new", "prepare", "wait", "exec", "over"}]
         /\ DedupType' /\ QueryType' /\ VoiceType'
<1>1. /\ stopping' = {}
      /\ upgrade' = [u \in Upgrades |-> IF upgrade[u] = "new" THEN "new" ELSE "over"]
      /\ UNCHANGED <<manager, saved, runs, sends, notices, texts>>
      /\ running' = {} /\ clip' = Nobody /\ buffer' = <<>> /\ armed' = {} /\ waiting' = 0
      /\ unheard' = unheard \cup InSeq(buffer)
      /\ NewTable
  BY DEF ThreadsEnd
<1>2. DedupType'
  BY <1>1, TableType DEF Types, DedupType, Flushed
<1>3. QueryType'
  BY <1>1 DEF Types, QueryType
<1>4. InSeq(buffer) \subseteq Voices /\ <<>> \in Seq(Voices) /\ Len(<<>>) = 0
  BY InOf, InNone DEF Types, VoiceType
<1>5. VoiceType'
  BY <1>1, <1>4, BridgeAssumption DEF Types, VoiceType, Nobody
<1> QED
  BY <1>1, <1>2, <1>3, <1>5

LEMMA ProcessTypes ==
  ASSUME Types, LeaveLoop \/ MainReturns \/ Crash \/ Restart \/ Notify
  PROVE  Types'
<1> USE DEF Types
<1>1. CASE LeaveLoop
  BY <1>1 DEF LeaveLoop, ProcessType, UpgradeType, DedupType, QueryType, VoiceType, Flushed,
              upgradeVars, queryVars, voiceVars
<1>2. CASE MainReturns
  BY <1>2, EndTypes DEF MainReturns, ProcessType, UpgradeType
<1>3. CASE Crash
  BY <1>3, EndTypes DEF Crash, ProcessType, UpgradeType
<1>4. CASE Restart
  <2>1. main' \in {"up", "notice"} /\ main \in {"failed", "exited"} /\ marker' = 0
    BY <1>4 DEF Restart, StartUp
  <2> QED
    BY <1>4, <2>1 DEF Restart, ProcessType, UpgradeType, DedupType, QueryType, VoiceType, Flushed,
                      dedupVars, queryVars, voiceVars
<1>5. CASE Notify
  <2>1. main = "notice" /\ main' = "up" /\ notices' \in Nat
    BY <1>5 DEF Notify, UpgradeType
  <2> QED
    BY <1>5, <2>1 DEF Notify, ProcessType, UpgradeType, DedupType, QueryType, VoiceType, Flushed,
                      dedupVars, queryVars, voiceVars
<1> QED
  BY <1>1, <1>2, <1>3, <1>4, <1>5

LEMMA UpgradeTypes ==
  ASSUME Types, NEW u \in Upgrades, Upgrade(u) \/ UpgradeBegins(u)
  PROVE  Types'
<1> USE DEF Types
<1>1. CASE Exec(u)
  <2>1. main' \in {"up", "notice"} /\ marker' = 0 /\ ThreadsEnd
    BY <1>1 DEF Exec, StartUp
  <2> QED
    BY <2>1, EndTypes DEF ProcessType, UpgradeType
<1>2. CASE ~Exec(u)
  <2>1. UNCHANGED <<main, manager, notices, dedupVars, queryVars, voiceVars>>
    BY <1>2 DEF Upgrade, UpgradeBegins, UpgradeGivesUp, UpgradeStops, UpgradeMarks, ExecFails,
                UpgradeStep
  <2>2. upgrade' \in [Upgrades -> {"new", "prepare", "wait", "exec", "over"}]
    BY <1>2 DEF Upgrade, UpgradeBegins, UpgradeGivesUp, UpgradeStops, UpgradeMarks, ExecFails,
                UpgradeStep, UpgradeType
  <2>3. stopping' \in {stopping, {"flag"}} /\ marker' \in {marker, 1}
    BY <1>2 DEF Upgrade, UpgradeBegins, UpgradeGivesUp, UpgradeStops, UpgradeMarks, ExecFails
  <2>4. DedupType' /\ QueryType' /\ VoiceType'
    BY <2>1 DEF DedupType, QueryType, VoiceType, Flushed, dedupVars, queryVars, voiceVars
  <2> QED
    BY <2>1, <2>2, <2>3, <2>4 DEF ProcessType, UpgradeType
<1> QED
  BY <1>1, <1>2

LEMMA StepTypes ==
  ASSUME Types, [Next]_vars
  PROVE  Types'
<1>1. CASE \E m \in Messages : Deliver(m)
  BY <1>1, DeliverTypes
<1>2. CASE \E m \in Messages : QueryEnds(m)
  BY <1>2 DEF QueryEnds, Types, ProcessType, UpgradeType, DedupType, QueryType, VoiceType, Flushed,
              processVars, upgradeVars, dedupVars, voiceVars
<1>3. CASE SaveDedup
  BY <1>3 DEF SaveDedup, Types, ProcessType, UpgradeType, DedupType, QueryType, VoiceType, Flushed,
              processVars, upgradeVars, queryVars, voiceVars
<1>4. CASE Sigterm
  BY <1>4 DEF Sigterm, Types, ProcessType, UpgradeType, DedupType, QueryType, VoiceType, Flushed,
              upgradeVars, dedupVars, queryVars, voiceVars
<1>5. CASE Heard \/ NotHeard \/ VoiceTimer
  BY <1>5, VoiceTypes
<1>6. CASE LeaveLoop \/ MainReturns \/ Crash \/ Restart \/ Notify
  BY <1>6, ProcessTypes
<1>7. CASE \E u \in Upgrades : UpgradeBegins(u) \/ Upgrade(u)
  BY <1>7, UpgradeTypes
<1>8. CASE UNCHANGED vars
  BY <1>8 DEF vars, Types, ProcessType, UpgradeType, DedupType, QueryType, VoiceType, Flushed,
              processVars, upgradeVars, dedupVars, queryVars, voiceVars
<1> QED
  BY <1>1, <1>2, <1>3, <1>4, <1>5, <1>6, <1>7, <1>8 DEF Next, MainThread

\* The types of the variables, and that an orderly end of the process forgets no message: once the
\* shutdown sequence has saved the table of seen messages nothing is added to it.
THEOREM TypeSafe == Spec => []TypeOK
<1>1. Init => Types
  BY InitTypes
<1>2. Types /\ [Next]_vars => Types'
  BY StepTypes
<1>3. Types => TypeOK
  BY TypeParts
<1> QED
  BY <1>1, <1>2, <1>3, PTL DEF Spec

----------------------------------------------------------------------------
(* Messages: run once, and heard                                           *)

\* A voice message that is still to be handed to a query.
Held(m) == m \in InSeq(buffer) \/ m = clip

\* The invariant behind HandledOnce: a message that is not in the table was not run and is not
\* held, and it is held in one place.
OnceInv ==
  \A m \in Messages \ lost :
    /\ m \notin InSeq(seen) => runs[m] = 0
    /\ m \notin InSeq(seen) => ~Held(m)
    /\ Held(m) => runs[m] = 0
    /\ m = clip => m \notin InSeq(buffer)
    /\ runs[m] <= 1

MessageInv == Types /\ OnceInv /\ VoiceIsHeard

LEMMA OnceParts == Types /\ OnceInv => HandledOnce
<1> SUFFICES ASSUME Types, OnceInv, NEW m \in Messages \ lost
             PROVE  runs[m] + (IF m \in InSeq(seen) THEN 0 ELSE 1) <= 1
  BY DEF HandledOnce
<1>1. runs[m] \in Nat
  BY DEF Types, QueryType
<1> QED
  BY <1>1 DEF OnceInv

\* A step that only adds to the table, or only forgets what it records as lost.
LEMMA TableOnce ==
  ASSUME OnceInv, UNCHANGED <<runs, buffer, clip>>, lost \subseteq lost',
         InSeq(seen) \subseteq InSeq(seen') \cup lost'
  PROVE  OnceInv'
  BY DEF OnceInv, Held

LEMMA SameHeard ==
  ASSUME VoiceIsHeard, UNCHANGED <<runs, buffer, armed, waiting, texts, unheard>>
  PROVE  VoiceIsHeard'
  BY DEF VoiceIsHeard

LEMMA DeliverOnce ==
  ASSUME MessageInv, NEW m \in Messages, Deliver(m)
  PROVE  OnceInv' /\ VoiceIsHeard'
<1> USE DEF MessageInv
<1>0. Types'
  BY DeliverTypes
<1>1. CASE m \in InSeq(seen)
  <2>1. UNCHANGED <<runs, buffer, clip, seen, lost, armed, waiting, texts, unheard>>
    BY <1>1 DEF Deliver, dedupVars
  <2> QED
    BY <2>1, TableOnce, SameHeard
<1>2. CASE m \notin InSeq(seen)
  <2>1. /\ Remember(m)
        /\ UNCHANGED <<buffer, armed, waiting, texts, unheard>>
        /\ UNCHANGED clip \/ clip' = m
        /\ UNCHANGED runs \/ (runs' = [runs EXCEPT ![m] = @ + 1] /\ UNCHANGED clip)
    BY <1>2 DEF Deliver, Start
  <2>2. lost \subseteq lost' /\ InSeq(seen) \cup {m} \subseteq InSeq(seen') \cup lost'
    BY <1>2, <2>1, RememberType
  <2>3. runs \in [Messages -> Nat]
    BY DEF Types, QueryType
  <2>4. OnceInv'
    <3>1. ASSUME NEW o \in Messages \ lost'
          PROVE  /\ o \notin InSeq(seen') => runs'[o] = 0 /\ ~Held(o)'
                 /\ Held(o)' => runs'[o] = 0
                 /\ o = clip' => o \notin InSeq(buffer')
                 /\ runs'[o] <= 1
      <4>1. o \in Messages \ lost
        BY <2>2
      <4>2. CASE o = m
        <5>1. o \in InSeq(seen') /\ runs[o] = 0 /\ ~Held(o)
          BY <1>2, <2>2, <4>1, <4>2 DEF OnceInv
        <5>2. CASE UNCHANGED runs
          BY <2>1, <5>1, <5>2 DEF Held
        <5>3. CASE runs' = [runs EXCEPT ![m] = @ + 1] /\ UNCHANGED clip
          <6>1. ~Held(o)' /\ runs'[o] = 1
            BY <2>1, <2>3, <4>2, <5>1, <5>3 DEF Held
          <6> QED
            BY <5>1, <6>1 DEF Held
        <5> QED
          BY <2>1, <5>2, <5>3
      <4>3. CASE o # m
        <5>1. runs'[o] = runs[o]
          BY <2>1, <2>3, <4>3
        <5>2. (Held(o)' => Held(o)) /\ (o = clip' => o = clip) /\ buffer' = buffer
          BY <2>1, <4>3 DEF Held
        <5>3. o \notin InSeq(seen') => o \notin InSeq(seen)
          BY <2>2
        <5> QED
          BY <4>1, <5>1, <5>2, <5>3 DEF OnceInv
      <4> QED
        BY <4>2, <4>3
    <3> QED
      BY <3>1 DEF OnceInv, Held
  <2>5. \A o \in Messages : runs[o] > 0 => runs'[o] > 0
    BY <2>1, <2>3
  <2>6. texts \subseteq Messages
    BY BridgeAssumption DEF Types, VoiceType
  <2>7. VoiceIsHeard'
    BY <2>1, <2>5, <2>6 DEF VoiceIsHeard
  <2> QED
    BY <2>4, <2>7
<1> QED
  BY <1>1, <1>2

LEMMA HeardOnce ==
  ASSUME MessageInv, Heard
  PROVE  OnceInv' /\ VoiceIsHeard'
<1> USE DEF MessageInv
<1>1. clip \in Voices /\ clip \in Messages /\ clip' = Nobody /\ AddVoice(clip)
      /\ texts' = texts \cup {clip} /\ UNCHANGED <<seen, lost, waiting>>
      /\ Nobody \notin Messages
  BY BridgeAssumption DEF Heard, Types, VoiceType, dedupVars
<1>2. /\ buffer' # <<>> => armed' # {}
      /\ armed' \in {{}, {"timer"}, {"dead"}} /\ unheard \subseteq unheard'
      /\ \A o \in Messages :
           \/ /\ runs'[o] = runs[o]
              /\ o \in InSeq(buffer') => o \in InSeq(buffer) \cup {clip}
              /\ o \in InSeq(buffer) \cup {clip} => o \in InSeq(buffer') \cup unheard'
           \/ runs'[o] = runs[o] + 1 /\ o \notin InSeq(buffer') /\ o \in InSeq(buffer) \cup {clip}
  BY <1>1, AddType
<1>3. \A o \in Messages : runs[o] \in Nat
  BY DEF Types, QueryType
<1>4. OnceInv'
  <2>1. ASSUME NEW o \in Messages \ lost
        PROVE  /\ o \notin InSeq(seen) => runs'[o] = 0 /\ ~Held(o)'
               /\ Held(o)' => runs'[o] = 0
               /\ o # clip'
               /\ runs'[o] <= 1
    <3>0. o # clip'
      BY <1>1
    <3>1. Held(o) <=> o \in InSeq(buffer) \cup {clip}
      BY DEF Held
    <3>2. Held(o)' <=> o \in InSeq(buffer')
      BY <1>1 DEF Held
    <3>3. CASE runs'[o] = runs[o] /\ (o \in InSeq(buffer') => o \in InSeq(buffer) \cup {clip})
      BY <3>0, <3>1, <3>2, <3>3 DEF OnceInv
    <3>4. CASE runs'[o] = runs[o] + 1 /\ o \notin InSeq(buffer') /\ o \in InSeq(buffer) \cup {clip}
      <4>1. Held(o) /\ runs[o] = 0 /\ o \in InSeq(seen)
        BY <3>1, <3>4 DEF OnceInv
      <4> QED
        BY <3>0, <3>2, <3>4, <4>1
    <3> QED
      BY <1>2, <3>3, <3>4
  <2> QED
    BY <1>1, <2>1 DEF OnceInv, Held
<1>5. VoiceIsHeard'
  <2>1. ASSUME NEW o \in texts' PROVE o \in InSeq(buffer') \/ runs'[o] > 0 \/ o \in unheard'
    <3>1. o \in Messages /\ runs[o] \in Nat
      BY <1>1, <1>3, <2>1, BridgeAssumption DEF Types, VoiceType
    <3>2. o \in InSeq(buffer) \cup {clip} \/ runs[o] > 0 \/ o \in unheard
      BY <1>1, <2>1 DEF VoiceIsHeard
    <3> QED
      BY <1>1, <1>2, <3>1, <3>2
  <2> QED
    BY <1>2, <2>1 DEF VoiceIsHeard
<1> QED
  BY <1>4, <1>5

LEMMA TimerOnce ==
  ASSUME MessageInv, NotHeard \/ VoiceTimer
  PROVE  OnceInv' /\ VoiceIsHeard'
<1> USE DEF MessageInv
<1>1. CASE NotHeard
  <2>1. clip' = Nobody /\ Nobody \notin Messages
        /\ UNCHANGED <<runs, buffer, armed, waiting, texts, unheard, seen, lost>>
    BY <1>1, BridgeAssumption DEF NotHeard, dedupVars, queryVars
  <2> QED
    BY <2>1, SameHeard DEF OnceInv, Held
<1>2. CASE TimerFires
  <2>1. waiting' > 0
    BY <1>2 DEF TimerFires, Types, VoiceType
  <2>2. UNCHANGED <<runs, buffer, clip, texts, unheard, seen, lost>>
    BY <1>2 DEF TimerFires, dedupVars, queryVars
  <2> QED
    BY <2>1, <2>2, TableOnce DEF VoiceIsHeard
<1>3. CASE OnTimer
  <2>1. buffer \in Seq(Voices) /\ Flush(buffer) /\ UNCHANGED <<clip, texts, seen, lost>>
    BY <1>3 DEF OnTimer, Types, VoiceType, dedupVars
  <2>2. /\ buffer' = <<>> /\ unheard \subseteq unheard'
        /\ \A m \in Messages :
             \/ runs'[m] = runs[m] + 1 /\ m \in InSeq(buffer)
             \/ runs'[m] = runs[m] /\ (m \in InSeq(buffer) => m \in unheard')
    BY <2>1, FlushType
  <2>3. InSeq(buffer') = {}
    BY <2>2, InNone
  <2>4. (\A m \in Messages : runs[m] \in Nat) /\ texts \subseteq Messages
    BY BridgeAssumption DEF Types, QueryType, VoiceType
  <2>5. OnceInv'
    <3>1. ASSUME NEW o \in Messages \ lost
          PROVE  /\ o \notin InSeq(seen) => runs'[o] = 0 /\ ~Held(o)'
                 /\ Held(o)' => runs'[o] = 0
                 /\ o \notin InSeq(buffer')
                 /\ runs'[o] <= 1
      <4>1. Held(o)' => o = clip
        BY <2>1, <2>3 DEF Held
      <4>2. CASE o \in InSeq(buffer)
        <5>1. Held(o) /\ runs[o] = 0 /\ o \in InSeq(seen) /\ runs'[o] \in 0..1
          BY <2>2, <4>2 DEF OnceInv, Held
        <5> QED
          BY <2>3, <5>1, <4>1, <4>2 DEF OnceInv
      <4>3. CASE o \notin InSeq(buffer)
        <5>1. runs'[o] = runs[o]
          BY <2>2, <2>4, <4>3
        <5>2. Held(o)' => Held(o)
          BY <4>1 DEF Held
        <5> QED
          BY <2>3, <5>1, <5>2 DEF OnceInv
      <4> QED
        BY <4>2, <4>3
    <3> QED
      BY <2>1, <3>1 DEF OnceInv, Held
  <2>6. VoiceIsHeard'
    <3>1. ASSUME NEW o \in texts PROVE runs'[o] > 0 \/ o \in unheard'
      BY <2>2, <2>4 DEF VoiceIsHeard
    <3> QED
      BY <2>1, <2>2, <3>1 DEF VoiceIsHeard
  <2> QED
    BY <2>5, <2>6
<1> QED
  BY <1>1, <1>2, <1>3 DEF VoiceTimer

LEMMA EndOnce ==
  ASSUME MessageInv, ThreadsEnd
  PROVE  OnceInv' /\ VoiceIsHeard'
<1> USE DEF MessageInv
<1>1. /\ UNCHANGED <<runs, texts>>
      /\ clip' = Nobody /\ buffer' = <<>> /\ unheard' = unheard \cup InSeq(buffer)
      /\ NewTable
  BY DEF ThreadsEnd
<1>2. lost \subseteq lost' /\ InSeq(seen) \subseteq InSeq(seen') \cup lost'
  BY <1>1, TableType
<1>3. InSeq(buffer') = {} /\ Nobody \notin Messages
  BY <1>1, InNone, BridgeAssumption
<1>4. OnceInv'
  BY <1>1, <1>2, <1>3 DEF OnceInv, Held
<1>5. VoiceIsHeard'
  BY <1>1 DEF VoiceIsHeard
<1> QED
  BY <1>4, <1>5

LEMMA StepOnce ==
  ASSUME MessageInv, [Next]_vars
  PROVE  MessageInv'
<1> USE DEF MessageInv
<1>0. Types'
  BY StepTypes
<1>1. CASE \E m \in Messages : Deliver(m)
  BY <1>0, <1>1, DeliverOnce
<1>2. CASE Heard
  BY <1>0, <1>2, HeardOnce
<1>3. CASE NotHeard \/ VoiceTimer
  BY <1>0, <1>3, TimerOnce
<1>4. CASE MainReturns \/ Crash \/ \E u \in Upgrades : Exec(u)
  <2>1. ThreadsEnd
    BY <1>4 DEF MainReturns, Crash, Exec
  <2> QED
    BY <1>0, <2>1, EndOnce
<1>5. CASE (\E m \in Messages : QueryEnds(m)) \/ SaveDedup \/ Sigterm \/ LeaveLoop
           \/ Restart \/ Notify \/ UNCHANGED vars
           \/ \E u \in Upgrades : UpgradeBegins(u) \/ (Upgrade(u) /\ ~Exec(u))
  <2>1. UNCHANGED <<runs, buffer, clip, seen, lost, armed, waiting, texts, unheard>>
    BY <1>5 DEF QueryEnds, SaveDedup, Sigterm, LeaveLoop, Restart, Notify, UpgradeBegins, Upgrade,
                UpgradeGivesUp, UpgradeStops, UpgradeMarks, ExecFails, UpgradeStep, vars, dedupVars,
                queryVars, voiceVars
  <2> QED
    BY <1>0, <2>1, TableOnce, SameHeard
<1> QED
  BY <1>1, <1>2, <1>3, <1>4, <1>5 DEF Next, MainThread

LEMMA AlwaysMessages == Spec => []MessageInv
<1>1. Init => MessageInv
  <2> SUFFICES ASSUME Init PROVE MessageInv
    OBVIOUS
  <2>1. Types
    BY InitTypes
  <2>2. OnceInv
    <3>1. /\ InSeq(buffer) = {} /\ clip = Nobody /\ Nobody \notin Messages
          /\ runs = [m \in Messages |-> 0]
      BY InNone, BridgeAssumption DEF Init
    <3>2. ASSUME NEW m \in Messages PROVE ~Held(m) /\ m # clip /\ runs[m] = 0 /\ runs[m] <= 1
      BY <3>1 DEF Held
    <3> QED
      BY <3>2 DEF OnceInv
  <2>3. VoiceIsHeard
    BY DEF Init, VoiceIsHeard
  <2> QED
    BY <2>1, <2>2, <2>3 DEF MessageInv
<1> QED
  BY <1>1, StepOnce, PTL DEF Spec

\* Across crashes, restarts and upgrades, a message starts a query twice only when the full table
\* evicted it or the process ended before it was saved; merging voice messages does not change it.
THEOREM HandledSafe == Spec => []HandledOnce
<1>1. MessageInv => HandledOnce
  BY OnceParts DEF MessageInv
<1> QED
  BY <1>1, AlwaysMessages, PTL

\* Nothing that was transcribed is dropped but by the end of the process or a batch whose thread cannot
\* be started; and while something waits in the merge buffer a timer runs or has fired, or could not be
\* started, however timers are cancelled, fire late and find the batch of another.
THEOREM VoiceSafe == Spec => []VoiceIsHeard
<1>1. MessageInv => VoiceIsHeard
  BY DEF MessageInv
<1> QED
  BY <1>1, AlwaysMessages, PTL

----------------------------------------------------------------------------
(* The notice of an upgrade                                                *)

LEMMA SpentFinite == IsFiniteSet(Spent) /\ Cardinality(Spent) \in Nat
<1>1. Spent \in SUBSET Upgrades /\ IsFiniteSet(Upgrades)
  BY BridgeAssumption DEF Spent
<1> QED
  BY <1>1, FS_Subset, FS_CardinalityType

LEMMA SpentGrows ==
  ASSUME Spent \subseteq Spent', IsFiniteSet(Spent')
  PROVE  Cardinality(Spent) <= Cardinality(Spent')
BY FS_Subset

\* A marker is there only once the upgrade that wrote it is through, and stays for one notice.
LEMMA StepNotice ==
  ASSUME Types, Types', NoticeOnce, [Next]_vars
  PROVE  NoticeOnce'
<1> DEFINE spent == Cardinality(Spent)
<1>0. /\ marker \in 0..1 /\ notices \in Nat /\ spent \in Nat /\ spent' \in Nat
      /\ IsFiniteSet(Spent) /\ IsFiniteSet(Spent')
      /\ upgrade \in [Upgrades -> {"new", "prepare", "wait", "exec", "over"}]
  <2>1. IsFiniteSet(Spent') /\ spent' \in Nat
    <3>1. Spent' \in SUBSET Upgrades /\ IsFiniteSet(Upgrades)
      BY BridgeAssumption DEF Spent
    <3> QED
      BY <3>1, FS_Subset, FS_CardinalityType
  <2> QED
    BY <2>1, SpentFinite DEF Types, UpgradeType
<1>1. ASSUME Spent \subseteq Spent', UNCHANGED <<marker, notices>>, main' = "notice" => main = "notice"
      PROVE  NoticeOnce'
  <2>1. spent <= spent'
    BY <1>0, <1>1, SpentGrows
  <2> HIDE DEF spent
  <2>2. notices + marker + (IF main = "notice" THEN 1 ELSE 0) <= spent
    BY DEF NoticeOnce, spent
  <2>3. notices' + marker' + (IF main' = "notice" THEN 1 ELSE 0) <= spent'
    BY <1>0, <1>1, <2>1, <2>2
  <2> QED
    BY <2>3 DEF NoticeOnce, spent
<1>2. CASE MainReturns \/ Crash
  <2>1. /\ UNCHANGED <<marker, notices>> /\ main' # "notice"
        /\ upgrade' = [u \in Upgrades |-> IF upgrade[u] = "new" THEN "new" ELSE "over"]
    BY <1>2 DEF MainReturns, Crash, ThreadsEnd
  <2> QED
    BY <1>1, <2>1 DEF Spent
<1>3. CASE Restart \/ \E u \in Upgrades : Exec(u)
  <2>1. /\ notices' = notices /\ main' = (IF marker = 1 THEN "notice" ELSE "up") /\ marker' = 0
        /\ Spent \subseteq Spent'
    BY <1>3 DEF Restart, Exec, StartUp, ThreadsEnd, Spent
  <2>2. spent <= spent'
    BY <1>0, <2>1, SpentGrows
  <2> HIDE DEF spent
  <2>3. notices + marker <= spent
    BY <1>0 DEF NoticeOnce, spent
  <2>4. notices' + marker' + (IF main' = "notice" THEN 1 ELSE 0) <= spent'
    BY <1>0, <2>1, <2>2, <2>3
  <2> QED
    BY <2>4 DEF NoticeOnce, spent
<1>4. CASE Notify
  <2>1. /\ main = "notice" /\ main' = "up"
        /\ notices' = notices \/ notices' = notices + 1
        /\ UNCHANGED marker /\ Spent' = Spent
    BY <1>4 DEF Notify, Spent
  <2> QED
    BY <1>0, <2>1 DEF NoticeOnce
<1>5. ASSUME NEW u \in Upgrades, UpgradeBegins(u) \/ (Upgrade(u) /\ ~Exec(u) /\ ~UpgradeMarks(u))
      PROVE  NoticeOnce'
  <2>1. UNCHANGED <<main, marker, notices>>
    BY <1>5 DEF UpgradeBegins, Upgrade, UpgradeGivesUp, UpgradeStops, ExecFails, UpgradeStep
  <2>2. Spent \subseteq Spent'
    BY <1>0, <1>5 DEF UpgradeBegins, Upgrade, UpgradeGivesUp, UpgradeStops, ExecFails, UpgradeStep, Spent
  <2> QED
    BY <1>1, <2>1, <2>2
<1>6. ASSUME NEW u \in Upgrades, UpgradeMarks(u)
      PROVE  NoticeOnce'
  <2>1. /\ UNCHANGED <<main, notices>> /\ marker' \in {marker, 1}
        /\ upgrade[u] = "wait" /\ upgrade' = [upgrade EXCEPT ![u] = "exec"]
    BY <1>6 DEF UpgradeMarks, UpgradeStep
  <2>2. Spent' = Spent \cup {u} /\ u \notin Spent
    BY <1>0, <2>1 DEF Spent
  <2>3. spent' = spent + 1 /\ spent \in Nat /\ marker \in 0..1 /\ notices \in Nat
    BY <1>0, <2>2, FS_AddElement
  <2>4. /\ marker' \in 0..1 /\ marker' <= marker + 1 /\ notices' = notices /\ main' = main
    BY <1>0, <2>1
  <2>5. CASE main = "notice"
    BY <2>3, <2>4, <2>5 DEF NoticeOnce
  <2>6. CASE main # "notice"
    BY <2>3, <2>4, <2>6 DEF NoticeOnce
  <2> QED
    BY <2>5, <2>6
<1>7. CASE (\E m \in Messages : Deliver(m) \/ QueryEnds(m)) \/ VoiceTimer \/ SaveDedup \/ Sigterm
           \/ Heard \/ NotHeard \/ LeaveLoop \/ UNCHANGED vars
  <2>1. UNCHANGED upgradeVars /\ (main' = "notice" => main = "notice")
    BY <1>7 DEF Deliver, QueryEnds, VoiceTimer, TimerFires, OnTimer, SaveDedup, Sigterm, Heard,
                NotHeard, LeaveLoop, vars, processVars
  <2> QED
    BY <1>1, <2>1 DEF upgradeVars, Spent
<1> QED
  BY <1>2, <1>3, <1>4, <1>5, <1>6, <1>7 DEF Next, MainThread, Upgrade

\* However the process ends and starts again, and with any number of upgrades at the same time, an
\* upgrade is announced at most once, and only when it is through.
THEOREM NoticeSafe == Spec => []NoticeOnce
<1>1. Init => Types /\ NoticeOnce
  <2> SUFFICES ASSUME Init PROVE Types /\ NoticeOnce
    OBVIOUS
  <2>1. Spent = {}
    BY DEF Init, Spent
  <2>2. Cardinality(Spent) = 0
    BY <2>1, FS_EmptySet
  <2> QED
    BY <2>2, InitTypes DEF Init, NoticeOnce
<1>2. Types /\ NoticeOnce /\ [Next]_vars => (Types /\ NoticeOnce)'
  BY StepTypes, StepNotice
<1> QED
  BY <1>1, <1>2, PTL DEF Spec

----------------------------------------------------------------------------
(* The way to the end of the process                                        *)

\* How far the main thread is.
Stage(at) ==
  CASE at = "notice" -> 0
    [] at \in {"up", "transcribe"} -> 1
    [] at = "drain" -> 2
    [] at \in {"exited", "failed"} -> 3

\* No upgrade is under way.
NoUpgrade == \A u \in Upgrades : upgrade[u] \in {"new", "over"}

\* A process that is gone has left no flag, no upgrade and no work behind; one that leaves its
\* loop does so because of the flag.
EndInv ==
  /\ ~Alive => stopping = {} /\ NoUpgrade /\ running = {} /\ buffer = <<>>
               /\ armed = {} /\ waiting = 0
  /\ Flushed => stopping # {}
  /\ \A u \in Upgrades : upgrade[u] \in {"wait", "exec"} => stopping # {}

\* What may happen to a process that is to stop: it goes on with all that it has to do, or it is
\* over with all that it did.
EndsOnward ==
  stopping # {} =>
    \/ stopping' = stopping /\ Alive' /\ Stage(main') >= Stage(main)
    \/ /\ stopping' = {} /\ NoUpgrade' /\ running' = {} /\ buffer' = <<>>
       /\ armed' = {} /\ waiting' = 0
       /\ main' \in {"exited", "failed"} \/ \E u \in Upgrades : upgrade[u] = "exec"

LEMMA StageOrder ==
  /\ Stage("notice") = 0 /\ Stage("up") = 1 /\ Stage("transcribe") = 1 /\ Stage("drain") = 2
BY DEF Stage

LEMMA StepEnds ==
  ASSUME Types, EndInv, [Next]_vars
  PROVE  EndInv' /\ EndsOnward
<1> USE DEF EndInv, EndsOnward, Alive, Flushed, NoUpgrade
<1>0. /\ main \in {"up", "transcribe", "drain", "notice", "exited", "failed"}
      /\ stopping \in SUBSET {"flag"}
      /\ upgrade \in [Upgrades -> {"new", "prepare", "wait", "exec", "over"}]
      /\ Stage(main) \in Nat
  BY DEF Types, ProcessType, UpgradeType, Stage
<1>1. CASE MainReturns \/ Crash
  <2>1. /\ main' \in {"exited", "failed"}
        /\ stopping' = {} /\ NoUpgrade' /\ running' = {} /\ buffer' = <<>>
        /\ armed' = {} /\ waiting' = 0
    BY <1>1 DEF MainReturns, Crash, ThreadsEnd
  <2> QED
    BY <2>1
<1>2. ASSUME NEW u \in Upgrades, Exec(u) PROVE EndInv' /\ EndsOnward
  <2>1. /\ main' \in {"up", "notice"} /\ upgrade[u] = "exec"
        /\ stopping' = {} /\ NoUpgrade' /\ running' = {} /\ buffer' = <<>>
        /\ armed' = {} /\ waiting' = 0
    BY <1>2 DEF Exec, StartUp, ThreadsEnd
  <2> QED
    BY <2>1
<1>3. CASE Restart
  <2>1. /\ ~Alive /\ main' \in {"up", "notice"}
        /\ UNCHANGED <<stopping, upgrade>>
    BY <1>3 DEF Restart, StartUp
  <2> QED
    BY <2>1
<1>4. CASE Sigterm
  <2>1. Alive /\ stopping = {} /\ stopping' = {"flag"} /\ UNCHANGED <<main, upgrade>>
    BY <1>4 DEF Sigterm, upgradeVars
  <2> QED
    BY <1>0, <2>1
<1>5. CASE LeaveLoop \/ Notify \/ Heard \/ NotHeard
  <2>1. UNCHANGED <<stopping, upgrade>>
    BY <1>5 DEF LeaveLoop, Notify, Heard, NotHeard, upgradeVars
  <2>2. \/ main = "up" /\ main' = "drain" /\ stopping # {}
        \/ main \in {"notice", "transcribe"} /\ main' = "up"
    BY <1>5 DEF LeaveLoop, Notify, Heard, NotHeard
  <2> QED
    BY <1>0, <2>1, <2>2, StageOrder
<1>6. ASSUME NEW m \in Messages, Deliver(m) PROVE EndInv' /\ EndsOnward
  <2>1. UNCHANGED <<stopping, upgrade>> /\ main = "up" /\ main' \in {"up", "transcribe"}
    BY <1>6 DEF Deliver, upgradeVars
  <2> QED
    BY <1>0, <2>1, StageOrder
<1>7. ASSUME NEW m \in Messages, QueryEnds(m) PROVE EndInv' /\ EndsOnward
  <2>1. UNCHANGED <<stopping, upgrade, main>> /\ Alive
    BY <1>7 DEF QueryEnds, processVars, upgradeVars, voiceVars
  <2> QED
    BY <1>0, <2>1
<1>8. CASE VoiceTimer \/ SaveDedup
  <2>1. UNCHANGED <<stopping, upgrade, main>>
    BY <1>8 DEF VoiceTimer, TimerFires, OnTimer, SaveDedup, processVars, upgradeVars
  <2>2. CASE Alive
    BY <1>0, <2>1, <2>2
  <2>3. CASE ~Alive
    <3>1. ~TimerFires /\ ~OnTimer /\ ~SaveDedup
      BY <2>3 DEF TimerFires, OnTimer, SaveDedup
    <3> QED
      BY <1>8, <3>1 DEF VoiceTimer
  <2> QED
    BY <2>2, <2>3
<1>9. ASSUME NEW u \in Upgrades, UpgradeBegins(u) PROVE EndInv' /\ EndsOnward
  <2>1. /\ UNCHANGED <<stopping, main>> /\ main = "up"
        /\ upgrade' = [upgrade EXCEPT ![u] = "prepare"]
    BY <1>9 DEF UpgradeBegins, UpgradeStep
  <2> QED
    BY <1>0, <2>1
<1>10. ASSUME NEW u \in Upgrades, UpgradeStops(u) PROVE EndInv' /\ EndsOnward
  <2>1. /\ stopping' = {"flag"} /\ main' = main /\ Alive
    BY <1>10 DEF UpgradeStops, UpgradeStep
  <2>2. stopping # {} => stopping' = stopping
    BY <1>0, <2>1
  <2> QED
    BY <1>0, <2>1, <2>2
<1>11. ASSUME NEW u \in Upgrades, UpgradeGivesUp(u) \/ UpgradeMarks(u) \/ ExecFails(u)
       PROVE  EndInv' /\ EndsOnward
  <2>1. /\ UNCHANGED <<stopping, main>> /\ Alive
        /\ upgrade' = [upgrade EXCEPT ![u] = "over"]
           \/ (upgrade' = [upgrade EXCEPT ![u] = "exec"] /\ upgrade[u] = "wait")
    BY <1>11 DEF UpgradeGivesUp, UpgradeMarks, ExecFails, UpgradeStep
  <2> QED
    BY <1>0, <2>1
<1>12. CASE UNCHANGED vars
  BY <1>0, <1>12 DEF vars, processVars, upgradeVars, queryVars, voiceVars
<1> QED
  BY <1>1, <1>2, <1>3, <1>4, <1>5, <1>6, <1>7, <1>8, <1>9, <1>10, <1>11, <1>12
  DEF Next, MainThread, Upgrade

\* The core of StopsInTheEnd.  Whatever SIGTERM, /upgrade, a crash and the threads of the process do
\* to each other, the flag is not taken back: the main thread only gets nearer to its end, and the
\* flag is gone only with the whole process and its threads, which leaves it, or is replaced by
\* the upgrade that asked for it (concurrency.py 181-187, bridge.py 136-140 and 690-703, commands.py 3678).
THEOREM EndSafe == Spec => [][EndsOnward]_vars
<1>1. Init => Types /\ EndInv
  <2> SUFFICES ASSUME Init PROVE Types /\ EndInv
    OBVIOUS
  <2> QED
    BY InitTypes DEF Init, EndInv, Alive, Flushed, NoUpgrade
<1>2. Types /\ EndInv /\ [Next]_vars => (Types /\ EndInv)' /\ [EndsOnward]_vars
  BY StepTypes, StepEnds
<1> QED
  BY <1>1, <1>2, PTL DEF Spec

=============================================================================
