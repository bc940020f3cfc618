---------------------------- MODULE CascadeProofs ----------------------------
(* Proofs about Cascade, for every number of chats, layers, cascades, places *)
(* and tries.                                                                *)
EXTENDS Cascade, TLAPS, FiniteSetTheorems

PCs == {"none", "lost", "waits", "starts", "asks", "stamps", "saves", "writes", "leaves", "end"}

\* The workers of the cascades that were begun have a summary to work on, and there are no others.
HasContent == \A w \in Workers : pc[w] # "none" => Said(w) \in Contents
NoneEarly  == \A w \in Workers : w[2] > begun[ChatOf(w)] => pc[w] = "none"

TypeInv == TypeOK /\ HasContent /\ NoneEarly

LEMMA WorkerParts ==
  ASSUME NEW w \in Workers
  PROVE  /\ ChatOf(w) \in Chats /\ w[2] \in 1..MaxCascades /\ Layer(w) \in Layers
         /\ CascadeOf(w) \in Chats \X (1..MaxCascades)
         /\ CascadeOf(w) = <<ChatOf(w), w[2]>>
         /\ w = <<ChatOf(w), w[2], Layer(w)>>
  BY DEF Workers, ChatOf, Layer, CascadeOf

LEMMA WriterKinds ==
  ASSUME NEW w \in Workers
  PROVE  w # Nobody /\ w # TheUser
<1>1. w = <<w[1], w[2], w[3]>>
  BY DEF Workers
<1>2. DOMAIN w = 1..3 /\ DOMAIN Nobody = 1..0 /\ DOMAIN TheUser = 1..1
  BY <1>1 DEF Nobody, TheUser
<1>3. QED BY <1>2

LEMMA FileKinds ==
  /\ Absent \in File /\ OldFile \in File /\ UserFile \in File
  /\ \A l \in Layers : TypeOK => FactsIn(l) \in SUBSET Facts /\ file[l] \in File
  BY DEF Absent, OldFile, UserFile, File, Facts, TypeOK, FactsIn

LEMMA Stamped ==
  ASSUME NEW facts \in SUBSET Facts, NEW x \in Contents
  PROVE  /\ [facts |-> facts, stamp |-> x] \in File
         /\ [facts |-> facts \cup {x}, stamp |-> x] \in File
         /\ facts \cup {x} \in SUBSET Facts
  BY DEF File, Facts

----------------------------------------------------------------------------
(* The places: every worker that holds one is counted, however it ends      *)

PlacesInv == free \in Nat /\ free + Cardinality(Holders) = Places

LEMMA HoldersFinite == IsFiniteSet(Holders) /\ Cardinality(Holders) \in Nat
<1>1. IsFiniteSet(1..MaxCascades)
  BY CascadeAssumption, FS_Interval
<1>2. IsFiniteSet((1..MaxCascades) \X Layers)
  BY <1>1, CascadeAssumption, FS_Product
<1>3. IsFiniteSet(Chats \X ((1..MaxCascades) \X Layers))
  BY <1>2, CascadeAssumption, FS_Product
<1>4. IsFiniteSet(Workers)
  <2> DEFINE S == Chats \X ((1..MaxCascades) \X Layers)
             f == [s \in S |-> <<s[1], s[2][1], s[2][2]>>]
  <2>1. f \in [S -> Workers]
    BY DEF Workers
  <2>2. ASSUME NEW w \in Workers PROVE \E s \in S : f[s] = w
    <3>1. w = <<w[1], w[2], w[3]>> /\ <<w[1], <<w[2], w[3]>>>> \in S
      BY DEF Workers
    <3>2. f[<<w[1], <<w[2], w[3]>>>>] = w
      BY <3>1
    <3>3. QED BY <3>1, <3>2
  <2>3. f \in Surjection(S, Workers)
    BY <2>1, <2>2 DEF Surjection
  <2>4. QED
    BY <1>3, <2>3, FS_Surjection
<1>5. QED
  BY <1>4, FS_Subset, FS_CardinalityType DEF Holders

LEMMA HoldersEnter ==
  ASSUME pc \in [Workers -> PCs], NEW w \in Workers, pc[w] \notin Holding, NEW next \in Holding,
         pc' = [pc EXCEPT ![w] = next]
  PROVE  Cardinality(Holders)' = Cardinality(Holders) + 1
<1>1. Holders' = Holders \cup {w} /\ w \notin Holders
  BY DEF Holders
<1>2. QED
  BY <1>1, HoldersFinite, FS_AddElement

LEMMA HoldersLeave ==
  ASSUME pc \in [Workers -> PCs], NEW w \in Workers, pc[w] \in Holding, NEW next, next \notin Holding,
         pc' = [pc EXCEPT ![w] = next]
  PROVE  Cardinality(Holders)' = Cardinality(Holders) - 1
<1>1. Holders' = Holders \ {w} /\ w \in Holders
  BY DEF Holders
<1>2. QED
  BY <1>1, HoldersFinite, FS_RemoveElement

\* The steps of a worker between the first and the last.
LEMMA HoldersStay ==
  ASSUME pc \in [Workers -> PCs], NEW w \in Workers,
         WorkerStep(w), ~Enter(w), ~Dropped(w), ~Leave(w)
  PROVE  free' = free /\ Holders' = Holders
<1> USE DEF Goes, Stays, PCs
<1>1. free' = free /\ \E next \in Holding : pc' = [pc EXCEPT ![w] = next] /\ pc[w] \in Holding
  <2> USE DEF Holding
  <2>1. CASE Cancelled(w) \/ Skip(w) \/ ReadFile(w) \/ Answer(w) \/ NothingNew(w) \/ Restamp(w)
    BY <2>1 DEF Cancelled, Skip, ReadFile, Answer, NothingNew, Restamp
  <2>2. CASE Useless(w)
    BY <2>2 DEF Useless
  <2>3. CASE WriteBegins(w) \/ WriteFails(w) \/ WriteEnds(w)
    BY <2>3 DEF WriteBegins, WriteFails, WriteEnds
  <2>4. QED
    BY <2>1, <2>2, <2>3 DEF WorkerStep
<1>2. QED
  BY <1>1 DEF Holders

LEMMA PlacesStep ==
  ASSUME TypeInv, PlacesInv, [Next]_vars
  PROVE  PlacesInv'
<1>0. pc \in [Workers -> PCs] /\ free \in 0..Places
  BY DEF TypeInv, TypeOK, PCs
<1>1. ASSUME UNCHANGED free, Holders' = Holders PROVE PlacesInv'
  BY <1>1 DEF PlacesInv
<1>2. CASE UNCHANGED vars
  BY <1>1, <1>2 DEF vars, workVars, Holders
<1>3. ASSUME NEW c \in Chats, NEW x \in Contents, Begin(c, x) PROVE PlacesInv'
  <2>0. \A w \in Workers : CascadeOf(w) = <<c, begun[c] + 1>> => pc[w] = "none"
    BY WorkerParts DEF TypeInv, TypeOK, NoneEarly
  <2>1. \A w \in Workers : pc'[w] \in Holding <=> pc[w] \in Holding
    BY <1>3, <2>0 DEF Begin, Holding
  <2>2. Holders' = Holders /\ UNCHANGED free
    BY <1>3, <2>1 DEF Holders, Begin
  <2>3. QED BY <1>1, <2>2
<1>4. ASSUME NEW w \in Workers, Enter(w) PROVE PlacesInv'
  <2>1. free' = free - 1 /\ free > 0 /\ Cardinality(Holders)' = Cardinality(Holders) + 1
    BY <1>0, <1>4, HoldersEnter DEF Enter, Goes, Holding
  <2>2. QED BY <1>0, <2>1, HoldersFinite DEF PlacesInv
<1>5. ASSUME NEW w \in Workers, Leave(w) PROVE PlacesInv'
  <2>1. free' = free + 1 /\ Cardinality(Holders)' = Cardinality(Holders) - 1
    BY <1>0, <1>5, HoldersLeave DEF Leave, Goes, Holding
  <2>2. QED BY <1>0, <2>1, HoldersFinite DEF PlacesInv
<1>6. ASSUME NEW w \in Workers, Dropped(w) PROVE PlacesInv'
  <2>1. free' = free /\ Holders' = Holders
    BY <1>0, <1>6 DEF Dropped, Goes, Holders, Holding
  <2>2. QED BY <1>1, <2>1
<1>7. ASSUME NEW w \in Workers, WorkerStep(w), ~Enter(w), ~Dropped(w), ~Leave(w)
      PROVE  PlacesInv'
  BY <1>0, <1>1, <1>7, HoldersStay
<1>8. ASSUME NEW l \in Layers, SetBegins(l) \/ SetEnds(l) \/ Clear(l) \/ GcFinds(l) \/ GcRemoves(l)
      PROVE  PlacesInv'
  BY <1>1, <1>8 DEF SetBegins, SetEnds, Clear, GcFinds, GcRemoves, UserStays, workVars, Holders
<1>9. QED
  BY <1>2, <1>3, <1>4, <1>5, <1>6, <1>7, <1>8 DEF Next

LEMMA PlacesBound == PlacesInv => free \in 0..Places
  BY HoldersFinite, CascadeAssumption DEF PlacesInv

----------------------------------------------------------------------------
(* Types                                                                   *)

\* What a step of a worker leaves alone, and where it may go.
LEMMA WorkerMoves ==
  ASSUME NEW w \in Workers, WorkerStep(w)
  PROVE  /\ \E next \in PCs \ {"none", "lost", "waits"} : pc' = [pc EXCEPT ![w] = next]
         /\ pc[w] \notin {"none", "lost", "end"}
         /\ WorkStays
<1> USE DEF Goes, Stays, PCs
<1>1. CASE Enter(w) \/ Dropped(w) \/ Leave(w)
  BY <1>1 DEF Enter, Dropped, Leave
<1>2. CASE Cancelled(w) \/ Skip(w) \/ ReadFile(w) \/ Answer(w) \/ NothingNew(w) \/ Restamp(w)
  BY <1>2 DEF Cancelled, Skip, ReadFile, Answer, NothingNew, Restamp
<1>3. CASE Useless(w)
  BY <1>3 DEF Useless
<1>4. CASE WriteBegins(w) \/ WriteFails(w) \/ WriteEnds(w)
  BY <1>4 DEF WriteBegins, WriteFails, WriteEnds
<1>5. QED
  BY <1>1, <1>2, <1>3, <1>4 DEF WorkerStep

LEMMA ContentStep ==
  ASSUME TypeInv, [Next]_vars
  PROVE  HasContent'
<1> USE DEF TypeInv, HasContent
<1>1. CASE UNCHANGED vars
  BY <1>1 DEF vars, workVars, Said
<1>2. ASSUME NEW c \in Chats, NEW x \in Contents, Begin(c, x) PROVE HasContent'
  <2> DEFINE n == begun[c] + 1
  <2>1. /\ content' = [content EXCEPT ![<<c, n>>] = x]
        /\ \A w \in Workers : CascadeOf(w) # <<c, n>> => pc'[w] = pc[w]
    BY <1>2 DEF Begin
  <2>2. <<c, n>> \in Chats \X (1..MaxCascades)
    BY <1>2, CascadeAssumption DEF Begin, TypeOK
  <2> SUFFICES ASSUME NEW w \in Workers, pc'[w] # "none"
               PROVE  content'[CascadeOf(w)] \in Contents
    BY DEF Said
  <2>3. CASE CascadeOf(w) = <<c, n>>
    BY <2>1, <2>2, <2>3 DEF TypeOK
  <2>4. CASE CascadeOf(w) # <<c, n>>
    <3>1. content'[CascadeOf(w)] = content[CascadeOf(w)]
      BY <2>1, <2>4, WorkerParts DEF TypeOK
    <3>2. pc[w] # "none"
      BY <2>1, <2>4
    <3>3. QED BY <3>1, <3>2 DEF Said
  <2>5. QED BY <2>3, <2>4
<1>3. ASSUME NEW v \in Workers, WorkerStep(v) PROVE HasContent'
  <2>1. /\ \E next \in PCs \ {"none", "lost", "waits"} : pc' = [pc EXCEPT ![v] = next]
        /\ pc[v] # "none" /\ content' = content
    BY <1>3, WorkerMoves DEF WorkStays
  <2>2. QED BY <2>1 DEF Said, TypeOK
<1>4. ASSUME NEW l \in Layers, SetBegins(l) \/ SetEnds(l) \/ Clear(l) \/ GcFinds(l) \/ GcRemoves(l)
      PROVE  HasContent'
  BY <1>4 DEF SetBegins, SetEnds, Clear, GcFinds, GcRemoves, UserStays, workVars, Said
<1>5. QED
  BY <1>1, <1>2, <1>3, <1>4 DEF Next

LEMMA TypeBegin ==
  ASSUME TypeInv, NEW c \in Chats, NEW x \in Contents, Begin(c, x)
  PROVE  TypeOK'
<1> DEFINE n == begun[c] + 1
<1>1. n \in 1..MaxCascades /\ n \in 0..MaxCascades /\ active[c] \in 0..MaxCascades
  BY CascadeAssumption DEF Begin, TypeInv, TypeOK
<1>2. begun' \in [Chats -> 0..MaxCascades] /\ active' \in [Chats -> 0..MaxCascades]
  BY <1>1 DEF Begin, TypeInv, TypeOK
<1>3. content' \in [Chats \X (1..MaxCascades) -> Contents \cup {"none"}]
  BY <1>1 DEF Begin, TypeInv, TypeOK
<1>4. told' \in SUBSET (Chats \X (1..MaxCascades))
  <2>1. \A m \in {active[c]} \ {0} : m \in 1..MaxCascades
    BY <1>1
  <2>2. QED BY <2>1 DEF Begin, TypeInv, TypeOK
<1>5. pc' \in [Workers -> PCs]
  BY DEF Begin, TypeInv, TypeOK, PCs
<1>6. excused' \in SUBSET Workers
  BY DEF Begin, TypeInv, TypeOK
<1>7. QED
  BY <1>2, <1>3, <1>4, <1>5, <1>6 DEF Begin, TypeInv, TypeOK, PCs, fileVars

LEMMA EarlyStep ==
  ASSUME TypeInv, [Next]_vars
  PROVE  NoneEarly'
<1> USE DEF TypeInv, NoneEarly
<1>1. CASE UNCHANGED vars
  BY <1>1 DEF vars, workVars
<1>2. ASSUME NEW c \in Chats, NEW x \in Contents, Begin(c, x) PROVE NoneEarly'
  <2> SUFFICES ASSUME NEW w \in Workers, w[2] > begun'[ChatOf(w)] PROVE pc'[w] = "none"
    OBVIOUS
  <2>1. begun' = [begun EXCEPT ![c] = begun[c] + 1] /\ begun[c] \in 0..MaxCascades
    BY <1>2 DEF Begin, TypeOK
  <2>2. /\ ChatOf(w) \in Chats /\ w[2] \in 1..MaxCascades /\ begun[ChatOf(w)] \in 0..MaxCascades
        /\ CascadeOf(w) = <<ChatOf(w), w[2]>>
    BY WorkerParts DEF TypeOK
  <2>3. w[2] > begun[ChatOf(w)] /\ CascadeOf(w) # <<c, begun[c] + 1>>
    BY <2>1, <2>2, CascadeAssumption DEF TypeOK
  <2>4. QED BY <1>2, <2>3 DEF Begin
<1>3. ASSUME NEW v \in Workers, WorkerStep(v) PROVE NoneEarly'
  <2>1. /\ \E next \in PCs \ {"none", "lost", "waits"} : pc' = [pc EXCEPT ![v] = next]
        /\ pc[v] # "none" /\ begun' = begun
    BY <1>3, WorkerMoves DEF WorkStays
  <2>2. QED BY <2>1 DEF TypeOK
<1>4. ASSUME NEW l \in Layers, SetBegins(l) \/ SetEnds(l) \/ Clear(l) \/ GcFinds(l) \/ GcRemoves(l)
      PROVE  NoneEarly'
  BY <1>4 DEF SetBegins, SetEnds, Clear, GcFinds, GcRemoves, UserStays, workVars
<1>5. QED
  BY <1>1, <1>2, <1>3, <1>4 DEF Next

\* What the steps of a worker do to the files and to what it knows.
LEMMA TypeWorker ==
  ASSUME TypeInv, NEW w \in Workers, WorkerStep(w), free' \in 0..Places
  PROVE  TypeOK'
<1>1. pc' \in [Workers -> PCs]
  BY WorkerMoves DEF TypeInv, TypeOK, PCs
<1>2. Layer(w) \in Layers /\ ChatOf(w) \in Chats
  BY WorkerParts
<1>3. pc[w] # "none" => Said(w) \in Contents
  BY DEF TypeInv, HasContent
<1>4. FactsIn(Layer(w)) \in SUBSET Facts
  BY <1>2, FileKinds DEF TypeInv
<1>5. seen[w] \in SUBSET Facts /\ mine[w] \in File /\ tmp[Layer(w)] \in File /\ tries[w] \in Nat
  BY <1>2 DEF TypeInv, TypeOK
<1>6. GiveUpEvent(w) => active' \in [Chats -> 0..MaxCascades]
  BY <1>2, CascadeAssumption DEF GiveUpEvent, TypeInv, TypeOK
<1>7. /\ begun' = begun /\ content' = content /\ told' = told
      /\ gc' = gc /\ commands' = commands /\ excused' = excused
  BY WorkerMoves DEF WorkStays
<1> DEFINE Know  == active' \in [Chats -> 0..MaxCascades] /\ tries' \in [Workers -> Nat]
                    /\ seen' \in [Workers -> SUBSET Facts] /\ mine' \in [Workers -> File]
           Disk  == file' \in [Layers -> File] /\ tmp' \in [Layers -> File]
                    /\ writer' \in [Layers -> Workers \cup {Nobody, TheUser}]
           Judge == judged' \in [Layers -> SUBSET Contents]
<1>8. CASE Enter(w) \/ Dropped(w) \/ Leave(w)
  <2>1. Know
    BY <1>6, <1>8, FileKinds DEF Enter, Dropped, Leave, TypeInv, TypeOK
  <2>2. Disk /\ Judge
    BY <1>8 DEF Enter, Dropped, Leave, TypeInv, TypeOK, fileVars
  <2>3. QED BY <1>1, <1>7, <2>1, <2>2 DEF TypeInv, TypeOK, PCs
<1>9. CASE Cancelled(w) \/ Skip(w) \/ ReadFile(w)
  <2>1. Know
    BY <1>4, <1>9 DEF Cancelled, Skip, ReadFile, Stays, TypeInv, TypeOK
  <2>2. Disk /\ Judge
    BY <1>9 DEF Cancelled, Skip, ReadFile, TypeInv, TypeOK, fileVars
  <2>3. QED BY <1>1, <1>7, <2>1, <2>2 DEF TypeInv, TypeOK, PCs
<1>10. CASE Answer(w) \/ Restamp(w)
  <2>1. pc[w] # "none"
    BY <1>10 DEF Answer, Restamp
  <2>2. mine' \in [Workers -> File]
    <3>1. [facts |-> seen[w] \cup {Said(w)}, stamp |-> Said(w)] \in File
      BY <1>3, <1>5, <2>1, Stamped
    <3>2. [facts |-> FactsIn(Layer(w)), stamp |-> Said(w)] \in File
      BY <1>3, <1>4, <2>1, Stamped
    <3>3. CASE Answer(w)
      BY <3>1, <3>3 DEF Answer, TypeInv, TypeOK
    <3>4. CASE Restamp(w)
      BY <3>2, <3>4 DEF Restamp, TypeInv, TypeOK
    <3>5. QED BY <1>10, <3>3, <3>4
  <2>3. Know /\ Disk /\ Judge
    BY <1>10, <2>2 DEF Answer, Restamp, Stays, TypeInv, TypeOK, fileVars
  <2>4. QED BY <1>1, <1>7, <2>3 DEF TypeInv, TypeOK, PCs
<1>11. CASE NothingNew(w)
  <2>1. Judge
    BY <1>2, <1>3, <1>11 DEF NothingNew, TypeInv, TypeOK
  <2>2. Know /\ Disk
    BY <1>11 DEF NothingNew, Stays, TypeInv, TypeOK, fileVars
  <2>3. QED BY <1>1, <1>7, <2>1, <2>2 DEF TypeInv, TypeOK, PCs
<1>12. CASE Useless(w)
  <2>1. tries' \in [Workers -> Nat]
    BY <1>5, <1>12 DEF Useless, TypeInv, TypeOK
  <2>2. Know /\ Disk /\ Judge
    BY <1>12, <2>1 DEF Useless, Stays, TypeInv, TypeOK, fileVars
  <2>3. QED BY <1>1, <1>7, <2>2 DEF TypeInv, TypeOK, PCs
<1>13. CASE WriteBegins(w) \/ WriteFails(w) \/ WriteEnds(w)
  <2>1. Disk
    BY <1>2, <1>5, <1>13, FileKinds DEF WriteBegins, WriteFails, WriteEnds, TypeInv, TypeOK
  <2>2. Know /\ Judge
    BY <1>13 DEF WriteBegins, WriteFails, WriteEnds, Stays, TypeInv, TypeOK
  <2>3. QED BY <1>1, <1>7, <2>1, <2>2 DEF TypeInv, TypeOK, PCs
<1>14. QED
  BY <1>8, <1>9, <1>10, <1>11, <1>12, <1>13 DEF WorkerStep

LEMMA TypeUser ==
  ASSUME TypeInv, NEW l \in Layers,
         SetBegins(l) \/ SetEnds(l) \/ Clear(l) \/ GcFinds(l) \/ GcRemoves(l)
  PROVE  TypeOK'
<1>1. UserStays
  BY DEF SetBegins, SetEnds, Clear, GcFinds, GcRemoves
<1>2. commands' \in 0..MaxCommands
  <2>1. commands \in 0..MaxCommands /\ MaxCommands \in Nat
    BY CascadeAssumption DEF TypeInv, TypeOK
  <2>2. Command => commands' \in 0..MaxCommands
    BY <2>1 DEF Command
  <2>3. QED BY <2>1, <2>2 DEF SetBegins, SetEnds, Clear, GcFinds, GcRemoves
<1>3. gc' \in SUBSET Layers
  BY DEF SetBegins, SetEnds, Clear, GcFinds, GcRemoves, TypeInv, TypeOK
<1>4. /\ file' \in [Layers -> File] /\ tmp' \in [Layers -> File]
      /\ writer' \in [Layers -> Workers \cup {Nobody, TheUser}]
  <2>1. tmp[l] \in File
    BY DEF TypeInv, TypeOK
  <2>2. CASE SetBegins(l)
    BY <2>2, FileKinds DEF SetBegins, TypeInv, TypeOK
  <2>3. CASE SetEnds(l)
    BY <2>1, <2>3, FileKinds DEF SetEnds, TypeInv, TypeOK
  <2>4. CASE Clear(l) \/ GcFinds(l) \/ GcRemoves(l)
    BY <2>4, FileKinds DEF Clear, GcFinds, GcRemoves, TypeInv, TypeOK, fileVars
  <2>5. QED BY <2>2, <2>3, <2>4
<1>5. QED
  BY <1>1, <1>2, <1>3, <1>4 DEF UserStays, workVars, TypeInv, TypeOK

LEMMA TypeStep ==
  ASSUME TypeInv, PlacesInv, [Next]_vars
  PROVE  TypeInv' /\ PlacesInv'
<1>1. HasContent' /\ NoneEarly' /\ PlacesInv'
  BY ContentStep, EarlyStep, PlacesStep
<1>2. free' \in 0..Places
  <2>1. (PlacesInv => free \in 0..Places)'
    BY PlacesBound, PTL
  <2>2. QED BY <1>1, <2>1
<1>3. CASE UNCHANGED vars
  BY <1>1, <1>3 DEF vars, workVars, fileVars, TypeInv, TypeOK
<1>4. CASE Next
  BY <1>1, <1>2, <1>4, TypeBegin, TypeWorker, TypeUser DEF Next, TypeInv
<1>5. QED
  BY <1>3, <1>4

----------------------------------------------------------------------------
(* The stamps                                                              *)

\* A stamp is true of what is in the file, of what is on its way into it, and of what a worker
\* holds; who writes when does not matter.
TrueOf(f, l) == f.stamp # "none" => f.stamp \in f.facts \cup judged[l]

StampInv ==
  /\ \A l \in Layers : TrueOf(file[l], l) /\ TrueOf(tmp[l], l)
  /\ \A w \in Workers : TrueOf(mine[w], Layer(w))
  /\ \A w \in Workers : pc[w] = "stamps" => Said(w) \in judged[Layer(w)]

LEMMA StampedFiles ==
  /\ \A l \in Layers : TrueOf(Absent, l) /\ TrueOf(OldFile, l) /\ TrueOf(UserFile, l)
  /\ \A l \in Layers : \A facts, x : x \in facts \cup judged[l] => TrueOf([facts |-> facts, stamp |-> x], l)
  BY DEF TrueOf, Absent, OldFile, UserFile

\* What was judged stays judged.
LEMMA TrueStays ==
  ASSUME \A l \in Layers : judged[l] \subseteq judged'[l], NEW f, NEW l \in Layers, TrueOf(f, l)
  PROVE  f.stamp # "none" => f.stamp \in f.facts \cup judged'[l]
  BY DEF TrueOf

LEMMA StampStep ==
  ASSUME TypeInv, StampInv, [Next]_vars
  PROVE  StampInv'
<1> USE DEF StampInv
<1>1. ASSUME UNCHANGED judged,
             \A l \in Layers : file'[l] \in {file[l], tmp[l], Absent},
             \A l \in Layers : tmp'[l] \in {tmp[l], Absent, UserFile} \cup {mine[w] : w \in {v \in Workers : Layer(v) = l}},
             \A w \in Workers : mine'[w] = mine[w] \/ TrueOf(mine'[w], Layer(w)),
             \A w \in Workers : pc'[w] = "stamps" =>
                pc[w] = "stamps" /\ content'[CascadeOf(w)] = content[CascadeOf(w)]
      PROVE  StampInv'
  <2>1. \A f : \A l \in Layers :
          TrueOf(f, l) => (f.stamp # "none" => f.stamp \in f.facts \cup judged'[l])
    BY <1>1, TrueStays
  <2>2. ASSUME NEW l \in Layers PROVE TrueOf(file[l], l)'
    <3>1. TrueOf(file[l], l) /\ TrueOf(tmp[l], l) /\ TrueOf(Absent, l)
      BY StampedFiles
    <3>2. TrueOf(file'[l], l)
      BY <1>1, <3>1
    <3>3. QED BY <1>1, <3>2 DEF TrueOf
  <2>3. ASSUME NEW l \in Layers PROVE TrueOf(tmp[l], l)'
    <3>1. TrueOf(tmp[l], l) /\ TrueOf(Absent, l) /\ TrueOf(UserFile, l)
      BY StampedFiles
    <3>2. \A w \in Workers : Layer(w) = l => TrueOf(mine[w], l)
      OBVIOUS
    <3>3. TrueOf(tmp'[l], l)
      BY <1>1, <3>1, <3>2
    <3>4. QED BY <1>1, <3>3 DEF TrueOf
  <2>4. ASSUME NEW w \in Workers PROVE TrueOf(mine[w], Layer(w))'
    <3>1. TrueOf(mine'[w], Layer(w))
      BY <1>1
    <3>2. QED BY <1>1, <3>1 DEF TrueOf
  <2>5. ASSUME NEW w \in Workers, pc'[w] = "stamps" PROVE Said(w)' \in judged'[Layer(w)]
    BY <1>1, <2>5 DEF Said
  <2>6. QED BY <2>2, <2>3, <2>4, <2>5
<1> HIDE DEF StampInv
<1>2. CASE UNCHANGED vars
  <2>1. UNCHANGED <<judged, file, tmp, mine, pc, content>>
    BY <1>2 DEF vars, workVars, fileVars
  <2>2. QED BY <1>1, <2>1
<1>3. ASSUME NEW c \in Chats, NEW x \in Contents, Begin(c, x) PROVE StampInv'
  <2>1. UNCHANGED <<judged, file, tmp, mine>>
    BY <1>3 DEF Begin, fileVars
  <2>2. ASSUME NEW w \in Workers, pc'[w] = "stamps"
        PROVE  pc[w] = "stamps" /\ content'[CascadeOf(w)] = content[CascadeOf(w)]
    BY <1>3, <2>2, WorkerParts DEF Begin, TypeInv, TypeOK
  <2>3. QED BY <1>1, <2>1, <2>2
<1>4. ASSUME NEW v \in Workers, WorkerStep(v) PROVE StampInv'
  <2>0. Layer(v) \in Layers /\ (pc[v] # "none" => Said(v) \in Contents)
    BY WorkerParts DEF TypeInv, HasContent
  <2>1. content' = content /\ \E next \in PCs : pc' = [pc EXCEPT ![v] = next]
    BY <1>4, WorkerMoves DEF WorkStays
  <2>2. CASE NothingNew(v)
    <3>1. /\ UNCHANGED <<file, tmp, mine, content>> /\ pc' = [pc EXCEPT ![v] = "stamps"]
          /\ judged' = [judged EXCEPT ![Layer(v)] = @ \cup {Said(v)}]
      BY <2>1, <2>2 DEF NothingNew, Goes, fileVars
    <3>2. /\ \A l \in Layers : judged[l] \subseteq judged'[l]
          /\ Said(v) \in judged'[Layer(v)]
      BY <2>0, <3>1 DEF TypeInv, TypeOK
    <3>3. \A f : \A l \in Layers :
            TrueOf(f, l) => (f.stamp # "none" => f.stamp \in f.facts \cup judged'[l])
      BY <3>2, TrueStays
    <3>4. ASSUME NEW l \in Layers PROVE TrueOf(file[l], l)' /\ TrueOf(tmp[l], l)'
      <4>1. TrueOf(file[l], l) /\ TrueOf(tmp[l], l)
        BY DEF StampInv
      <4>2. QED BY <3>1, <3>3, <4>1 DEF TrueOf
    <3>5. ASSUME NEW w \in Workers PROVE TrueOf(mine[w], Layer(w))'
      <4>1. TrueOf(mine[w], Layer(w)) /\ Layer(w) \in Layers
        BY WorkerParts DEF StampInv
      <4>2. QED BY <3>1, <3>3, <4>1 DEF TrueOf
    <3>6. ASSUME NEW w \in Workers, pc'[w] = "stamps" PROVE Said(w)' \in judged'[Layer(w)]
      <4>1. Said(w)' = Said(w) /\ Layer(w) \in Layers
        BY <3>1, WorkerParts DEF Said
      <4>2. CASE w = v
        BY <3>2, <4>1, <4>2
      <4>3. CASE w # v
        <5>1. pc[w] = "stamps"
          BY <3>1, <3>6, <4>3 DEF TypeInv, TypeOK
        <5>2. QED BY <3>2, <4>1, <5>1 DEF StampInv
      <4>4. QED BY <4>2, <4>3
    <3>7. QED BY <3>4, <3>5, <3>6 DEF StampInv
  <2>3. CASE Answer(v) \/ Restamp(v)
    <3>1. UNCHANGED <<judged, file, tmp>> /\ pc'[v] # "stamps"
      BY <2>3 DEF Answer, Restamp, Goes, fileVars, TypeInv, TypeOK
    <3>2. mine'[v] = mine[v] \/ TrueOf(mine'[v], Layer(v))
      <4>1. CASE Answer(v)
        <5>1. mine'[v] = [facts |-> seen[v] \cup {Said(v)}, stamp |-> Said(v)]
          BY <4>1 DEF Answer, TypeInv, TypeOK
        <5>2. QED BY <2>0, <5>1, StampedFiles
      <4>2. CASE Restamp(v)
        <5>1. mine'[v] = mine[v] \/ mine'[v] = [facts |-> FactsIn(Layer(v)), stamp |-> Said(v)]
          BY <4>2 DEF Restamp, TypeInv, TypeOK
        <5>2. Said(v) \in judged[Layer(v)]
          BY <4>2 DEF Restamp, StampInv
        <5>3. QED BY <2>0, <5>1, <5>2, StampedFiles
      <4>3. QED BY <2>3, <4>1, <4>2
    <3>3. \A w \in Workers : w # v => mine'[w] = mine[w]
      BY <2>3 DEF Answer, Restamp, TypeInv, TypeOK
    <3>4. \A w \in Workers : mine'[w] = mine[w] \/ TrueOf(mine'[w], Layer(w))
      BY <3>2, <3>3
    <3>5. \A w \in Workers : pc'[w] = "stamps" => pc[w] = "stamps"
      BY <2>1, <3>1 DEF TypeInv, TypeOK
    <3>6. QED BY <1>1, <2>1, <3>1, <3>4, <3>5
  <2>4. CASE WriteBegins(v) \/ WriteFails(v) \/ WriteEnds(v)
    <3>1. UNCHANGED <<judged, mine>> /\ \A w \in Workers : pc'[w] = "stamps" => pc[w] = "stamps"
      BY <2>4 DEF WriteBegins, WriteFails, WriteEnds, Goes, TypeInv, TypeOK
    <3>2. \A l \in Layers : file'[l] \in {file[l], tmp[l]}
      BY <2>4 DEF WriteBegins, WriteFails, WriteEnds, TypeInv, TypeOK
    <3>3. \A l \in Layers : tmp'[l] \in {tmp[l], Absent} \/ (l = Layer(v) /\ tmp'[l] = mine[v])
      BY <2>4 DEF WriteBegins, WriteFails, WriteEnds, TypeInv, TypeOK
    <3>4. QED BY <1>1, <2>1, <3>1, <3>2, <3>3
  <2>5. CASE Enter(v) \/ Dropped(v) \/ Leave(v)
    <3>1. UNCHANGED <<judged, file, tmp>> /\ \A w \in Workers : pc'[w] = "stamps" => pc[w] = "stamps"
      BY <2>5 DEF Enter, Dropped, Leave, Goes, fileVars, TypeInv, TypeOK
    <3>2. \A w \in Workers : mine'[w] \in {mine[w], Absent}
      BY <2>5 DEF Enter, Dropped, Leave, TypeInv, TypeOK
    <3>3. \A w \in Workers : TrueOf(Absent, Layer(w))
      BY WorkerParts, StampedFiles
    <3>4. \A w \in Workers : mine'[w] = mine[w] \/ TrueOf(mine'[w], Layer(w))
      BY <3>2, <3>3
    <3>5. QED BY <1>1, <2>1, <3>1, <3>4
  <2>6. CASE Cancelled(v) \/ Skip(v) \/ ReadFile(v) \/ Useless(v)
    <3>1. UNCHANGED <<judged, file, tmp, mine>>
      BY <2>6 DEF Cancelled, Skip, ReadFile, Useless, fileVars
    <3>2. \A w \in Workers : pc'[w] = "stamps" => pc[w] = "stamps"
      BY <2>6 DEF Cancelled, Skip, ReadFile, Useless, Goes, TypeInv, TypeOK
    <3>3. QED BY <1>1, <2>1, <3>1, <3>2
  <2>7. QED
    BY <1>4, <2>2, <2>3, <2>4, <2>5, <2>6 DEF WorkerStep
<1>5. ASSUME NEW l \in Layers, SetBegins(l) \/ SetEnds(l) \/ Clear(l) \/ GcFinds(l) \/ GcRemoves(l)
      PROVE  StampInv'
  <2>1. UNCHANGED <<judged, mine, pc, content>>
    BY <1>5 DEF SetBegins, SetEnds, Clear, GcFinds, GcRemoves, UserStays, workVars
  <2>2. \A k \in Layers : file'[k] \in {file[k], tmp[k], Absent}
    BY <1>5 DEF SetBegins, SetEnds, Clear, GcFinds, GcRemoves, fileVars, TypeInv, TypeOK
  <2>3. \A k \in Layers : tmp'[k] \in {tmp[k], Absent, UserFile}
    BY <1>5 DEF SetBegins, SetEnds, Clear, GcFinds, GcRemoves, fileVars, TypeInv, TypeOK
  <2>4. QED BY <1>1, <2>1, <2>2, <2>3
<1>6. QED
  BY <1>2, <1>3, <1>4, <1>5 DEF Next

----------------------------------------------------------------------------
(* The writers                                                             *)

\* Who writes holds the lock, and the temporary file is what it wrote.
WriterInv ==
  \A w \in Workers : pc[w] = "writes" => writer[Layer(w)] = w /\ tmp[Layer(w)] = mine[w]

LEMMA WriterStep ==
  ASSUME TypeInv, WriterInv, [Next]_vars
  PROVE  WriterInv'
<1>1. ASSUME \A w \in Workers : pc'[w] = "writes" =>
                 /\ pc[w] = "writes" /\ mine'[w] = mine[w]
                 /\ writer'[Layer(w)] = writer[Layer(w)] /\ tmp'[Layer(w)] = tmp[Layer(w)]
      PROVE  WriterInv'
  BY <1>1 DEF WriterInv
<1>2. CASE UNCHANGED vars
  BY <1>1, <1>2 DEF vars, workVars, fileVars
<1>3. ASSUME NEW c \in Chats, NEW x \in Contents, Begin(c, x) PROVE WriterInv'
  BY <1>1, <1>3 DEF Begin, fileVars
<1>4. ASSUME NEW v \in Workers, WorkerStep(v) PROVE WriterInv'
  <2>1. CASE Enter(v) \/ Dropped(v) \/ Leave(v)
    BY <1>1, <2>1 DEF Enter, Dropped, Leave, Goes, fileVars, TypeInv, TypeOK
  <2>2. CASE Cancelled(v) \/ Skip(v) \/ ReadFile(v) \/ NothingNew(v) \/ Useless(v)
    BY <1>1, <2>2 DEF Cancelled, Skip, ReadFile, NothingNew, Useless, Goes, fileVars, TypeInv, TypeOK
  <2>3. CASE Answer(v) \/ Restamp(v)
    BY <1>1, <2>3 DEF Answer, Restamp, Goes, fileVars, TypeInv, TypeOK
  <2>4. CASE WriteBegins(v)
    <3>1. ASSUME NEW w \in Workers, pc'[w] = "writes"
          PROVE  writer'[Layer(w)] = w /\ tmp'[Layer(w)] = mine'[w]
      <4>1. CASE w = v
        BY <2>4, <4>1, WorkerParts DEF WriteBegins, TypeInv, TypeOK
      <4>2. CASE w # v
        <5>1. pc[w] = "writes" /\ mine'[w] = mine[w]
          BY <2>4, <3>1, <4>2 DEF WriteBegins, Goes, TypeInv, TypeOK
        <5>2. writer[Layer(w)] = w /\ w # Nobody
          BY <5>1, WriterKinds DEF WriterInv
        <5>3. Layer(w) # Layer(v)
          BY <2>4, <5>2 DEF WriteBegins
        <5>4. QED BY <2>4, <5>1, <5>3 DEF WriteBegins, WriterInv, TypeInv, TypeOK
      <4>3. QED BY <4>1, <4>2
    <3>2. QED BY <3>1 DEF WriterInv
  <2>5. CASE WriteFails(v) \/ WriteEnds(v)
    <3>1. ASSUME NEW w \in Workers, pc'[w] = "writes"
          PROVE  writer'[Layer(w)] = w /\ tmp'[Layer(w)] = mine'[w]
      <4>1. w # v /\ pc[w] = "writes" /\ mine'[w] = mine[w] /\ pc[v] = "writes"
        BY <2>5, <3>1 DEF WriteFails, WriteEnds, Goes, TypeInv, TypeOK
      <4>2. Layer(w) # Layer(v)
        BY <4>1 DEF WriterInv
      <4>3. writer'[Layer(w)] = writer[Layer(w)] /\ tmp'[Layer(w)] = tmp[Layer(w)]
        <5>1. Layer(w) \in Layers /\ Layer(v) \in Layers
          BY WorkerParts
        <5>2. CASE WriteFails(v)
          BY <4>2, <5>1, <5>2 DEF WriteFails, TypeInv, TypeOK
        <5>3. CASE WriteEnds(v)
          BY <4>2, <5>1, <5>3 DEF WriteEnds, TypeInv, TypeOK
        <5>4. QED BY <2>5, <5>2, <5>3
      <4>4. QED BY <4>1, <4>3 DEF WriterInv
    <3>2. QED BY <3>1 DEF WriterInv
  <2>6. QED
    BY <1>4, <2>1, <2>2, <2>3, <2>4, <2>5 DEF WorkerStep
<1>5. ASSUME NEW l \in Layers, SetBegins(l) \/ SetEnds(l) \/ Clear(l) \/ GcFinds(l) \/ GcRemoves(l)
      PROVE  WriterInv'
  <2>1. UNCHANGED <<pc, mine>>
    BY <1>5 DEF SetBegins, SetEnds, Clear, GcFinds, GcRemoves, UserStays, workVars
  <2>2. \A k \in Layers : (writer'[k] = writer[k] /\ tmp'[k] = tmp[k]) \/ writer[k] \in {Nobody, TheUser}
    BY <1>5 DEF SetBegins, SetEnds, Clear, GcFinds, GcRemoves, fileVars, TypeInv, TypeOK
  <2>3. ASSUME NEW w \in Workers, pc[w] = "writes" PROVE writer[Layer(w)] \notin {Nobody, TheUser}
    BY <2>3, WriterKinds DEF WriterInv
  <2>4. QED BY <1>1, <2>1, <2>2, <2>3, WorkerParts
<1>6. QED
  BY <1>2, <1>3, <1>4, <1>5 DEF Next

LEMMA ApartStep ==
  ASSUME TypeInv, WriterInv, [Next]_vars, NEW w \in Workers, pc[w] = "writes",
         file'[Layer(w)] # file[Layer(w)]
  PROVE  file'[Layer(w)] \in {mine[w], Absent}
<1>1. writer[Layer(w)] = w /\ tmp[Layer(w)] = mine[w] /\ w # TheUser
  BY WriterKinds DEF WriterInv
<1>2. ASSUME NEW v \in Workers, WriteEnds(v) PROVE file'[Layer(w)] \in {mine[w], Absent}
  <2>1. Layer(v) = Layer(w)
    BY <1>2 DEF WriteEnds, TypeInv, TypeOK
  <2>2. writer[Layer(v)] = v
    BY <1>2 DEF WriteEnds, WriterInv
  <2>3. QED BY <1>1, <1>2, <2>1, <2>2, WorkerParts DEF WriteEnds, TypeInv, TypeOK
<1>3. ASSUME NEW v \in Workers, WorkerStep(v), ~WriteEnds(v) PROVE file' = file
  BY <1>3 DEF WorkerStep, Enter, Dropped, Leave, Cancelled, Skip, ReadFile, Answer, NothingNew,
              Useless, Restamp, WriteBegins, WriteFails, fileVars
<1>4. ASSUME NEW c \in Chats, NEW x \in Contents, Begin(c, x) PROVE file' = file
  BY <1>4 DEF Begin, fileVars
<1>5. ASSUME NEW l \in Layers, SetBegins(l) \/ SetEnds(l) \/ Clear(l) \/ GcFinds(l) \/ GcRemoves(l)
      PROVE  file'[Layer(w)] \in {mine[w], Absent}
  BY <1>1, <1>5, WorkerParts
     DEF SetBegins, SetEnds, Clear, GcFinds, GcRemoves, fileVars, TypeInv, TypeOK
<1>6. CASE UNCHANGED vars
  BY <1>6 DEF vars, fileVars
<1>7. QED
  BY <1>2, <1>3, <1>4, <1>5, <1>6 DEF Next

----------------------------------------------------------------------------
(* Replaced cascades                                                       *)

\* A worker whose cascade was replaced in time has been told so, and has not got past its last look.
StaleInv ==
  \A w \in Workers : InFlight(w) /\ w \notin excused /\ w[2] # begun[ChatOf(w)] =>
     Told(w) /\ pc[w] \notin {"stamps", "saves", "writes"}

LEMMA StaleStep ==
  ASSUME TypeInv, StaleInv, [Next]_vars
  PROVE  StaleInv'
<1>1. CASE UNCHANGED vars
  BY <1>1 DEF vars, workVars, StaleInv, InFlight, Told
<1>2. ASSUME NEW c \in Chats, NEW x \in Contents, Begin(c, x) PROVE StaleInv'
  <2> SUFFICES ASSUME NEW w \in Workers, pc'[w] \notin {"none", "lost", "end"}, w \notin excused',
                      w[2] # begun'[ChatOf(w)]
               PROVE  CascadeOf(w) \in told' /\ pc'[w] \notin {"stamps", "saves", "writes"}
    BY DEF StaleInv, InFlight, Told
  <2>1. /\ begun' = [begun EXCEPT ![c] = begun[c] + 1] /\ told \subseteq told'
        /\ \A v \in Workers : IF CascadeOf(v) = <<c, begun[c] + 1>> THEN pc'[v] \in {"waits", "lost"}
                                                                  ELSE pc'[v] = pc[v]
        /\ \A v \in Workers :
             ChatOf(v) = c /\ InFlight(v) /\ (Decided(v) \/ CascadeOf(v) \notin told') => v \in excused'
        /\ excused \subseteq excused'
    BY <1>2 DEF Begin
  <2>2. CascadeOf(w) # <<c, begun[c] + 1>>
    BY <2>1, WorkerParts DEF TypeInv, TypeOK
  <2>3. pc'[w] = pc[w] /\ InFlight(w) /\ w \notin excused
    BY <2>1, <2>2 DEF InFlight
  <2>4. CASE ChatOf(w) = c
    BY <2>1, <2>3, <2>4 DEF Decided
  <2>5. CASE ChatOf(w) # c
    <3>1. begun'[ChatOf(w)] = begun[ChatOf(w)]
      BY <2>1, <2>5, WorkerParts DEF TypeInv, TypeOK
    <3>2. QED BY <2>1, <2>3, <3>1 DEF StaleInv, Told
  <2>6. QED BY <2>4, <2>5
<1>3. ASSUME NEW v \in Workers, WorkerStep(v) PROVE StaleInv'
  <2> SUFFICES ASSUME NEW w \in Workers, pc'[w] \notin {"none", "lost", "end"}, w \notin excused,
                      w[2] # begun[ChatOf(w)]
               PROVE  CascadeOf(w) \in told /\ pc'[w] \notin {"stamps", "saves", "writes"}
    BY <1>3, WorkerMoves DEF StaleInv, InFlight, Told, WorkStays
  <2>1. InFlight(w)
    BY <1>3, WorkerMoves DEF InFlight, TypeInv, TypeOK
  <2>2. CascadeOf(w) \in told /\ pc[w] \notin {"stamps", "saves", "writes"}
    BY <2>1 DEF StaleInv, Told
  <2>3. CASE w # v
    BY <1>3, <2>2, <2>3, WorkerMoves DEF TypeInv, TypeOK
  <2>4. CASE w = v
    <3>1. Enter(v) \/ Dropped(v) \/ Leave(v) \/ Cancelled(v)
      BY <1>3, <2>2, <2>4
         DEF WorkerStep, Skip, ReadFile, Answer, NothingNew, Useless, Restamp, WriteBegins,
             WriteFails, WriteEnds, Told
    <3>2. QED BY <2>2, <2>4, <3>1 DEF Enter, Dropped, Leave, Cancelled, Goes, TypeInv, TypeOK
  <2>5. QED BY <2>3, <2>4
<1>4. ASSUME NEW l \in Layers, SetBegins(l) \/ SetEnds(l) \/ Clear(l) \/ GcFinds(l) \/ GcRemoves(l)
      PROVE  StaleInv'
  BY <1>4 DEF SetBegins, SetEnds, Clear, GcFinds, GcRemoves, UserStays, workVars, StaleInv, InFlight, Told
<1>5. QED
  BY <1>1, <1>2, <1>3, <1>4 DEF Next

LEMMA UnwrittenStep ==
  ASSUME TypeInv, StaleInv, [Next]_vars, NEW w \in Workers, pc[w] # "writes", pc'[w] = "writes"
  PROVE  w[2] = begun[ChatOf(w)] \/ w \in excused
<1>1. CASE UNCHANGED vars
  BY <1>1 DEF vars, workVars
<1>2. ASSUME NEW c \in Chats, NEW x \in Contents, Begin(c, x) PROVE FALSE
  BY <1>2 DEF Begin
<1>3. ASSUME NEW v \in Workers, WorkerStep(v)
      PROVE  w[2] = begun[ChatOf(w)] \/ w \in excused
  <2>1. w = v
    BY <1>3, WorkerMoves DEF TypeInv, TypeOK
  <2>2. pc[w] = "saves"
    BY <1>3, <2>1 DEF WorkerStep, Enter, Dropped, Leave, Cancelled, Skip, ReadFile, Answer,
          NothingNew, Useless, Restamp, WriteBegins, WriteFails, WriteEnds, Goes, TypeInv, TypeOK
  <2>3. QED BY <2>2 DEF StaleInv, InFlight
<1>4. ASSUME NEW l \in Layers, SetBegins(l) \/ SetEnds(l) \/ Clear(l) \/ GcFinds(l) \/ GcRemoves(l)
      PROVE  FALSE
  BY <1>4 DEF SetBegins, SetEnds, Clear, GcFinds, GcRemoves, UserStays, workVars
<1>5. QED
  BY <1>1, <1>2, <1>3, <1>4 DEF Next

----------------------------------------------------------------------------
(* The events                                                              *)

\* An event is kept only while all the workers of its cascade that were started are on their way.
EventInv ==
  \A w \in Workers : w[2] = active[ChatOf(w)] => pc[w] \notin {"none", "end"}

LEMMA EventStep ==
  ASSUME TypeInv, EventInv, [Next]_vars
  PROVE  EventInv'
<1>1. CASE UNCHANGED vars
  BY <1>1 DEF vars, workVars, EventInv, InFlight
<1>2. ASSUME NEW c \in Chats, NEW x \in Contents, Begin(c, x) PROVE EventInv'
  <2> SUFFICES ASSUME NEW w \in Workers, w[2] = active'[ChatOf(w)]
               PROVE  pc'[w] \notin {"none", "end"}
    BY DEF EventInv, InFlight
  <2>1. /\ active' = [active EXCEPT ![c] = begun[c] + 1]
        /\ \A v \in Workers : IF CascadeOf(v) = <<c, begun[c] + 1>> THEN pc'[v] \in {"waits", "lost"}
                                                                  ELSE pc'[v] = pc[v]
    BY <1>2 DEF Begin
  <2>2. ChatOf(w) \in Chats /\ CascadeOf(w) = <<ChatOf(w), w[2]>>
    BY WorkerParts
  <2>3. CASE ChatOf(w) = c
    BY <2>1, <2>2, <2>3 DEF TypeInv, TypeOK
  <2>4. CASE ChatOf(w) # c
    BY <2>1, <2>2, <2>4 DEF TypeInv, TypeOK, EventInv, InFlight
  <2>5. QED BY <2>3, <2>4
<1>3. ASSUME NEW v \in Workers, WorkerStep(v) PROVE EventInv'
  <2> SUFFICES ASSUME NEW w \in Workers, w[2] = active'[ChatOf(w)]
               PROVE  pc'[w] \notin {"none", "end"}
    BY DEF EventInv, InFlight
  <2>0. /\ ChatOf(w) \in Chats /\ w[2] # 0 /\ active[ChatOf(w)] \in 0..MaxCascades
        /\ CascadeOf(w) = <<ChatOf(w), w[2]>>
        /\ CascadeOf(v) = <<ChatOf(v), v[2]>> /\ ChatOf(v) \in Chats
    BY WorkerParts, CascadeAssumption DEF TypeInv, TypeOK
  <2>1. CASE Dropped(v) \/ Leave(v)
    <3>1. GiveUpEvent(v) /\ pc' = [pc EXCEPT ![v] = "end"]
      BY <2>1 DEF Dropped, Leave, Goes
    <3>2. /\ \A c \in Chats : active'[c] \in {active[c], 0}
          /\ active[ChatOf(v)] = v[2] => active'[ChatOf(v)] = 0
      BY <2>0, <3>1 DEF GiveUpEvent, TypeInv, TypeOK
    <3>3. w[2] = active[ChatOf(w)] /\ w # v
      BY <2>0, <3>2
    <3>4. QED BY <3>1, <3>3 DEF EventInv, InFlight, TypeInv, TypeOK
  <2>2. CASE ~Dropped(v) /\ ~Leave(v)
    <3>1. active' = active
      BY <1>3, <2>2 DEF WorkerStep, Enter, Cancelled, Skip, ReadFile, Answer,
            NothingNew, Useless, Restamp, WriteBegins, WriteFails, WriteEnds, Stays
    <3>2. pc[w] \notin {"none", "end"} /\ (w = v \/ pc'[w] = pc[w])
      BY <1>3, <3>1, WorkerMoves DEF EventInv, TypeInv, TypeOK
    <3>3. pc'[v] # "end" /\ pc'[v] # "none"
      BY <1>3, <2>2 DEF WorkerStep, Enter, Cancelled, Skip, ReadFile, Answer,
            NothingNew, Useless, Restamp, WriteBegins, WriteFails, WriteEnds, Goes, TypeInv, TypeOK
    <3>4. QED BY <3>2, <3>3
  <2>3. QED BY <2>1, <2>2
<1>4. ASSUME NEW l \in Layers, SetBegins(l) \/ SetEnds(l) \/ Clear(l) \/ GcFinds(l) \/ GcRemoves(l)
      PROVE  EventInv'
  BY <1>4 DEF SetBegins, SetEnds, Clear, GcFinds, GcRemoves, UserStays, workVars, EventInv, InFlight
<1>5. QED
  BY <1>1, <1>2, <1>3, <1>4 DEF Next

LEMMA TidyFromInv ==
  ASSUME TypeInv, PlacesInv, EventInv
  PROVE  AllTidy
<1> SUFFICES ASSUME \A w \in Workers : ~InFlight(w)
             PROVE  /\ free = Places
                    /\ \A c \in Chats : active[c] # 0 => \A l \in Layers : pc[<<c, active[c], l>>] = "lost"
  BY DEF AllTidy
<1>1. Holders = {}
  BY DEF Holders, Holding, InFlight
<1>2. free = Places
  BY <1>1, FS_EmptySet DEF PlacesInv
<1>3. ASSUME NEW c \in Chats, active[c] # 0, NEW l \in Layers
      PROVE  pc[<<c, active[c], l>>] = "lost"
  <2>2. active[c] \in 1..MaxCascades
    BY <1>3, CascadeAssumption DEF TypeInv, TypeOK
  <2>3. <<c, active[c], l>> \in Workers
    BY <2>2 DEF Workers
  <2>4. QED BY <2>3 DEF EventInv, ChatOf, InFlight
<1>4. QED
  BY <1>2, <1>3

----------------------------------------------------------------------------
(* The write locks: a lock is held by the user's write or by a worker that  *)
(* writes, which waits for nobody.                                         *)

HolderInv ==
  \A l \in Layers : writer[l] \in {Nobody, TheUser}
                       \/ \E w \in Workers : writer[l] = w /\ pc[w] = "writes" /\ Layer(w) = l

LEMMA HolderStep ==
  ASSUME TypeInv, WriterInv, HolderInv, [Next]_vars
  PROVE  HolderInv'
<1>1. ASSUME \A l \in Layers : writer'[l] = writer[l] \/ writer'[l] \in {Nobody, TheUser},
             \A w \in Workers : pc[w] = "writes" => pc'[w] = "writes"
      PROVE  HolderInv'
  BY <1>1 DEF HolderInv
<1>2. CASE UNCHANGED vars
  BY <1>1, <1>2 DEF vars, workVars, fileVars
<1>3. ASSUME NEW c \in Chats, NEW x \in Contents, Begin(c, x) PROVE HolderInv'
  <2>1. ASSUME NEW w \in Workers, pc[w] = "writes" PROVE CascadeOf(w) # <<c, begun[c] + 1>>
    <3>1. CascadeOf(w) = <<ChatOf(w), w[2]>> /\ ChatOf(w) \in Chats /\ w[2] \in 1..MaxCascades
      BY WorkerParts
    <3>2. ~(w[2] > begun[ChatOf(w)]) /\ begun[ChatOf(w)] \in Nat
      BY <2>1, <3>1, CascadeAssumption DEF TypeInv, TypeOK, NoneEarly
    <3> QED
      BY <3>1, <3>2
  <2> QED
    BY <1>1, <1>3, <2>1 DEF Begin, fileVars
<1>4. ASSUME NEW v \in Workers, WorkerStep(v) PROVE HolderInv'
  <2>1. CASE Enter(v) \/ Dropped(v) \/ Leave(v)
    BY <1>1, <2>1 DEF Enter, Dropped, Leave, Goes, fileVars, TypeInv, TypeOK
  <2>2. CASE Cancelled(v) \/ Skip(v) \/ ReadFile(v) \/ NothingNew(v) \/ Useless(v)
    BY <1>1, <2>2 DEF Cancelled, Skip, ReadFile, NothingNew, Useless, Goes, fileVars, TypeInv, TypeOK
  <2>3. CASE Answer(v) \/ Restamp(v)
    BY <1>1, <2>3 DEF Answer, Restamp, Goes, fileVars, TypeInv, TypeOK
  <2>4. CASE WriteBegins(v)
    <3>1. /\ pc'[v] = "writes" /\ Layer(v) \in Layers /\ writer'[Layer(v)] = v
          /\ \A l \in Layers \ {Layer(v)} : writer'[l] = writer[l]
          /\ \A w \in Workers : pc[w] = "writes" => pc'[w] = "writes"
      BY <2>4, WorkerParts DEF WriteBegins, Goes, TypeInv, TypeOK
    <3> QED
      BY <3>1 DEF HolderInv
  <2>5. CASE WriteFails(v) \/ WriteEnds(v)
    <3>1. /\ Layer(v) \in Layers /\ writer'[Layer(v)] = Nobody
          /\ \A l \in Layers \ {Layer(v)} : writer'[l] = writer[l]
          /\ \A w \in Workers \ {v} : pc'[w] = pc[w]
      BY <2>5, WorkerParts DEF WriteFails, WriteEnds, Goes, TypeInv, TypeOK
    <3> QED
      BY <3>1 DEF HolderInv
  <2> QED
    BY <1>4, <2>1, <2>2, <2>3, <2>4, <2>5 DEF WorkerStep
<1>5. ASSUME NEW l \in Layers, SetBegins(l) \/ SetEnds(l) \/ Clear(l) \/ GcFinds(l) \/ GcRemoves(l)
      PROVE  HolderInv'
  <2>1. UNCHANGED pc
    BY <1>5 DEF SetBegins, SetEnds, Clear, GcFinds, GcRemoves, UserStays, workVars
  <2>2. \A k \in Layers : writer'[k] = writer[k] \/ writer'[k] \in {Nobody, TheUser}
    BY <1>5 DEF SetBegins, SetEnds, Clear, GcFinds, GcRemoves, fileVars, TypeInv, TypeOK
  <2> QED
    BY <1>1, <2>1, <2>2
<1> QED
  BY <1>2, <1>3, <1>4, <1>5 DEF Next

----------------------------------------------------------------------------
(* The theorems                                                            *)

CascadeInv == TypeInv /\ PlacesInv /\ StampInv /\ WriterInv /\ HolderInv /\ StaleInv /\ EventInv

LEMMA CascadeInvariant == Spec => []CascadeInv
<1>1. Init => CascadeInv
  <2> SUFFICES ASSUME Init PROVE CascadeInv
    OBVIOUS
  <2>1. TypeOK
    BY FileKinds, CascadeAssumption DEF Init, TypeOK
  <2>2. \A w \in Workers : pc[w] = "none" /\ w[2] # active[ChatOf(w)]
    BY WorkerParts, CascadeAssumption DEF Init
  <2>3. HasContent /\ NoneEarly /\ WriterInv /\ HolderInv /\ StaleInv /\ EventInv
    BY <2>2 DEF Init, HasContent, NoneEarly, WriterInv, HolderInv, StaleInv, EventInv, InFlight
  <2>4. PlacesInv
    <3>1. Holders = {}
      BY <2>2 DEF Holders, Holding
    <3>2. QED BY <3>1, FS_EmptySet, CascadeAssumption DEF PlacesInv, Init
  <2>5. StampInv
    BY <2>2, StampedFiles, WorkerParts DEF StampInv, Init
  <2>6. QED BY <2>1, <2>3, <2>4, <2>5 DEF CascadeInv, TypeInv
<1>2. CascadeInv /\ [Next]_vars => CascadeInv'
  BY TypeStep, StampStep, WriterStep, HolderStep, StaleStep, EventStep DEF CascadeInv
<1>3. QED
  BY <1>1, <1>2, PTL DEF Spec

\* Every variable of the memory stays in its range; the semaphore of the workers never exceeds its
\* size (_coordinated, memory.py 1449-1490).
THEOREM TypeSafe == Spec => []TypeOK
<1>1. CascadeInv => TypeOK
  BY DEF CascadeInv, TypeInv
<1>2. QED
  BY <1>1, CascadeInvariant, PTL

\* The stamp of a file is true, whoever writes, fails, sets, clears and collects in whatever order
\* (_persist_unchanged_hash and _save_md, memory.py 1084-1107 and 419-495).
THEOREM StampSafe == Spec => []StampIsTrue
<1>1. CascadeInv => StampIsTrue
  BY DEF CascadeInv, StampInv, StampIsTrue, TrueOf, StampOf, FactsIn
<1>2. QED
  BY <1>1, CascadeInvariant, PTL

\* When all workers are through, the places are free and the events are gone, however they ended,
\* but for the event of a cascade none of whose workers was started (_coordinated and _run_cascade,
\* memory.py 1449-1515).
THEOREM TidySafe == Spec => []AllTidy
<1>1. CascadeInv => AllTidy
  BY TidyFromInv DEF CascadeInv
<1>2. QED
  BY <1>1, CascadeInvariant, PTL

\* What replaces a file while a worker writes it is what that worker wrote (the lock of _save_md,
\* memory.py 419-495), though the temporary file has one name for all.
THEOREM ApartSafe == Spec => WritersApart
<1>1. CascadeInv /\ [Next]_vars =>
        [\A w \in Workers : pc[w] = "writes" /\ file'[Layer(w)] # file[Layer(w)] =>
           file'[Layer(w)] \in {mine[w], Absent}]_vars
  BY ApartStep DEF CascadeInv
<1>2. QED
  BY <1>1, CascadeInvariant, PTL DEF Spec, WritersApart

\* A replaced cascade begins no write but for the named exceptions (_cascade_extract and the checks
\* of _run_one_shot_with_backoff, memory.py 1420-1447 and 1238-1257).
THEOREM StaleSafe == Spec => StaleStaysUnwritten
<1>1. CascadeInv /\ [Next]_vars =>
        [\A w \in Workers : pc[w] # "writes" /\ pc'[w] = "writes" =>
           w[2] = begun[ChatOf(w)] \/ w \in excused]_vars
  BY UnwrittenStep DEF CascadeInv
<1>2. QED
  BY <1>1, CascadeInvariant, PTL DEF Spec, StaleStaysUnwritten

\* Every place is free or kept by a worker that will give it back, and a worker that waits to write
\* waits for the user's write or for another worker that has begun to write the same file, and needs
\* no more to end: no place and no lock is left behind, whatever fails, for any chats, layers,
\* cascades and places (_save_md, memory.py 419-495; _coordinated, memory.py 1449-1490).
THEOREM NoneStuckSafe == Spec => []NoneStuck
<1>1. CascadeInv => NoneStuck
  BY WorkerParts DEF CascadeInv, PlacesInv, HolderInv, NoneStuck
<1> QED
  BY <1>1, CascadeInvariant, PTL

----------------------------------------------------------------------------
(* The pool of the workers                                                 *)

WantsPlace == {w \in Workers : pc[w] \in {"none", "lost", "waits"}}

WorkPool == INSTANCE RunnerPool
              WITH Runners <- Workers, MaxProcs <- Places, waiting <- WantsPlace, placed <- Holders

\* What a step of a worker is to the pool.
LEMMA WorkPoolStep ==
  ASSUME CascadeInv, NEW w \in Workers, WorkerStep(w)
  PROVE  [WorkPool!Next]_<<WantsPlace, Holders>>
<1>0. pc \in [Workers -> PCs] /\ free \in 0..Places
  BY DEF CascadeInv, TypeInv, TypeOK, PCs
<1>1. CASE Enter(w)
  <2>1. Cardinality(Holders) < Places
    BY <1>0, <1>1, HoldersFinite, CascadeAssumption DEF Enter, CascadeInv, PlacesInv
  <2>2. WorkPool!Cardinality(Holders) = Cardinality(Holders)
    BY DEF WorkPool!Cardinality, Cardinality
  <2>3. /\ w \in WantsPlace /\ WantsPlace' = WantsPlace \ {w}
        /\ Holders' = Holders \cup {w}
    BY <1>0, <1>1 DEF Enter, Goes, WantsPlace, Holders, Holding
  <2>4. WorkPool!Enter(w)
    BY <2>1, <2>2, <2>3 DEF WorkPool!Enter
  <2> QED
    BY <2>4 DEF WorkPool!Next
<1>2. CASE Dropped(w)
  <2>1. w \in WantsPlace /\ WantsPlace' = WantsPlace \ {w} /\ Holders' = Holders
    BY <1>0, <1>2 DEF Dropped, Goes, WantsPlace, Holders, Holding
  <2>2. WorkPool!GiveUp(w)
    BY <2>1 DEF WorkPool!GiveUp
  <2> QED
    BY <2>2 DEF WorkPool!Next
<1>3. CASE Leave(w)
  <2>1. w \in Holders /\ Holders' = Holders \ {w} /\ WantsPlace' = WantsPlace
    BY <1>0, <1>3 DEF Leave, Goes, WantsPlace, Holders, Holding
  <2>2. WorkPool!Leave(w)
    BY <2>1 DEF WorkPool!Leave
  <2> QED
    BY <2>2 DEF WorkPool!Next
<1>4. CASE ~Enter(w) /\ ~Dropped(w) /\ ~Leave(w)
  <2>1. Holders' = Holders
    BY <1>0, <1>4, HoldersStay
  <2>2. pc[w] \in Holding /\ \E next \in PCs \ {"none", "lost", "waits"} : pc' = [pc EXCEPT ![w] = next]
    BY <1>4, WorkerMoves
      DEF WorkerStep, Cancelled, Skip, ReadFile, Answer, NothingNew, Useless, Restamp, WriteBegins,
          WriteFails, WriteEnds, Holding
  <2>3. WantsPlace' = WantsPlace
    BY <1>0, <2>2 DEF WantsPlace, Holding
  <2> QED
    BY <2>1, <2>3
<1> QED
  BY <1>1, <1>2, <1>3, <1>4

\* The workers implement the pool that the processes use (RunnerPool), for any chats, layers,
\* cascades and places: a worker takes a place once and gives it back once, or is dropped without
\* one (the semaphore of _cascade_extract, memory.py 1449-1490).
THEOREM WorkersUsePool == Spec => WorkPool!Spec
<1>1. Init => WorkPool!Init
  BY DEF Init, WorkPool!Init, WantsPlace, Holders, Holding
<1>2. CascadeInv /\ [Next]_vars => [WorkPool!Next]_<<WantsPlace, Holders>>
  <2> SUFFICES ASSUME CascadeInv, [Next]_vars
               PROVE  [WorkPool!Next]_<<WantsPlace, Holders>>
    OBVIOUS
  <2>1. ASSUME NEW c \in Chats, NEW x \in Contents, Begin(c, x)
        PROVE  WantsPlace' = WantsPlace /\ Holders' = Holders
    <3>1. \A w \in Workers : CascadeOf(w) = <<c, begun[c] + 1>> => pc[w] = "none"
      BY WorkerParts DEF CascadeInv, TypeInv, TypeOK, NoneEarly
    <3>2. \A w \in Workers :
            pc'[w] = pc[w] \/ (pc[w] = "none" /\ pc'[w] \in {"waits", "lost"})
      BY <2>1, <3>1 DEF Begin
    <3> QED
      BY <3>2 DEF WantsPlace, Holders, Holding
  <2>2. ASSUME NEW l \in Layers, SetBegins(l) \/ SetEnds(l) \/ Clear(l) \/ GcFinds(l) \/ GcRemoves(l)
        PROVE  UNCHANGED pc
    BY <2>2 DEF SetBegins, SetEnds, Clear, GcFinds, GcRemoves, UserStays, workVars
  <2>3. UNCHANGED pc => WantsPlace' = WantsPlace /\ Holders' = Holders
    BY DEF WantsPlace, Holders
  <2>4. CASE UNCHANGED vars
    BY <2>3, <2>4 DEF vars, workVars
  <2> QED
    BY <2>1, <2>2, <2>3, <2>4, WorkPoolStep DEF Next
<1> QED
  BY <1>1, <1>2, CascadeInvariant, PTL DEF Spec, WorkPool!Spec

=============================================================================
