-------------------------------- MODULE Routing --------------------------------
(***************************************************************************)
(* Which backend a message goes to: resolve_backend of router.py and the   *)
(* selections of BackendRegistry it is made of.  Every operator takes the  *)
(* set of backends that are healthy at that moment; a backend that is not  *)
(* enabled is not in Backends.                                             *)
(***************************************************************************)
EXTENDS Naturals

CONSTANTS
  Backends,       \* the enabled backends of the registry
  Place,          \* their positions in it
  Orchestrators,  \* those with role "orchestrator"
  Cli,            \* those whose provider is a command-line tool
  Tags,           \* what each of them can do
  Preferred,      \* backend_id of the chat, or None
  Default,        \* default_backend of the configuration, or None
  None,
  Gone,           \* a locked_backend on a backend that is no longer enabled
  Unavailable     \* LockedBackendUnavailableError

Needs == {"vision", "tools"}

ASSUME RoutingAssumption ==
  /\ None \notin Backends /\ Gone \notin Backends \cup {None}
  /\ Unavailable \notin Backends \cup {None}
  /\ Place \in [Backends -> Nat]
  /\ \A b, c \in Backends : Place[b] = Place[c] => b = c
  /\ Orchestrators \subseteq Backends /\ Cli \subseteq Backends
  /\ Tags \in [Backends -> SUBSET Needs]
  /\ {Preferred, Default} \subseteq Backends \cup {None}

\* A message: the backends its command names (one, or those of a provider), what its attachments
\* need, and locked_backend of its chat when it is routed.
RequestType == [force : (SUBSET Backends) \cup {None}, needs : SUBSET Needs,
                locked : Backends \cup {None, Gone}]

----------------------------------------------------------------------------
Tagged(tag) == {b \in Backends : tag \in Tags[b]}

FirstOf(S) ==
  IF S = {} THEN None ELSE CHOOSE b \in S : \A c \in S : Place[b] <= Place[c]

\* the first backend with the tag, an orchestrator if there is one
GetByTag(tag, healthy) ==
  LET candidates == healthy \cap Tagged(tag)
  IN  FirstOf(IF candidates \cap Orchestrators # {} THEN candidates \cap Orchestrators
              ELSE candidates)

FirstSome(choices) ==
  IF \A i \in DOMAIN choices : choices[i] = None THEN None
  ELSE choices[CHOOSE i \in DOMAIN choices :
                 choices[i] # None /\ \A j \in DOMAIN choices : j < i => choices[j] = None]

\* The head of a list of orchestrators: command-line tools come first, then APIs that have tools,
\* then the rest, and each group is in the order of the registry.
HeadOf(S) ==
  FirstSome(<< FirstOf(S \cap Tagged("tools") \cap Cli), FirstOf(S \cap Tagged("tools")), FirstOf(S) >>)

OrchestratorChain(healthy) == healthy \cap Orchestrators

ResolveBackend(request, healthy) ==
  LET forced == IF request.force = None THEN {} ELSE request.force \cap healthy
      locked == request.locked
      docs   == "tools" \in request.needs
      chain  == OrchestratorChain(healthy)
      Chosen(b) == IF b \in healthy /\ (docs => b \in Tagged("tools")) THEN b ELSE None
  IN  IF forced # {} THEN FirstOf(forced)
      ELSE IF locked # None THEN IF locked \in healthy THEN locked ELSE Unavailable
      ELSE FirstSome(<<
        IF "vision" \in request.needs THEN GetByTag("vision", healthy) ELSE None,
        IF docs THEN GetByTag("tools", healthy) ELSE None,
        Chosen(Preferred),
        Chosen(Default),
        IF docs THEN HeadOf(chain \cap Tagged("tools")) ELSE None,
        HeadOf(chain),
        FirstOf(healthy) >>)

=============================================================================
