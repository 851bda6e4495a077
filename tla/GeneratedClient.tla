----------------------------- MODULE GeneratedClient -----------------------------
(***************************************************************************)
(* The parts of the generated code that have no state in common: the       *)
(* informer's cache and its listers, the deep copies, the fake clientset   *)
(* and the clientsets' rate limits.  A behaviour is one of one part; the   *)
(* variables of the others stay as they are.                               *)
(***************************************************************************)
EXTENDS DeepCopy

CONSTANTS
  Parts,             \* "cache", "copies", "fakes", "limits", or some of them
  NoStatus, Nothing,                                       \* ApiObjects
  Informers, MaxFaults,                                    \* InformerCache
  CacheNamespaces, CacheNames, CacheLabels, CacheRevisions,
  FakeResources, Data, Selectors, MaxCalls,                \* FakeClientset
  FakeNamespaces, FakeNames, FakeLabels,
  Cases, DefaultQPS, DefaultBurst                          \* ClientsetLimits

VARIABLES
  part,
  informer, history, cache, rv, seen, at, faults,  \* InformerCache
  objects, revision, tracker, calls, parted, alike, \* FakeClientset
  made, limiter, tokens, waiting                   \* ClientsetLimits

cacheVars == <<informer, history, cache, rv, seen, at, faults>>
fakeVars == <<objects, revision, tracker, calls, parted, alike>>
limitVars == <<made, limiter, tokens, waiting>>
allVars == <<part, vars, cacheVars, fakeVars, limitVars>>

Caches == INSTANCE InformerCache WITH
  Namespaces <- CacheNamespaces, Names <- CacheNames, Labels <- CacheLabels,
  MaxRevision <- CacheRevisions
Fakes == INSTANCE FakeClientset WITH
  Namespaces <- FakeNamespaces, Names <- FakeNames, Labels <- FakeLabels
Limits == INSTANCE ClientsetLimits

ASSUME FakesAssumption ==
  FakeResources \subseteq {"kubevirtcommontemplatesbundles", "kubevirtmetricsaggregations",
                           "kubevirtnodelabellerbundles", "kubevirttemplatevalidators"}
ASSUME NothingAssumption ==
  Nothing \notin [label : FakeLabels, spec : Data, status : Data \cup {NoStatus}, rv : Nat]

--------------------------------------------------------------------------------

\* A part that is not looked at.
CacheIdle ==
  /\ informer = CHOOSE i \in Informers : TRUE
  /\ history = <<<<>>>> /\ cache = <<>> /\ rv = 0 /\ seen = 0
  /\ at = "list" /\ faults = 0
CopiesIdle == type = "Container" /\ var = [v \in Variables |-> Nil] /\ heap = <<>> /\ edits = 0
FakesIdle ==
  /\ objects = <<>> /\ revision = 1 /\ tracker = <<>>
  /\ calls = 0 /\ parted = FALSE /\ alike = TRUE
LimitsIdle ==
  /\ made = CHOOSE c \in Cases : TRUE
  /\ limiter = <<>> /\ tokens = <<>> /\ waiting = {}

PartInit ==
  /\ part \in Parts
  /\ IF part = "cache" THEN Caches!Init ELSE CacheIdle
  /\ IF part = "copies" THEN Init ELSE CopiesIdle
  /\ IF part = "fakes" THEN Fakes!Init ELSE FakesIdle
  /\ IF part = "limits" THEN Limits!Init ELSE LimitsIdle

InCache(A) == part = "cache" /\ A /\ UNCHANGED <<part, vars, fakeVars, limitVars>>
InCopies(A) == part = "copies" /\ A /\ UNCHANGED <<part, cacheVars, fakeVars, limitVars>>
InFakes(A) == part = "fakes" /\ A /\ UNCHANGED <<part, cacheVars, vars, limitVars>>
InLimits(A) == part = "limits" /\ A /\ UNCHANGED <<part, cacheVars, vars, fakeVars>>

PartNext ==
  InCache(Caches!Next) \/ InCopies(Next) \/ InFakes(Fakes!Next) \/ InLimits(Limits!Next)

PartSpec == PartInit /\ [][PartNext]_allVars

\* The fairness each part states of itself (InformerCache!LiveSpec, ClientsetLimits!LiveSpec).
LiveSpec ==
  /\ PartSpec
  /\ WF_allVars(InCache(Caches!Reflect))
  /\ WF_allVars(InLimits(Limits!Tick))
  /\ \A c \in Limits!Clients : SF_allVars(InLimits(Limits!Send(c)))

--------------------------------------------------------------------------------

\* A lister answers what the typed client would have (InformerCache).
ListersAgree == Caches!ListersAgree

\* The cache becomes the cluster when writes and faults have ended (InformerCache).
Converges == Caches!Converges

\* The fake clientset has all that the real one has (FakeClientset).
NothingHidden == Fakes!NothingHidden

\* They are the same until a test makes a call that parts them (FakeClientset).
FakeParity == Fakes!FakeParity

\* No request waits for a token for ever, unless there is a rate and no burst
\* (ClientsetLimits).
SentIfBurst == Limits!SentIfBurst

\* None does at all, as the configuration is documented (ClientsetLimits).
RequestsSent == Limits!RequestsSent

================================================================================
