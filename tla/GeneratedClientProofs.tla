-------------------------- MODULE GeneratedClientProofs --------------------------
(***************************************************************************)
(* The parts of the generated client, each for any value of its constants. *)
(* The other parts' variables stand still while one moves, so that each    *)
(* part has an inductive invariant of its own.                             *)
(***************************************************************************)
EXTENDS GeneratedClient, FiniteSetTheorems, TLAPS

--------------------------------------------------------------------------------
(* InformerCache.                                                              *)

\* The reflector watches only after it has listed.
ListedBefore == at \in {"watch", "handle"} => rv > 0

\* Since the revision it would go on from nothing that it selects has changed: that is
\* why a reopened watch, which sets seen back to rv, loses nothing.
NothingMissed == rv > 0 => \A r \in rv..seen : Caches!Watched(r) = Caches!Watched(rv)

HistoryTyped == history \in Seq(Caches!Clusters) /\ Caches!Now > 0

CacheIInv == Caches!TypeOK /\ HistoryTyped /\ ListedBefore /\ Caches!CacheIsSnapshot /\ NothingMissed

--------------------------------------------------------------------------------

\* The informer's list and its watch select the same objects.
LEMMA SameSelection ==
  ASSUME NEW objs
  PROVE  Caches!Chosen(objs, Caches!ListFunc) = Caches!Chosen(objs, Caches!WatchFunc)
<1>1. /\ Caches!WatchFunc.resource = Caches!ListFunc.resource /\ Caches!WatchFunc.ns = Caches!ListFunc.ns
      /\ Caches!WatchFunc.sel = Caches!ListFunc.sel
  BY DEF Caches!WatchFunc, Caches!ListFunc, Caches!Watch, Caches!List, Caches!Request
<1> HIDE DEF Caches!WatchFunc, Caches!ListFunc
<1> QED
  BY <1>1 DEF Caches!Chosen

LEMMA NowTyped == ASSUME HistoryTyped PROVE Caches!Now \in Nat
BY DEF HistoryTyped, Caches!Now

\* What it selects are objects of its resource.
LEMMA OwnResource ==
  ASSUME NEW objs, NEW k \in DOMAIN Caches!Chosen(objs, Caches!ListFunc)
  PROVE  k[1] = Caches!Resource
<1>1. Caches!ListFunc.resource = Caches!Resource
  BY DEF Caches!ListFunc, Caches!List, Caches!Request, Caches!MetricsClient, Caches!Resource, Caches!newKubevirtMetricsAggregations, Caches!Client
<1> HIDE DEF Caches!ListFunc, Caches!Resource
<1> QED
  BY <1>1 DEF Caches!Chosen, Caches!Selected

\* An event's handler makes of the old selection the new one.
LEMMA EventApplied ==
  ASSUME CacheIInv, Caches!HandleEvent
  PROVE  cache' = Caches!Watched(seen + 1)
<1>1. rv > 0 /\ cache = Caches!Watched(seen)
  BY SameSelection DEF CacheIInv, Caches!HandleEvent, ListedBefore, Caches!CacheIsSnapshot, Caches!Watched
<1> DEFINE old == Caches!Watched(seen)
           new == Caches!Watched(seen + 1)
           added == {j \in DOMAIN new : j \notin DOMAIN old \/ old[j] # new[j]}
           dom == (DOMAIN cache \ (DOMAIN old \ DOMAIN new)) \cup added
<1>2. cache' = [k \in dom |-> IF k \in DOMAIN new /\ (k \notin DOMAIN old \/ old[k] # new[k])
                              THEN new[k] ELSE cache[k]]
  BY DEF Caches!HandleEvent
<1>3. new = [k \in DOMAIN new |-> new[k]]
  BY DEF Caches!Watched, Caches!Chosen
<1> HIDE DEF old, new
<1>4. cache = old
  BY <1>1 DEF old
<1>5. dom = DOMAIN new
  BY <1>4
<1>6. \A k \in dom : cache'[k] = new[k]
  BY <1>2, <1>4, <1>5
<1>7. cache' = [k \in DOMAIN new |-> new[k]]
  BY <1>2, <1>5, <1>6
<1> QED
  BY <1>3, <1>7 DEF new

--------------------------------------------------------------------------------

LEMMA ChosenTyped ==
  ASSUME HistoryTyped, NEW r \in 1..Caches!Now, NEW request
  PROVE  DOMAIN Caches!Chosen(history[r], request) \subseteq Caches!Keys
<1>1. history[r] \in Caches!Clusters
  BY DEF HistoryTyped, Caches!Now
<1>2. DOMAIN history[r] \subseteq Caches!Keys
  BY <1>1 DEF Caches!Clusters
<1> QED
  BY <1>2 DEF Caches!Chosen, Caches!Selected

\* A write leaves the revisions there were as they are.
LEMMA WriteKeeps == ASSUME CacheIInv, NEW objs \in Caches!Clusters, Caches!Write(objs) PROVE CacheIInv'
<1>1. /\ Caches!Now \in Nat /\ Caches!Now' = Caches!Now + 1 /\ history' \in Seq(Caches!Clusters)
      /\ \A r \in 1..Caches!Now : history'[r] = history[r]
  BY DEF CacheIInv, HistoryTyped, Caches!Write, Caches!Now
<1>2. UNCHANGED <<informer, cache, rv, seen, at, faults>>
  BY DEF Caches!Write
<1>3. rv \in 0..Caches!Now /\ seen \in rv..Caches!Now
  BY DEF CacheIInv, Caches!TypeOK
<1>4. Caches!TypeOK' /\ HistoryTyped' /\ ListedBefore'
  BY <1>1, <1>2, <1>3 DEF CacheIInv, Caches!TypeOK, HistoryTyped, ListedBefore
<1>5. Caches!WatchFunc' = Caches!WatchFunc /\ Caches!ListFunc' = Caches!ListFunc
  BY <1>2 DEF Caches!WatchFunc, Caches!ListFunc, Caches!MetricsClient
<1>6. \A r \in 1..Caches!Now : Caches!Watched(r)' = Caches!Watched(r)
  BY <1>1, <1>5 DEF Caches!Watched, Caches!Chosen
<1>7. rv > 0 => seen \in 1..Caches!Now /\ rv \in 1..Caches!Now /\ rv..seen \subseteq 1..Caches!Now
  BY <1>1, <1>3
<1>8. Caches!CacheIsSnapshot'
  BY <1>1, <1>2, <1>5, <1>7 DEF CacheIInv, Caches!CacheIsSnapshot, Caches!Chosen
<1>9. NothingMissed'
  <2> SUFFICES ASSUME rv > 0, NEW r \in rv..seen PROVE Caches!Watched(r)' = Caches!Watched(rv)'
    BY <1>2 DEF NothingMissed
  <2>1. Caches!Watched(rv)' = Caches!Watched(rv)
    BY <1>1, <1>2, <1>5, <1>7 DEF Caches!Watched, Caches!Chosen
  <2>2. Caches!Watched(r)' = Caches!Watched(r)
    BY <1>6, <1>7
  <2>3. Caches!Watched(r) = Caches!Watched(rv)
    BY DEF CacheIInv, NothingMissed
  <2> QED
    BY <2>1, <2>2, <2>3
<1> QED
  BY <1>4, <1>8, <1>9 DEF CacheIInv

LEMMA CacheInitHolds == Caches!Init => CacheIInv
<1> SUFFICES ASSUME Caches!Init PROVE CacheIInv
  OBVIOUS
<1>1. PICK given \in SUBSET Caches!Keys, label \in CacheLabels :
        history = <<[k \in given |-> Caches!Object(label, Nothing, NoStatus, 1)]>>
  BY DEF Caches!Init
<1>2. [k \in given |-> Caches!Object(label, Nothing, NoStatus, 1)] \in Caches!Clusters
  BY DEF Caches!Clusters, Caches!Object
<1>3. history \in Seq(Caches!Clusters) /\ Len(history) = 1
  BY <1>1, <1>2
<1>4. Caches!TypeOK
  <2>1. DOMAIN cache = {}
    BY DEF Caches!Init
  <2> QED
    BY <1>3, <2>1 DEF Caches!Init, Caches!TypeOK, Caches!Now
<1> QED
  BY <1>3, <1>4 DEF Caches!Init, CacheIInv, HistoryTyped, ListedBefore, Caches!CacheIsSnapshot, NothingMissed, Caches!Now

LEMMA ListAllKeeps == ASSUME CacheIInv, Caches!ListAll PROVE CacheIInv'
<1>1. PICK r \in 1..Caches!Now : cache' = Caches!Chosen(history[r], Caches!ListFunc) /\ rv' = r /\ seen' = r
  BY DEF Caches!ListAll
<1>2. UNCHANGED <<informer, history, faults>> /\ at' = "watch"
  BY DEF Caches!ListAll
<1>3. Caches!Now \in Nat /\ Caches!Now' = Caches!Now /\ r \in Nat /\ r > 0 /\ r..r = {r}
  BY <1>1, <1>2, NowTyped DEF CacheIInv, Caches!Now
<1>4. Caches!TypeOK'
  BY <1>1, <1>2, <1>3, ChosenTyped DEF CacheIInv, Caches!TypeOK
<1>5. HistoryTyped' /\ ListedBefore'
  BY <1>1, <1>2, <1>3 DEF CacheIInv, HistoryTyped, ListedBefore
<1>6. Caches!CacheIsSnapshot'
  <2>1. Caches!Chosen(history[r], Caches!ListFunc)' = Caches!Chosen(history[r], Caches!ListFunc)
    BY <1>2 DEF Caches!Chosen, Caches!ListFunc, Caches!MetricsClient
  <2> QED
    BY <1>1, <1>2, <1>3 DEF Caches!CacheIsSnapshot, Caches!ListFunc, Caches!MetricsClient
<1>7. NothingMissed'
  BY <1>1, <1>3 DEF NothingMissed
<1> QED
  BY <1>4, <1>5, <1>6, <1>7 DEF CacheIInv

LEMMA StartWatchKeeps == ASSUME CacheIInv, Caches!StartWatch PROVE CacheIInv'
<1>1. /\ UNCHANGED <<informer, history, cache, rv, faults>>
      /\ seen' = rv /\ at' = "handle" /\ at = "watch"
  BY DEF Caches!StartWatch
<1>2. Caches!Now \in Nat /\ Caches!Now' = Caches!Now /\ rv \in 0..Caches!Now /\ seen \in rv..Caches!Now /\ rv > 0 /\ rv..rv = {rv}
  BY <1>1, NowTyped DEF CacheIInv, Caches!Now, Caches!TypeOK, ListedBefore
<1>3. Caches!TypeOK' /\ HistoryTyped' /\ ListedBefore'
  BY <1>1, <1>2 DEF CacheIInv, Caches!TypeOK, HistoryTyped, ListedBefore
<1>4. Caches!Watched(seen) = Caches!Watched(rv)
  BY <1>2 DEF CacheIInv, NothingMissed
<1>5. cache = Caches!Chosen(history[rv], Caches!ListFunc)
  BY <1>2, <1>4, SameSelection DEF CacheIInv, Caches!CacheIsSnapshot, Caches!Watched
<1>6. Caches!CacheIsSnapshot'
  BY <1>1, <1>5 DEF Caches!CacheIsSnapshot, Caches!ListFunc, Caches!MetricsClient
<1>7. NothingMissed'
  BY <1>1, <1>2 DEF NothingMissed
<1> QED
  BY <1>3, <1>6, <1>7 DEF CacheIInv

LEMMA HandleEventKeeps == ASSUME CacheIInv, Caches!HandleEvent PROVE CacheIInv'
<1>1. /\ UNCHANGED <<informer, history, at, faults>>
      /\ at = "handle" /\ seen < Caches!Now /\ seen' = seen + 1
      /\ rv' = IF Caches!Watched(seen) = Caches!Watched(seen + 1) THEN rv ELSE seen + 1
  BY DEF Caches!HandleEvent
<1>2. Caches!Now \in Nat /\ Caches!Now' = Caches!Now /\ rv \in 1..seen /\ seen \in 1..Caches!Now /\ seen + 1 \in 1..Caches!Now
  BY <1>1, NowTyped DEF CacheIInv, Caches!Now, Caches!TypeOK, ListedBefore
<1>3. cache' = Caches!Watched(seen + 1)
  BY EventApplied
<1>4. Caches!TypeOK'
  <2>1. DOMAIN cache' \subseteq Caches!Keys
    BY <1>2, <1>3, ChosenTyped DEF CacheIInv, Caches!Watched
  <2> QED
    BY <1>1, <1>2, <2>1 DEF CacheIInv, Caches!TypeOK
<1>5. HistoryTyped' /\ ListedBefore'
  BY <1>1, <1>2 DEF CacheIInv, HistoryTyped, ListedBefore
<1>6. Caches!CacheIsSnapshot'
  <2>1. cache' = Caches!Chosen(history[seen + 1], Caches!ListFunc)
    BY <1>3, SameSelection DEF Caches!Watched
  <2> QED
    BY <1>1, <2>1 DEF Caches!CacheIsSnapshot, Caches!ListFunc, Caches!MetricsClient
<1>7. NothingMissed'
  <2>1. \A r : Caches!Watched(r)' = Caches!Watched(r)
    BY <1>1 DEF Caches!Watched, Caches!WatchFunc, Caches!MetricsClient
  <2>2. \A r \in rv..seen : Caches!Watched(r) = Caches!Watched(rv)
    BY <1>2 DEF CacheIInv, NothingMissed
  <2> SUFFICES ASSUME NEW r \in rv'..(seen + 1) PROVE Caches!Watched(r) = Caches!Watched(rv')
    BY <1>1, <2>1 DEF NothingMissed
  <2>3. CASE Caches!Watched(seen) = Caches!Watched(seen + 1)
    <3>1. rv' = rv /\ (r \in rv..seen \/ r = seen + 1) /\ seen \in rv..seen
      BY <1>1, <1>2, <2>3
    <3> QED
      BY <2>2, <2>3, <3>1
  <2>4. CASE Caches!Watched(seen) # Caches!Watched(seen + 1)
    BY <1>1, <1>2, <2>4
  <2> QED
    BY <2>3, <2>4
<1> QED
  BY <1>4, <1>5, <1>6, <1>7 DEF CacheIInv

LEMMA WatchLostKeeps == ASSUME CacheIInv, Caches!WatchEnds \/ Caches!WatchFails PROVE CacheIInv'
<1>1. /\ UNCHANGED <<informer, history, cache, rv, seen>>
      /\ faults' = faults + 1
      /\ at \in {"watch", "handle"} /\ at' \in {"list", "watch"}
  BY DEF Caches!WatchEnds, Caches!WatchFails
<1>2. Caches!Now' = Caches!Now
  BY <1>1 DEF Caches!Now
<1>3. Caches!TypeOK' /\ HistoryTyped' /\ ListedBefore'
  BY <1>1, <1>2 DEF CacheIInv, Caches!TypeOK, HistoryTyped, ListedBefore
<1>4. Caches!CacheIsSnapshot' /\ NothingMissed'
  BY <1>1 DEF CacheIInv, Caches!CacheIsSnapshot, NothingMissed, Caches!Chosen, Caches!ListFunc, Caches!WatchFunc, Caches!Watched, Caches!MetricsClient
<1> QED
  BY <1>3, <1>4 DEF CacheIInv

LEMMA UsersKeep ==
  ASSUME CacheIInv, NEW k \in Caches!Keys, Caches!Remove(k) \/ \E label \in CacheLabels : Caches!Put(k, label)
  PROVE  CacheIInv'
<1>1. Caches!Now \in 1..Caches!Now
  BY NowTyped DEF CacheIInv, HistoryTyped
<1>2. history[Caches!Now] \in Caches!Clusters
  BY <1>1 DEF CacheIInv, HistoryTyped, Caches!Now
<1>3. PICK some \in SUBSET Caches!Keys :
        history[Caches!Now] \in [some -> [label : CacheLabels, spec : {Nothing}, status : {NoStatus}, rv : Nat]]
  BY <1>2 DEF Caches!Clusters
<1>4. CASE Caches!Remove(k)
  <2>1. [j \in DOMAIN history[Caches!Now] \ {k} |-> history[Caches!Now][j]]
          \in [some \ {k} -> [label : CacheLabels, spec : {Nothing}, status : {NoStatus}, rv : Nat]]
    BY <1>3
  <2>2. [j \in DOMAIN history[Caches!Now] \ {k} |-> history[Caches!Now][j]] \in Caches!Clusters
    <3>1. some \ {k} \in SUBSET Caches!Keys
      OBVIOUS
    <3> QED
      BY <2>1, <3>1 DEF Caches!Clusters
  <2> QED
    BY <1>4, <2>2, WriteKeeps DEF Caches!Remove
<1>5. ASSUME NEW label \in CacheLabels, Caches!Put(k, label) PROVE CacheIInv'
  <2> DEFINE new == Caches!Object(label, Nothing, NoStatus, Caches!Now + 1)
             objs == [j \in DOMAIN history[Caches!Now] \cup {k} |-> IF j = k THEN new ELSE history[Caches!Now][j]]
  <2>1. new \in [label : CacheLabels, spec : {Nothing}, status : {NoStatus}, rv : Nat]
    BY <1>1 DEF Caches!Object
  <2> HIDE DEF new
  <2>2. objs \in [some \cup {k} -> [label : CacheLabels, spec : {Nothing}, status : {NoStatus}, rv : Nat]]
    BY <1>3, <2>1
  <2>3. some \cup {k} \in SUBSET Caches!Keys
    OBVIOUS
  <2>4. objs \in Caches!Clusters
    <3> HIDE DEF objs
    <3> QED
      BY <2>2, <2>3 DEF Caches!Clusters
  <2> QED
    BY <1>5, <2>4, WriteKeeps DEF Caches!Put, new
<1> QED
  BY <1>4, <1>5

\* A step of the reflector or of a user; the other parts' variables play no role.
LEMMA CacheStepKeeps == ASSUME CacheIInv, Caches!Next PROVE CacheIInv'
<1>1. CASE Caches!ListAll
  BY <1>1, ListAllKeeps
<1>2. CASE Caches!StartWatch
  BY <1>2, StartWatchKeeps
<1>3. CASE Caches!HandleEvent
  BY <1>3, HandleEventKeeps
<1>4. CASE Caches!WatchEnds \/ Caches!WatchFails
  BY <1>4, WatchLostKeeps
<1>5. ASSUME NEW k \in Caches!Keys,
             Caches!Remove(k) \/ \E label \in CacheLabels : Caches!Put(k, label)
      PROVE  CacheIInv'
  BY <1>5, UsersKeep
<1> QED
  BY <1>1, <1>2, <1>3, <1>4, <1>5 DEF Caches!Next, Caches!Reflect

LEMMA CacheStutterKeeps == ASSUME CacheIInv, UNCHANGED cacheVars PROVE CacheIInv'
BY DEF cacheVars, CacheIInv, Caches!TypeOK, HistoryTyped, ListedBefore, Caches!CacheIsSnapshot,
       NothingMissed, Caches!Now, Caches!Chosen, Caches!ListFunc, Caches!WatchFunc, Caches!Watched,
       Caches!MetricsClient

\* A cache that is not looked at has listed nothing.
CacheInv == IF part = "cache" THEN CacheIInv ELSE rv = 0

LEMMA CacheInvariant == PartSpec => []CacheInv
<1>1. PartInit => CacheInv
  BY CacheInitHolds DEF PartInit, CacheIdle, CacheInv
<1>2. CacheInv /\ [PartNext]_allVars => CacheInv'
  <2> SUFFICES ASSUME CacheInv, [PartNext]_allVars PROVE CacheInv'
    OBVIOUS
  <2>1. CASE InCache(Caches!Next)
    BY <2>1, CacheStepKeeps DEF InCache, CacheInv
  <2>2. CASE UNCHANGED <<part, cacheVars>>
    BY <2>2, CacheStutterKeeps DEF CacheInv, cacheVars
  <2> QED
    BY <2>1, <2>2 DEF PartNext, InCopies, InFakes, InLimits, allVars
<1> QED
  BY <1>1, <1>2, PTL DEF PartSpec

--------------------------------------------------------------------------------

\* The reflector's revisions are ones of the cluster, and it never ends before it began.
THEOREM CacheTyped == PartSpec => [](part = "cache" => Caches!TypeOK)
<1>1. CacheInv => (part = "cache" => Caches!TypeOK)
  BY DEF CacheInv, CacheIInv
<1> QED
  BY <1>1, CacheInvariant, PTL

\* Relists, reopened watches and single events in turn never leave the cache between two
\* revisions: it is what the cluster held at one of them, restricted to the selection.
THEOREM CacheSnapshot == PartSpec => []Caches!CacheIsSnapshot
<1>1. CacheInv => Caches!CacheIsSnapshot
  BY DEF CacheInv, CacheIInv, Caches!CacheIsSnapshot
<1> QED
  BY <1>1, CacheInvariant, PTL

\* A lister is as good as the typed client was at the cache's revision, for any label
\* and any namespace, "" included.
THEOREM ListersAnswer == PartSpec => []ListersAgree
<1>1. CacheIInv => Caches!ListersAgree
  <2> SUFFICES ASSUME CacheIInv, rv > 0, NEW ns \in CacheNamespaces \cup {""}, NEW label \in CacheLabels \cup {""}
               PROVE  LET sel == [Caches!Everything EXCEPT !.label = label]
                          was == Caches!Chosen(history[seen], Caches!ListFunc)
                      IN /\ Caches!NamespaceList(ns, sel) = Caches!Listed(was, seen, Caches!Resource, ns, sel).answer.value
                         /\ \A name \in CacheNames :
                              ns # "" => Caches!NamespaceGet(ns, name) = Caches!Read(was, seen, <<Caches!Resource, ns, name>>).answer
    BY DEF Caches!ListersAgree
  <2> DEFINE sel == [Caches!Everything EXCEPT !.label = label]
             was == Caches!Chosen(history[seen], Caches!ListFunc)
  <2>1. cache = was
    BY DEF CacheIInv, Caches!CacheIsSnapshot
  <2>2. \A k \in DOMAIN was : k[1] = Caches!Resource
    BY OwnResource
  <2> HIDE DEF sel, was
  <2>3. Caches!NamespaceList(ns, sel) = Caches!Listed(was, seen, Caches!Resource, ns, sel).answer.value
    <3>1. Caches!Listed(was, seen, Caches!Resource, ns, sel).answer.value
            = [k \in Caches!Selected(was, Caches!Resource, ns, sel) |-> was[k]]
      BY DEF Caches!Listed, Caches!Outcome
    <3>2. Caches!ListerList(sel) = [k \in {j \in DOMAIN was : Caches!Selects(sel, j, was[j])} |-> was[k]]
      BY <2>1 DEF Caches!ListerList
    <3>3. DOMAIN Caches!ListerList(sel) = {j \in DOMAIN was : Caches!Selects(sel, j, was[j])}
      BY <3>2
    <3>4. {j \in DOMAIN Caches!ListerList(sel) : ns \in {"", j[2]}} = Caches!Selected(was, Caches!Resource, ns, sel)
      BY <2>2, <3>3 DEF Caches!Selected
    <3> QED
      BY <2>1, <3>1, <3>4 DEF Caches!NamespaceList
  <2>4. ASSUME NEW name \in CacheNames
        PROVE  Caches!NamespaceGet(ns, name) = Caches!Read(was, seen, <<Caches!Resource, ns, name>>).answer
    BY <2>1 DEF Caches!NamespaceGet, Caches!Read, Caches!Outcome, Caches!Refused
  <2> QED
    BY <2>3, <2>4 DEF sel, was
<1>2. CacheInv => ListersAgree
  <2>1. ~(rv > 0) => Caches!ListersAgree
    BY Zenon DEF Caches!ListersAgree
  <2>2. CacheInv => CacheIInv \/ ~(rv > 0)
    BY DEF CacheInv
  <2> QED
    BY <1>1, <2>1, <2>2 DEF ListersAgree
<1> QED
  BY <1>2, CacheInvariant, PTL

--------------------------------------------------------------------------------
(* DeepCopy.                                                                   *)

LEMMA FieldFacts ==
  /\ \A t \in DOMAIN Fields : "items" \in Fields[t] <=> t \in DOMAIN ItemType
  /\ \A t \in DOMAIN ItemType :
       t \in DOMAIN Fields /\ Fields[t] = Items /\ ItemType[t] \in DOMAIN Fields \ DOMAIN ItemType
  /\ "items" \notin SpecFields
BY DEF Fields, ItemType, Items, ConfigStatus, Container, VersionSpec, ComponentSpec, ObjectMeta,
       TemplateValidatorSpec, KubevirtCommonTemplatesBundle, KubevirtNodeLabellerBundle,
       KubevirtTemplateValidator, KubevirtMetricsAggregation, SpecFields

\* A copy gets cells of its own for every field but the spec's.
LEMMA CopiedFields ==
  /\ DOMAIN DeepCopyInto = DOMAIN Fields
  /\ \A t \in DOMAIN Fields :
       /\ DeepCopyInto[t].own = Fields[t] \ SpecFields
       /\ t \in DOMAIN ItemType => DeepCopyInto[t].item = Fields[ItemType[t]] \ SpecFields
<1> DEFINE kept == {"metadata", "conditions", "containers"}
<1>1. /\ ObjectMeta_DeepCopyInto.own = {"metadata"}
      /\ ConfigStatus_DeepCopyInto.own = {"conditions", "containers"}
      /\ Container_DeepCopyInto.own = {} /\ VersionSpec_DeepCopyInto.own = {}
      /\ ComponentSpec_DeepCopyInto.own = {} /\ TemplateValidatorSpec_DeepCopyInto.own = {}
  BY DEF ObjectMeta_DeepCopyInto, ConfigStatus_DeepCopyInto, Container_DeepCopyInto,
     VersionSpec_DeepCopyInto, ComponentSpec_DeepCopyInto, TemplateValidatorSpec_DeepCopyInto,
     Deep, ObjectMeta
<1>2. /\ KubevirtCommonTemplatesBundle_DeepCopyInto.own = kept
      /\ KubevirtMetricsAggregation_DeepCopyInto.own = kept
      /\ KubevirtNodeLabellerBundle_DeepCopyInto.own = kept
      /\ KubevirtTemplateValidator_DeepCopyInto.own = kept
  BY <1>1 DEF KubevirtCommonTemplatesBundle_DeepCopyInto,
     KubevirtMetricsAggregation_DeepCopyInto,
     KubevirtNodeLabellerBundle_DeepCopyInto,
     KubevirtTemplateValidator_DeepCopyInto, Deep
<1>3. /\ KubevirtCommonTemplatesBundleList_DeepCopyInto = [own |-> Items, item |-> kept]
      /\ KubevirtMetricsAggregationList_DeepCopyInto = [own |-> Items, item |-> kept]
      /\ KubevirtNodeLabellerBundleList_DeepCopyInto = [own |-> Items, item |-> kept]
      /\ KubevirtTemplateValidatorList_DeepCopyInto = [own |-> Items, item |-> kept]
  BY <1>2 DEF KubevirtCommonTemplatesBundleList_DeepCopyInto,
     KubevirtMetricsAggregationList_DeepCopyInto,
     KubevirtNodeLabellerBundleList_DeepCopyInto,
     KubevirtTemplateValidatorList_DeepCopyInto, DeepItems
<1>4. DOMAIN DeepCopyInto = DOMAIN Fields
  BY DEF DeepCopyInto, Fields
<1>5. ASSUME NEW t \in DOMAIN Fields, t \notin DOMAIN ItemType
      PROVE  DeepCopyInto[t].own = Fields[t] \ SpecFields
  <2>1. t \in {"ConfigStatus", "Container", "VersionSpec", "ComponentSpec", "TemplateValidatorSpec",
               "KubevirtCommonTemplatesBundle", "KubevirtMetricsAggregation",
               "KubevirtNodeLabellerBundle", "KubevirtTemplateValidator"}
    BY <1>5 DEF Fields, ItemType
  <2> QED
    BY <1>1, <1>2, <2>1 DEF DeepCopyInto, Fields, SpecFields, ConfigStatus, Container, VersionSpec,
       ComponentSpec, TemplateValidatorSpec, ObjectMeta, KubevirtCommonTemplatesBundle, KubevirtMetricsAggregation,
       KubevirtNodeLabellerBundle, KubevirtTemplateValidator
<1>6. ASSUME NEW t \in DOMAIN ItemType
      PROVE  /\ DeepCopyInto[t].own = Fields[t] \ SpecFields
             /\ DeepCopyInto[t].item = Fields[ItemType[t]] \ SpecFields
  <2>1. DeepCopyInto[t] = [own |-> Items, item |-> kept]
    BY <1>3 DEF DeepCopyInto, ItemType
  <2>2. Fields[t] = Items /\ "items" \notin SpecFields
    BY FieldFacts
  <2>3. Fields[ItemType[t]] \ SpecFields = kept
    BY DEF Fields, ItemType, SpecFields, ConfigStatus, VersionSpec, ComponentSpec,
       TemplateValidatorSpec, ObjectMeta, KubevirtCommonTemplatesBundle, KubevirtMetricsAggregation,
       KubevirtNodeLabellerBundle, KubevirtTemplateValidator
  <2> QED
    BY <2>1, <2>2, <2>3 DEF Items
<1> QED
  BY <1>4, <1>5, <1>6

--------------------------------------------------------------------------------

\* A struct that variable v holds, or an item of the list it holds: a field's cell was
\* made for that field, and for v unless it is one of the spec's.
StructOf(v, s) ==
  /\ s.type \in DOMAIN Fields /\ s \in Structs(s.type)
  /\ \A f \in Fields[s.type] :
       s.cell[f] # Nil => s.cell[f][3][2] = f /\ (f \notin SpecFields => s.cell[f][1] = v)

Held(v, s, h) ==
  /\ StructOf(v, s) /\ s.type = type
  /\ \A i \in DOMAIN ItemsOf(s, h) :
       /\ i \in Nat \ {0}
       /\ StructOf(v, ItemsOf(s, h)[i]) /\ ItemsOf(s, h)[i].type = ItemType[type]

CopyIInv ==
  /\ type \in DOMAIN Fields
  /\ var = [v \in Variables |-> var[v]]
  /\ Live(var, heap) \subseteq DOMAIN heap
  /\ \A v \in Variables : var[v] # Nil => Held(v, var[v], heap)

--------------------------------------------------------------------------------

\* Only a list has items, and they are in the cell of its one field.
LEMMA ListItems ==
  ASSUME NEW v, NEW s, NEW h, s # Nil, Held(v, s, h), type \in DOMAIN Fields
  PROVE  \/ ItemsOf(s, h) = <<>> /\ (s.type \in DOMAIN ItemType => s.cell["items"] = Nil)
         \/ /\ s.type \in DOMAIN ItemType /\ DOMAIN s.cell = Items
            /\ s.cell["items"] # Nil /\ s.cell["items"] \in Cells
            /\ s.cell["items"][1] = v /\ s.cell["items"][3][2] = "items"
            /\ ItemsOf(s, h) = h[s.cell["items"]]
            /\ <<0, "items">> \in Places(s, h) /\ CellAt(s, h, <<0, "items">>) = s.cell["items"]
<1>1. CASE s.type \in DOMAIN ItemType /\ s.cell["items"] # Nil
  <2>1. Fields[s.type] = Items /\ "items" \in Items /\ "items" \notin SpecFields
    BY <1>1, FieldFacts DEF Items
  <2>2. /\ DOMAIN s.cell = Items /\ s.cell["items"] \in Cells
        /\ s.cell["items"][1] = v /\ s.cell["items"][3][2] = "items"
    BY <1>1, <2>1 DEF Held, StructOf, Structs
  <2>3. ItemsOf(s, h) = h[s.cell["items"]]
    BY <1>1 DEF ItemsOf
  <2>4. "items" \in NotNil(s)
    BY <1>1, <2>1, <2>2 DEF NotNil
  <2>5. <<0, "items">> \in Places(s, h)
    BY <2>4 DEF Places
  <2>6. CellAt(s, h, <<0, "items">>) = s.cell["items"]
    BY DEF CellAt
  <2> QED
    BY <1>1, <2>2, <2>3, <2>5, <2>6
<1>2. CASE ~(s.type \in DOMAIN ItemType /\ s.cell["items"] # Nil)
  BY <1>2 DEF ItemsOf
<1> QED
  BY <1>1, <1>2

\* The places of a struct are in itself and in its items, and each has a cell.
LEMMA PlacesOf ==
  ASSUME NEW v, NEW s, NEW h, s # Nil, Held(v, s, h), type \in DOMAIN Fields,
         NEW p \in Places(s, h)
  PROVE  /\ p = <<p[1], p[2]>>
         /\ \/ p[1] = 0 /\ p[2] \in NotNil(s) /\ CellAt(s, h, p) = s.cell[p[2]]
            \/ /\ p[1] \in DOMAIN ItemsOf(s, h) /\ p[1] # 0
               /\ p[2] \in NotNil(ItemsOf(s, h)[p[1]])
               /\ CellAt(s, h, p) = ItemsOf(s, h)[p[1]].cell[p[2]]
         /\ CellAt(s, h, p) \in Cells /\ CellAt(s, h, p) # Nil
         /\ CellAt(s, h, p)[3][2] = p[2]
         /\ p[2] \notin SpecFields => CellAt(s, h, p)[1] = v
<1>1. CASE p \in {<<0, f>> : f \in NotNil(s)}
  <2>1. PICK f \in NotNil(s) : p = <<0, f>>
    BY <1>1
  <2>2. p[1] = 0 /\ p[2] = f /\ CellAt(s, h, p) = s.cell[f]
    BY <2>1 DEF CellAt
  <2>3. f \in Fields[s.type] /\ s.cell[f] # Nil
    BY DEF NotNil, Held, StructOf, Structs
  <2> QED
    BY <2>1, <2>2, <2>3 DEF Held, StructOf, Structs
<1>2. CASE p \in UNION {{<<i, f>> : f \in NotNil(ItemsOf(s, h)[i])} : i \in DOMAIN ItemsOf(s, h)}
  <2>1. PICK i \in DOMAIN ItemsOf(s, h) : \E f \in NotNil(ItemsOf(s, h)[i]) : p = <<i, f>>
    BY <1>2
  <2>2. PICK f \in NotNil(ItemsOf(s, h)[i]) : p = <<i, f>>
    BY <2>1
  <2> DEFINE x == ItemsOf(s, h)[i]
  <2>3. i # 0 /\ StructOf(v, x)
    BY DEF Held
  <2>4. p[1] = i /\ p[2] = f /\ CellAt(s, h, p) = x.cell[f]
    BY <2>2, <2>3 DEF CellAt
  <2>5. f \in Fields[x.type] /\ x.cell[f] # Nil
    BY <2>3 DEF NotNil, StructOf, Structs
  <2> HIDE DEF x
  <2>6. x.cell[f] \in Cells /\ x.cell[f][3][2] = f /\ (f \notin SpecFields => x.cell[f][1] = v)
    BY <2>3, <2>5 DEF StructOf, Structs
  <2> QED
    BY <2>2, <2>3, <2>4, <2>5, <2>6 DEF x
<1> QED
  BY <1>1, <1>2 DEF Places

\* What a struct is made of depends on the heap by its items only.
LEMMA Unmoved ==
  ASSUME NEW s, NEW g, NEW h, ItemsOf(s, h) = ItemsOf(s, g)
  PROVE  /\ \A v : Held(v, s, g) => Held(v, s, h)
         /\ Places(s, h) = Places(s, g)
         /\ \A p : CellAt(s, h, p) = CellAt(s, g, p)
BY DEF Held, Places, CellAt

LEMMA LiveCells ==
  ASSUME CopyIInv, NEW v \in Variables, NEW p \in Places(var[v], heap)
  PROVE  CellAt(var[v], heap, p) \in DOMAIN heap /\ var[v] # Nil
<1>1. CellAt(var[v], heap, p) \in Live(var, heap)
  BY DEF Live
<1>2. Live(var, heap) \subseteq DOMAIN heap
  BY DEF CopyIInv
<1> QED
  BY <1>1, <1>2 DEF Places

LEMMA ItemsCell ==
  ASSUME CopyIInv, NEW v \in Variables, var[v] # Nil,
         var[v].type \in DOMAIN ItemType, var[v].cell["items"] # Nil
  PROVE  /\ var[v].cell["items"] \in DOMAIN heap /\ var[v].cell["items"] \in Cells
         /\ var[v].cell["items"][1] = v /\ var[v].cell["items"][3][2] = "items"
         /\ ItemsOf(var[v], heap) = heap[var[v].cell["items"]]
<1> DEFINE c == var[v].cell["items"]
<1>1. Held(v, var[v], heap) /\ type \in DOMAIN Fields
  BY DEF CopyIInv
<1>2. /\ c \in Cells /\ c[1] = v /\ c[3][2] = "items" /\ ItemsOf(var[v], heap) = heap[c]
      /\ <<0, "items">> \in Places(var[v], heap) /\ CellAt(var[v], heap, <<0, "items">>) = c
  BY <1>1, ListItems
<1>3. c \in DOMAIN heap
  <2> HIDE DEF c
  <2> QED
    BY <1>2, LiveCells
<1> QED
  BY <1>2, <1>3

LEMMA SharesIfHeld == ASSUME CopyIInv PROVE SharesOnlySpec
<1> SUFFICES ASSUME NEW v \in Variables, NEW w \in Variables, v # w,
                    NEW p \in Places(var[v], heap), NEW q \in Places(var[w], heap),
                    CellAt(var[v], heap, p) = CellAt(var[w], heap, q), p[2] \notin SpecFields
             PROVE  FALSE
  BY DEF SharesOnlySpec
<1>1. var[v] # Nil /\ var[w] # Nil
  BY LiveCells
<1>2. Held(v, var[v], heap) /\ Held(w, var[w], heap) /\ type \in DOMAIN Fields
  BY <1>1 DEF CopyIInv
<1>3. CellAt(var[v], heap, p)[3][2] = p[2] /\ CellAt(var[v], heap, p)[1] = v
  BY <1>1, <1>2, PlacesOf
<1>4. /\ CellAt(var[w], heap, q)[3][2] = q[2]
      /\ q[2] \notin SpecFields => CellAt(var[w], heap, q)[1] = w
  BY <1>1, <1>2, PlacesOf
<1> QED
  BY <1>3, <1>4

--------------------------------------------------------------------------------
(* Assignments.                                                                *)

Merged(new) ==
  [c \in DOMAIN heap \cup DOMAIN new |-> IF c \in DOMAIN new THEN new[c] ELSE heap[c]]

\* New cells of v's disturb no other variable, and collecting what nobody reaches disturbs
\* none at all.
LEMMA AssignKeeps ==
  ASSUME CopyIInv, NEW v \in Variables, NEW s, NEW new, \A c \in DOMAIN new : c[1] = v,
         s # Nil => Held(v, s, Merged(new)),
         Assign(v, s, new), UNCHANGED type
  PROVE  /\ CopyIInv'
         /\ var'[v] = s /\ (s # Nil => ItemsOf(s, heap') = ItemsOf(s, Merged(new)))
         /\ \A p \in Places(s, Merged(new)) :
              heap'[CellAt(s, Merged(new), p)] = Merged(new)[CellAt(s, Merged(new), p)]
<1> DEFINE h == Merged(new)
           vs == [var EXCEPT ![v] = s]
<1>1. var' = vs /\ heap' = [c \in Live(vs, h) |-> h[c]]
  BY DEF Assign, Merged
<1>2. vs = [x \in Variables |-> IF x = v THEN s ELSE var[x]]
  BY DEF CopyIInv
<1>3. ASSUME NEW x \in Variables, x # v, var[x] # Nil
      PROVE  ItemsOf(var[x], h) = ItemsOf(var[x], heap)
  <2> DEFINE c == var[x].cell["items"]
  <2>1. Held(x, var[x], heap) /\ type \in DOMAIN Fields
    BY <1>3 DEF CopyIInv
  <2>2. CASE var[x].type \in DOMAIN ItemType /\ c # Nil
    <3>1. c[1] = x /\ c \in DOMAIN heap
      BY <1>3, <2>2, ItemsCell
    <3>2. h[c] = heap[c]
      <4> HIDE DEF c
      <4> QED
        BY <1>3, <3>1 DEF Merged
    <3> QED
      BY <3>2 DEF ItemsOf
  <2>3. CASE ~(var[x].type \in DOMAIN ItemType /\ c # Nil)
    BY <2>3 DEF ItemsOf
  <2> QED
    BY <2>2, <2>3
<1>4. ASSUME NEW x \in Variables, vs[x] # Nil PROVE Held(x, vs[x], h)
  BY <1>2, <1>3, <1>4, Unmoved DEF CopyIInv
<1> HIDE DEF h, vs
<1>5. ASSUME NEW x \in Variables, vs[x] # Nil
      PROVE  ItemsOf(vs[x], heap') = ItemsOf(vs[x], h)
  <2> DEFINE c == vs[x].cell["items"]
  <2>1. Held(x, vs[x], h) /\ type \in DOMAIN Fields
    BY <1>4, <1>5 DEF CopyIInv
  <2>2. CASE vs[x].type \in DOMAIN ItemType /\ c # Nil
    <3>1. <<0, "items">> \in Places(vs[x], h) /\ CellAt(vs[x], h, <<0, "items">>) = c
      BY <1>5, <2>1, <2>2, ListItems
    <3>2. c \in Live(vs, h)
      <4> HIDE DEF c
      <4> QED
        BY <3>1 DEF Live
    <3>3. heap'[c] = h[c]
      BY <1>1, <3>2
    <3> QED
      BY <3>3 DEF ItemsOf
  <2>3. CASE ~(vs[x].type \in DOMAIN ItemType /\ c # Nil)
    BY <2>3 DEF ItemsOf
  <2> QED
    BY <2>2, <2>3
<1>6. ASSUME NEW x \in Variables
      PROVE  /\ Places(vs[x], heap') = Places(vs[x], h)
             /\ \A p \in Places(vs[x], h) : CellAt(vs[x], heap', p) = CellAt(vs[x], h, p)
  <2>1. CASE vs[x] = Nil
    BY <2>1 DEF Places
  <2>2. CASE vs[x] # Nil
    BY <1>5, <2>2, Unmoved
  <2> QED
    BY <2>1, <2>2
<1>7. Live(vs, heap') = Live(vs, h)
  BY <1>6 DEF Live
<1>8. ASSUME NEW x \in Variables, vs[x] # Nil PROVE Held(x, vs[x], heap')
  BY <1>4, <1>5, <1>8, Unmoved
<1>9. CopyIInv'
  <2>0. var' = vs
    BY <1>1
  <2>1. ASSUME NEW x \in Variables, var'[x] # Nil PROVE Held(x, var[x], heap)'
    <3>1. Held(x, var'[x], heap')
      BY <1>8, <2>0, <2>1
    <3> QED
      BY <3>1 DEF Held
  <2>2. Live(var, heap)' = Live(vs, h)
    BY <1>7, <2>0
  <2>3. type' \in DOMAIN Fields
    BY DEF CopyIInv
  <2> QED
    <3>1. /\ var' = [x \in Variables |-> var'[x]]
          /\ Live(var, heap)' \subseteq DOMAIN heap'
      <4> HIDE DEF Held
      <4> QED
        BY <1>1, <1>2, <2>2
    <3> QED
      BY <2>1, <2>3, <3>1 DEF CopyIInv
<1>10. vs[v] = s
  BY <1>2
<1>11. ASSUME NEW p \in Places(s, h) PROVE heap'[CellAt(s, h, p)] = h[CellAt(s, h, p)]
  <2>1. CellAt(s, h, p) \in Live(vs, h)
    BY <1>10, <1>11 DEF Live
  <2> QED
    BY <1>1, <2>1
<1>12. s # Nil => ItemsOf(s, heap') = ItemsOf(s, h)
  BY <1>5, <1>10
<1> QED
  BY <1>1, <1>9, <1>10, <1>11, <1>12 DEF h

LEMMA CopiesInitHold == Init => CopyIInv
<1> SUFFICES ASSUME Init PROVE CopyIInv
  OBVIOUS
<1>1. var = [v \in Variables |-> Nil] /\ type \in DOMAIN Fields
  BY DEF Init
<1>2. Live(var, heap) = {}
  BY <1>1 DEF Live, Places
<1> QED
  BY <1>1, <1>2 DEF CopyIInv

--------------------------------------------------------------------------------
(* Edits in place.                                                             *)

\* An edit leaves every struct its cells.
LEMMA InPlaceKeeps ==
  ASSUME CopyIInv, UNCHANGED type, DOMAIN heap' = DOMAIN heap,
         var' = [x \in Variables |-> var'[x]],
         \A x \in Variables :
           IF var[x] = Nil THEN var'[x] = Nil
           ELSE /\ Held(x, var'[x], heap')
                /\ Places(var'[x], heap') = Places(var[x], heap)
                /\ \A p \in Places(var[x], heap) : CellAt(var'[x], heap', p) = CellAt(var[x], heap, p)
  PROVE  CopyIInv'
<1>1. ASSUME NEW x \in Variables
      PROVE  {CellAt(var'[x], heap', p) : p \in Places(var'[x], heap')}
               = {CellAt(var[x], heap, p) : p \in Places(var[x], heap)}
  <2>1. CASE var[x] = Nil
    BY <2>1 DEF Places
  <2>2. CASE var[x] # Nil
    BY <2>2
  <2> QED
    BY <2>1, <2>2
<1>2. Live(var', heap') = Live(var, heap)
  BY <1>1 DEF Live
<1>3. ASSUME NEW x \in Variables, var'[x] # Nil PROVE Held(x, var[x], heap)'
  <2>1. Held(x, var'[x], heap')
    BY <1>3
  <2> QED
    BY <2>1 DEF Held
<1> QED
  BY <1>2, <1>3 DEF CopyIInv

LEMMA EditScalarKeeps ==
  ASSUME CopyIInv, NEW v \in Variables, NEW d \in Changed, EditScalar(v, d) PROVE CopyIInv'
<1> DEFINE s == [var[v] EXCEPT !.scalar = d]
<1>1. /\ heap' = heap /\ type' = type /\ var[v] # Nil
      /\ var' = [x \in Variables |-> IF x = v THEN s ELSE var[x]]
  BY DEF EditScalar, CopyIInv
<1>2. Held(v, var[v], heap)
  BY <1>1 DEF CopyIInv
<1>3. s.type = var[v].type /\ s.cell = var[v].cell /\ s \in Structs(s.type) /\ s # Nil
  <2>1. var[v] \in Structs(var[v].type) /\ var[v].type \in DOMAIN Fields
    BY <1>2 DEF Held, StructOf
  <2>2. s.type = var[v].type /\ s.cell = var[v].cell /\ s \in Structs(s.type)
    BY <2>1 DEF Structs
  <2> QED
    BY <2>1, <2>2, NilAssumption
<1> HIDE DEF s
<1>4. ItemsOf(s, heap) = ItemsOf(var[v], heap) /\ NotNil(s) = NotNil(var[v])
  BY <1>3 DEF ItemsOf, NotNil
<1>5. Held(v, s, heap)
  BY <1>2, <1>3, <1>4 DEF Held, StructOf
<1>6. Places(s, heap) = Places(var[v], heap)
  BY <1>1, <1>3, <1>4 DEF Places
<1>7. \A p : CellAt(s, heap, p) = CellAt(var[v], heap, p)
  BY <1>3, <1>4 DEF CellAt
<1>8. ASSUME NEW x \in Variables, var[x] # Nil
      PROVE  /\ Held(x, var'[x], heap)
             /\ Places(var'[x], heap) = Places(var[x], heap)
             /\ \A p \in Places(var[x], heap) : CellAt(var'[x], heap, p) = CellAt(var[x], heap, p)
  <2>1. CASE x = v
    BY <1>1, <1>5, <1>6, <1>7, <2>1
  <2>2. CASE x # v
    BY <1>1, <1>8, <2>2 DEF CopyIInv
  <2> QED
    BY <2>1, <2>2
<1>9. \A x \in Variables : var[x] = Nil => var'[x] = Nil
  BY <1>1
<1>10. var' = [x \in Variables |-> var'[x]] /\ DOMAIN heap' = DOMAIN heap
  BY <1>1
<1> QED
  BY <1>1, <1>8, <1>9, <1>10, InPlaceKeeps

\* The cells that are edited hold no items.
LEMMA EditCellKeeps ==
  ASSUME CopyIInv, NEW v \in Variables, NEW p \in Places(var[v], heap), NEW d, EditCell(v, p, d)
  PROVE  CopyIInv'
<1> DEFINE e == CellAt(var[v], heap, p)
<1>1. /\ var' = var /\ type' = type /\ p[2] # "items"
      /\ heap' = [heap EXCEPT ![e] = d]
  BY DEF EditCell, Items
<1>2. e[3][2] = p[2]
  <2>1. var[v] # Nil
    BY LiveCells
  <2>2. Held(v, var[v], heap) /\ type \in DOMAIN Fields
    BY <2>1 DEF CopyIInv
  <2> QED
    BY <2>1, <2>2, PlacesOf
<1> HIDE DEF e
<1>3. ASSUME NEW x \in Variables, var[x] # Nil PROVE ItemsOf(var[x], heap') = ItemsOf(var[x], heap)
  <2> DEFINE c == var[x].cell["items"]
  <2>1. Held(x, var[x], heap) /\ type \in DOMAIN Fields
    BY <1>3 DEF CopyIInv
  <2>2. CASE var[x].type \in DOMAIN ItemType /\ c # Nil
    <3>1. c[3][2] = "items" /\ c \in DOMAIN heap
      BY <1>3, <2>2, ItemsCell
    <3>2. heap'[c] = heap[c]
      <4> HIDE DEF c
      <4> QED
        BY <1>1, <1>2, <3>1
    <3> QED
      BY <3>2 DEF ItemsOf
  <2>3. CASE ~(var[x].type \in DOMAIN ItemType /\ c # Nil)
    BY <2>3 DEF ItemsOf
  <2> QED
    BY <2>2, <2>3
<1>4. ASSUME NEW x \in Variables, var[x] # Nil
      PROVE  /\ Held(x, var[x], heap')
             /\ Places(var[x], heap') = Places(var[x], heap)
             /\ \A q : CellAt(var[x], heap', q) = CellAt(var[x], heap, q)
  BY <1>3, <1>4, Unmoved DEF CopyIInv
<1>5. DOMAIN heap' = DOMAIN heap /\ var' = [x \in Variables |-> var'[x]]
  BY <1>1 DEF CopyIInv
<1> QED
  BY <1>1, <1>4, <1>5, InPlaceKeeps

LEMMA EditItemKeeps ==
  ASSUME CopyIInv, NEW v \in Variables, NEW i, NEW d \in Changed, EditItem(v, i, d) PROVE CopyIInv'
<1> DEFINE c == var[v].cell["items"]
           old == ItemsOf(var[v], heap)
           item == [old[i] EXCEPT !.scalar = d]
           new == [old EXCEPT ![i] = item]
<1>1. /\ var' = var /\ type' = type /\ var[v] # Nil /\ i \in DOMAIN old
      /\ heap' = [heap EXCEPT ![c][i].scalar = d]
  BY DEF EditItem
<1>2. Held(v, var[v], heap) /\ type \in DOMAIN Fields
  BY <1>1 DEF CopyIInv
<1>3. var[v].type \in DOMAIN ItemType /\ c # Nil
  BY <1>1 DEF ItemsOf
<1>4. c \in DOMAIN heap /\ c[1] = v /\ c[3][2] = "items" /\ old = heap[c]
  BY <1>1, <1>3, ItemsCell
<1>5. heap' = [heap EXCEPT ![c] = new]
  BY <1>1, <1>4
<1>6. ItemsOf(var[v], heap') = new
  BY <1>3, <1>4, <1>5 DEF ItemsOf
<1>7. /\ item.type = old[i].type /\ item.cell = old[i].cell
      /\ StructOf(v, item) /\ NotNil(item) = NotNil(old[i])
  <2>1. StructOf(v, old[i])
    BY <1>1, <1>2 DEF Held
  <2> HIDE DEF old
  <2>2. item.type = old[i].type /\ item.cell = old[i].cell /\ item \in Structs(item.type)
    BY <2>1 DEF StructOf, Structs
  <2> HIDE DEF item
  <2> QED
    BY <2>1, <2>2 DEF StructOf, NotNil
<1>8. DOMAIN new = DOMAIN old
  OBVIOUS
<1>9. ASSUME NEW j \in DOMAIN old
      PROVE  /\ new[j].type = old[j].type /\ new[j].cell = old[j].cell
             /\ NotNil(new[j]) = NotNil(old[j])
             /\ StructOf(v, old[j]) => StructOf(v, new[j])
  <2> HIDE DEF old, item
  <2> QED
    BY <1>7
<1> HIDE DEF new, c, old
<1>10. Held(v, var[v], heap')
  <2>1. /\ StructOf(v, var[v]) /\ var[v].type = type
        /\ \A j \in DOMAIN old :
             j \in Nat \ {0} /\ StructOf(v, old[j]) /\ old[j].type = ItemType[type]
    BY <1>2 DEF Held, old
  <2>2. \A j \in DOMAIN new :
          j \in Nat \ {0} /\ StructOf(v, new[j]) /\ new[j].type = ItemType[type]
    BY <1>8, <1>9, <2>1
  <2> QED
    BY <1>6, <2>1, <2>2 DEF Held
<1>11. Places(var[v], heap') = Places(var[v], heap)
  <2> DEFINE N(j) == {<<j, f>> : f \in NotNil(new[j])}
             O(j) == {<<j, f>> : f \in NotNil(old[j])}
  <2>1. \A j \in DOMAIN old : N(j) = O(j)
    BY <1>9
  <2>2. UNION {N(j) : j \in DOMAIN new} = UNION {O(j) : j \in DOMAIN old}
    <3> HIDE DEF N, O
    <3> QED
      BY <1>8, <2>1
  <2> QED
    BY <1>6, <2>2 DEF Places, old
<1>12. ASSUME NEW p \in Places(var[v], heap)
       PROVE  CellAt(var[v], heap', p) = CellAt(var[v], heap, p)
  <2>1. p[1] = 0 \/ (p[1] # 0 /\ p[1] \in DOMAIN old)
    BY <1>1, <1>2, PlacesOf DEF old
  <2>2. CASE p[1] = 0
    BY <2>2 DEF CellAt
  <2>3. CASE p[1] # 0 /\ p[1] \in DOMAIN old
    BY <1>6, <1>9, <2>3 DEF CellAt, old
  <2> QED
    BY <2>1, <2>2, <2>3
<1>13. ASSUME NEW x \in Variables, x # v, var[x] # Nil
       PROVE  ItemsOf(var[x], heap') = ItemsOf(var[x], heap)
  <2> DEFINE e == var[x].cell["items"]
  <2>1. CASE var[x].type \in DOMAIN ItemType /\ e # Nil
    <3>1. e[1] = x
      BY <1>13, <2>1, ItemsCell
    <3>2. heap'[e] = heap[e]
      <4> HIDE DEF e
      <4>1. e # c
        BY <1>4, <1>13, <3>1
      <4>2. e \in DOMAIN heap
        BY <1>13, <2>1, ItemsCell DEF e
      <4> QED
        BY <1>5, <4>1, <4>2
    <3> QED
      BY <3>2 DEF ItemsOf
  <2>2. CASE ~(var[x].type \in DOMAIN ItemType /\ e # Nil)
    BY <2>2 DEF ItemsOf
  <2> QED
    BY <2>1, <2>2
<1>14. ASSUME NEW x \in Variables, var[x] # Nil
       PROVE  /\ Held(x, var[x], heap')
              /\ Places(var[x], heap') = Places(var[x], heap)
              /\ \A p \in Places(var[x], heap) : CellAt(var[x], heap', p) = CellAt(var[x], heap, p)
  <2>1. CASE x = v
    BY <1>10, <1>11, <1>12, <2>1
  <2>2. CASE x # v
    BY <1>13, <1>14, <2>2, Unmoved DEF CopyIInv
  <2> QED
    BY <2>1, <2>2
<1>15. DOMAIN heap' = DOMAIN heap /\ var' = [x \in Variables |-> var'[x]]
  BY <1>1, <1>5 DEF CopyIInv
<1> QED
  BY <1>1, <1>14, <1>15, InPlaceKeeps

LEMMA EditKeeps == ASSUME CopyIInv, NEW v \in Variables, Edit(v) PROVE CopyIInv'
BY EditScalarKeeps, EditCellKeeps, EditItemKeeps DEF Edit

--------------------------------------------------------------------------------
(* Decoding.                                                                   *)

LEMMA DecodeKeeps ==
  ASSUME CopyIInv, NEW v \in Variables, NEW n \in Nat, NEW given \in BOOLEAN, Decode(v, n, given)
  PROVE  CopyIInv'
<1> DEFINE g == NewAllocation(v)
           At(i, kind) == [f \in Fields[kind] |-> IF given THEN <<v, g, <<i, f>>>> ELSE Nil]
           items == [i \in 1..n |-> Struct(ItemType[type], Sent, At(i, ItemType[type]))]
           places == IF ~given THEN {}
                     ELSE {<<0, f>> : f \in Fields[type]} \cup
                          IF type \in DOMAIN ItemType
                          THEN {<<i, f>> : i \in 1..n, f \in Fields[ItemType[type]]} ELSE {}
           s == Struct(type, Sent, At(0, type))
           new == [c \in {<<v, g, p>> : p \in places} |-> IF c[3][2] \in Items THEN items ELSE Sent]
<1>1. NewAllocations(v) # {} /\ Assign(v, s, new) /\ type' = type
  BY DEF Decode
<1>2. g \in Allocations
  BY <1>1 DEF NewAllocation, NewAllocations
<1>3. ASSUME NEW i \in Nat, NEW kind \in DOMAIN Fields
      PROVE  StructOf(v, Struct(kind, Sent, At(i, kind)))
  <2> HIDE DEF g
  <2>1. ASSUME NEW f \in Fields[kind]
        PROVE  /\ At(i, kind)[f] \in Cells \cup {Nil}
               /\ At(i, kind)[f] # Nil => At(i, kind)[f][3][2] = f /\ At(i, kind)[f][1] = v
    BY <1>2 DEF Cells
  <2>2. At(i, kind) \in [Fields[kind] -> Cells \cup {Nil}]
    BY <2>1
  <2> HIDE DEF At
  <2> QED
    BY <2>1, <2>2 DEF StructOf, Struct, Structs
<1>4. ASSUME s # Nil PROVE Held(v, s, Merged(new))
  <2>1. StructOf(v, s) /\ s.type = type
    BY <1>3 DEF CopyIInv, Struct
  <2>2. CASE type \in DOMAIN ItemType /\ s.cell["items"] # Nil
    <3> DEFINE c == <<v, g, <<0, "items">>>>
    <3>1. Fields[type] = Items /\ ItemType[type] \in DOMAIN Fields
      BY <2>2, FieldFacts
    <3>2. given /\ s.cell["items"] = c
      <4>1. s.cell = At(0, type)
        BY DEF Struct
      <4> HIDE DEF s
      <4> QED
        BY <2>2, <3>1, <4>1 DEF Items
    <3>3. <<0, "items">> \in places
      BY <3>1, <3>2 DEF Items
    <3>4. c \in DOMAIN new /\ new[c] = items
      <4> HIDE DEF places, items, g
      <4> QED
        BY <3>3 DEF Items
    <3>5. ItemsOf(s, Merged(new)) = items
      <4>1. Merged(new)[c] = items
        <5> HIDE DEF c, new, items
        <5> QED
          BY <3>4 DEF Merged
      <4> HIDE DEF c, new, items, s
      <4> QED
        BY <2>1, <2>2, <3>2, <4>1 DEF ItemsOf
    <3>6. ASSUME NEW i \in DOMAIN items
          PROVE  /\ i \in Nat \ {0} /\ StructOf(v, items[i])
                 /\ items[i].type = ItemType[type]
      <4>1. i \in Nat \ {0} /\ items[i] = Struct(ItemType[type], Sent, At(i, ItemType[type]))
        OBVIOUS
      <4>2. StructOf(v, items[i])
        BY <1>3, <3>1, <4>1
      <4> QED
        BY <4>1, <4>2 DEF Struct
    <3> HIDE DEF items, new, s
    <3> QED
      BY <2>1, <3>5, <3>6 DEF Held
  <2>3. CASE ~(type \in DOMAIN ItemType /\ s.cell["items"] # Nil)
    <3> HIDE DEF s, new
    <3>1. ItemsOf(s, Merged(new)) = <<>>
      BY <2>1, <2>3 DEF ItemsOf
    <3> QED
      BY <2>1, <3>1 DEF Held
  <2> QED
    BY <2>2, <2>3
<1>5. \A c \in DOMAIN new : c[1] = v
  OBVIOUS
<1> HIDE DEF s, new
<1> QED
  BY <1>1, <1>4, <1>5, AssignKeeps

--------------------------------------------------------------------------------
(* Copies.                                                                     *)

\* The places of v's struct for which a copy gets cells of its own.
OwnPlaces(v) ==
  {p \in Places(var[v], heap) :
     p[2] \in IF p[1] = 0 THEN DeepCopyInto[var[v].type].own ELSE DeepCopyInto[var[v].type].item}

\* x, or an item of it, with cells of allocation g of w in those places.
Moved(w, g, own, i, x) ==
  [x EXCEPT !.cell = [f \in DOMAIN x.cell |->
     IF <<i, f>> \in own THEN <<w, g, <<i, f>>>> ELSE x.cell[f]]]

\* They are all but the spec's.
LEMMA OwnIsNotSpec ==
  ASSUME CopyIInv, NEW v \in Variables, NEW p \in Places(var[v], heap)
  PROVE  p \in OwnPlaces(v) <=> p[2] \notin SpecFields
<1> DEFINE s == var[v]
<1>1. s # Nil
  BY LiveCells
<1>2. Held(v, s, heap) /\ type \in DOMAIN Fields /\ s.type = type
  BY <1>1 DEF CopyIInv, Held
<1>3. CASE p[1] = 0 /\ p[2] \in NotNil(s)
  <2>1. p[2] \in Fields[type]
    BY <1>2, <1>3 DEF NotNil, Held, StructOf, Structs
  <2>2. DeepCopyInto[type].own = Fields[type] \ SpecFields
    BY <1>2, CopiedFields
  <2> QED
    BY <1>2, <1>3, <2>1, <2>2 DEF OwnPlaces
<1>4. CASE p[1] # 0 /\ p[1] \in DOMAIN ItemsOf(s, heap) /\ p[2] \in NotNil(ItemsOf(s, heap)[p[1]])
  <2> DEFINE x == ItemsOf(s, heap)[p[1]]
  <2>1. StructOf(v, x) /\ x.type = ItemType[type]
    BY <1>2, <1>4 DEF Held
  <2>2. p[2] \in Fields[ItemType[type]]
    <3> HIDE DEF x
    <3>1. p[2] \in NotNil(x)
      BY <1>4 DEF x
    <3> QED
      BY <2>1, <3>1 DEF NotNil, StructOf, Structs
  <2>3. type \in DOMAIN ItemType
    BY <1>2, <1>4 DEF ItemsOf
  <2>4. DeepCopyInto[type].item = Fields[ItemType[type]] \ SpecFields
    BY <1>2, <2>3, CopiedFields
  <2> QED
    BY <1>2, <1>4, <2>2, <2>4 DEF OwnPlaces
<1>5. \/ p[1] = 0 /\ p[2] \in NotNil(s)
      \/ p[1] # 0 /\ p[1] \in DOMAIN ItemsOf(s, heap) /\ p[2] \in NotNil(ItemsOf(s, heap)[p[1]])
  BY <1>1, <1>2, PlacesOf
<1> QED
  BY <1>3, <1>4, <1>5

\* The cells of x there are all but the spec's.
OwnsAllButSpec(own, i, x) ==
  /\ \A f \in NotNil(x) : <<i, f>> \in own <=> f \notin SpecFields
  /\ \A f : <<i, f>> \in own => f \in NotNil(x)

\* What becomes of x then.
SaysTheSame(w, g, own, i, x, m) ==
  /\ m # Nil /\ m.type = x.type /\ m.scalar = x.scalar /\ NotNil(m) = NotNil(x)
  /\ \A f \in NotNil(x) : m.cell[f] = IF <<i, f>> \in own THEN <<w, g, <<i, f>>>> ELSE x.cell[f]

LEMMA MovedStruct ==
  ASSUME NEW v, NEW w \in Variables, NEW g \in Allocations, NEW own, NEW i \in Nat, NEW x,
         StructOf(v, x), OwnsAllButSpec(own, i, x), NEW m, m = Moved(w, g, own, i, x)
  PROVE  StructOf(w, m) /\ SaysTheSame(w, g, own, i, x, m)
<1>0. /\ \A f \in NotNil(x) : <<i, f>> \in own <=> f \notin SpecFields
      /\ \A f : <<i, f>> \in own => f \in NotNil(x)
  BY DEF OwnsAllButSpec
<1>1. /\ x \in Structs(x.type) /\ x.type \in DOMAIN Fields /\ DOMAIN x.cell = Fields[x.type]
  BY DEF StructOf, Structs
<1>2. /\ m.type = x.type /\ m.scalar = x.scalar
      /\ m.cell = [f \in Fields[x.type] |-> IF <<i, f>> \in own THEN <<w, g, <<i, f>>>> ELSE x.cell[f]]
      /\ m = [type |-> m.type, scalar |-> m.scalar, cell |-> m.cell]
  <2> DEFINE cells == [f \in Fields[x.type] |->
                         IF <<i, f>> \in own THEN <<w, g, <<i, f>>>> ELSE x.cell[f]]
  <2>1. m = [x EXCEPT !.cell = cells]
    BY <1>1 DEF Moved
  <2> HIDE DEF cells
  <2>2. /\ m.type = x.type /\ m.scalar = x.scalar /\ m.cell = cells
        /\ m = [type |-> m.type, scalar |-> m.scalar, cell |-> m.cell]
    BY <1>1, <2>1 DEF Structs
  <2> QED
    BY <2>2 DEF cells
<1>3. ASSUME NEW f \in Fields[x.type]
      PROVE  /\ m.cell[f] \in Cells \cup {Nil}
             /\ m.cell[f] # Nil <=> x.cell[f] # Nil
             /\ m.cell[f] # Nil => m.cell[f][3][2] = f /\ (f \notin SpecFields => m.cell[f][1] = w)
  <2>1. CASE <<i, f>> \in own
    <3>1. m.cell[f] = <<w, g, <<i, f>>>> /\ x.cell[f] # Nil
      BY <1>0, <1>1, <1>2, <2>1 DEF NotNil
    <3>2. m.cell[f] \in Cells
      BY <1>1, <3>1 DEF Cells
    <3> QED
      BY <3>1, <3>2, NilAssumption
  <2>2. CASE <<i, f>> \notin own
    <3>1. m.cell[f] = x.cell[f]
      BY <1>2, <2>2
    <3>2. x.cell[f] # Nil => f \in SpecFields
      BY <1>0, <1>1, <2>2 DEF NotNil
    <3> QED
      BY <1>1, <3>1, <3>2 DEF StructOf, Structs
  <2> QED
    BY <2>1, <2>2
<1>4. m.cell \in [Fields[x.type] -> Cells \cup {Nil}]
  BY <1>2, <1>3
<1>5. m \in Structs(m.type)
  BY <1>1, <1>2, <1>4 DEF Structs
<1>6. StructOf(w, m) /\ m # Nil
  BY <1>1, <1>2, <1>3, <1>5, NilAssumption DEF StructOf
<1>7. NotNil(m) = NotNil(x)
  BY <1>1, <1>2, <1>3, <1>4 DEF NotNil
<1>8. \A f \in NotNil(x) : m.cell[f] = IF <<i, f>> \in own THEN <<w, g, <<i, f>>>> ELSE x.cell[f]
  BY <1>1, <1>2 DEF NotNil
<1> QED
  BY <1>2, <1>6, <1>7, <1>8 DEF SaysTheSame

LEMMA CopyOutcome ==
  ASSUME CopyIInv, NEW v \in Variables, NEW w \in Variables, Copy(v, w)
  PROVE  CopyIInv' /\ Value(var[w], heap)' = Value(var[v], heap)
<1> DEFINE s == var[v]
           g == NewAllocation(w)
           own == OwnPlaces(v)
           To(i, x) == Moved(w, g, own, i, x)
           content(p) == IF p[2] \in Items
                         THEN [i \in DOMAIN ItemsOf(s, heap) |-> To(i, ItemsOf(s, heap)[i])]
                         ELSE Elements(s, p)
           new == [c \in {<<w, g, p>> : p \in own} |-> content(c[3])]
           h == Merged(new)
           t == To(0, s)
<1>1. /\ v # w /\ NewAllocations(w) # {} /\ type' = type
      /\ IF s = Nil THEN Assign(w, Nil, <<>>) ELSE Assign(w, t, new)
  BY DEF Copy, OwnPlaces, Moved
<1>2. g \in Allocations
  BY <1>1 DEF NewAllocation, NewAllocations
<1>3. CASE s = Nil
  <2>1. \A c \in DOMAIN (<<>>) : c[1] = w
    OBVIOUS
  <2>2. CopyIInv' /\ var'[w] = Nil
    BY <1>1, <1>3, <2>1, AssignKeeps
  <2> QED
    BY <1>3, <2>2 DEF Value
<1>4. CASE s # Nil
  <2>1. Held(v, s, heap) /\ StructOf(v, s) /\ s.type = type /\ type \in DOMAIN Fields
    BY <1>4 DEF CopyIInv, Held
  <2>2. \A p \in Places(s, heap) : p \in own <=> p[2] \notin SpecFields
    BY OwnIsNotSpec
  <2>3. own \subseteq Places(s, heap)
    BY DEF OwnPlaces
  <2> HIDE DEF g, own
  <2>4. ASSUME NEW f PROVE <<0, f>> \in Places(s, heap) <=> f \in NotNil(s)
    <3>1. f \in NotNil(s) => <<0, f>> \in Places(s, heap)
      BY <1>4 DEF Places
    <3>2. <<0, f>> \in Places(s, heap) => f \in NotNil(s)
      <4> SUFFICES ASSUME <<0, f>> \in Places(s, heap) PROVE f \in NotNil(s)
        OBVIOUS
      <4> DEFINE p == <<0, f>>
      <4>1. p[1] = 0 /\ p[2] = f
        OBVIOUS
      <4> HIDE DEF p
      <4>2. p \in Places(s, heap)
        BY DEF p
      <4> QED
        BY <1>4, <2>1, <4>1, <4>2, PlacesOf
    <3> QED
      BY <3>1, <3>2
  <2>5. ASSUME NEW i \in DOMAIN ItemsOf(s, heap), NEW f
        PROVE  <<i, f>> \in Places(s, heap) <=> f \in NotNil(ItemsOf(s, heap)[i])
    <3>0. i # 0
      BY <2>1 DEF Held
    <3>1. f \in NotNil(ItemsOf(s, heap)[i]) => <<i, f>> \in Places(s, heap)
      BY <1>4 DEF Places
    <3>2. <<i, f>> \in Places(s, heap) => f \in NotNil(ItemsOf(s, heap)[i])
      <4> SUFFICES ASSUME <<i, f>> \in Places(s, heap) PROVE f \in NotNil(ItemsOf(s, heap)[i])
        OBVIOUS
      <4> DEFINE p == <<i, f>>
      <4>1. p[1] = i /\ p[2] = f
        OBVIOUS
      <4> HIDE DEF p
      <4>2. p \in Places(s, heap)
        BY DEF p
      <4> QED
        BY <1>4, <2>1, <3>0, <4>1, <4>2, PlacesOf
    <3> QED
      BY <3>1, <3>2
  <2>6. /\ StructOf(w, t) /\ t # Nil /\ t.type = s.type /\ t.scalar = s.scalar
        /\ NotNil(t) = NotNil(s)
        /\ \A f \in NotNil(s) : t.cell[f] = IF <<0, f>> \in own THEN <<w, g, <<0, f>>>> ELSE s.cell[f]
    <3>1. ASSUME NEW f \in NotNil(s) PROVE <<0, f>> \in own <=> f \notin SpecFields
      <4> DEFINE p == <<0, f>>
      <4>1. p \in Places(s, heap) /\ p[2] = f
        BY <2>4
      <4> HIDE DEF p
      <4> QED
        BY <2>2, <4>1 DEF p
    <3>2. \A f : <<0, f>> \in own => f \in NotNil(s)
      BY <2>3, <2>4
    <3>3. OwnsAllButSpec(own, 0, s)
      BY <3>1, <3>2 DEF OwnsAllButSpec
    <3>4. t = Moved(w, g, own, 0, s) /\ 0 \in Nat
      OBVIOUS
    <3> HIDE DEF t
    <3>5. StructOf(w, t) /\ SaysTheSame(w, g, own, 0, s, t)
      BY <1>2, <2>1, <3>3, <3>4, MovedStruct
    <3> QED
      BY <3>5 DEF SaysTheSame
  <2>7. ASSUME NEW i \in DOMAIN ItemsOf(s, heap)
        PROVE  LET x == ItemsOf(s, heap)[i]
               IN /\ i \in Nat \ {0} /\ StructOf(w, To(i, x))
                  /\ To(i, x).type = x.type /\ x.type = ItemType[type] /\ To(i, x).scalar = x.scalar
                  /\ NotNil(To(i, x)) = NotNil(x)
                  /\ \A f \in NotNil(x) :
                       To(i, x).cell[f] = IF <<i, f>> \in own THEN <<w, g, <<i, f>>>> ELSE x.cell[f]
    <3> DEFINE x == ItemsOf(s, heap)[i]
    <3>1. i \in Nat \ {0} /\ StructOf(v, x) /\ x.type = ItemType[type]
      BY <2>1 DEF Held
    <3>2. ASSUME NEW f \in NotNil(x) PROVE <<i, f>> \in own <=> f \notin SpecFields
      <4> DEFINE p == <<i, f>>
      <4>1. p \in Places(s, heap) /\ p[2] = f
        BY <2>5
      <4> HIDE DEF p, x
      <4> QED
        BY <2>2, <4>1 DEF p
    <3>3. \A f : <<i, f>> \in own => f \in NotNil(x)
      BY <2>3, <2>5
    <3> DEFINE m == To(i, x)
    <3> HIDE DEF x
    <3>4. m = Moved(w, g, own, i, x) /\ i \in Nat /\ OwnsAllButSpec(own, i, x)
      BY <3>1, <3>2, <3>3 DEF OwnsAllButSpec
    <3> HIDE DEF m
    <3>5. StructOf(w, m) /\ SaysTheSame(w, g, own, i, x, m)
      BY <1>2, <3>1, <3>4, MovedStruct
    <3>6. /\ m.type = x.type /\ m.scalar = x.scalar /\ NotNil(m) = NotNil(x)
          /\ \A f \in NotNil(x) : m.cell[f] = IF <<i, f>> \in own THEN <<w, g, <<i, f>>>> ELSE x.cell[f]
      BY <3>5 DEF SaysTheSame
    <3> HIDE DEF To
    <3> QED
      BY <3>1, <3>5, <3>6 DEF m, x
  <2>8. /\ DOMAIN ItemsOf(t, h) = DOMAIN ItemsOf(s, heap)
        /\ \A i \in DOMAIN ItemsOf(s, heap) : ItemsOf(t, h)[i] = To(i, ItemsOf(s, heap)[i])
    <3>1. CASE s.type \in DOMAIN ItemType /\ s.cell["items"] # Nil
      <4> DEFINE p == <<0, "items">>
                 c == <<w, g, p>>
      <4>1. Fields[s.type] = Items /\ "items" \in Items /\ "items" \notin SpecFields
        BY <3>1, FieldFacts DEF Items
      <4>2. "items" \in NotNil(s)
        BY <2>1, <3>1, <4>1 DEF NotNil, StructOf, Structs
      <4>3. p \in own /\ p[2] \in Items
        BY <2>2, <2>4, <4>1, <4>2
      <4>4. t.cell["items"] = c /\ t.type \in DOMAIN ItemType
        BY <2>6, <3>1, <4>2, <4>3
      <4>5. t.cell["items"] # Nil
        BY <2>6, <4>2 DEF NotNil
      <4>6. c \in DOMAIN new /\ new[c] = content(p)
        <5> HIDE DEF p, content
        <5> QED
          BY <4>3
      <4>7. h[c] = new[c]
        <5> HIDE DEF c, new
        <5> QED
          BY <4>6 DEF Merged
      <4>8. ItemsOf(t, h) = content(p)
        <5> HIDE DEF c, new, p, t, content, h
        <5> QED
          BY <4>4, <4>5, <4>6, <4>7 DEF ItemsOf
      <4>9. content(p) = [i \in DOMAIN ItemsOf(s, heap) |-> To(i, ItemsOf(s, heap)[i])]
        <5> HIDE DEF To
        <5> QED
          BY <4>3
      <4> HIDE DEF content, t, h, To
      <4> QED
        BY <4>8, <4>9
    <3>2. CASE ~(s.type \in DOMAIN ItemType /\ s.cell["items"] # Nil)
      <4>1. ItemsOf(s, heap) = <<>>
        BY <3>2 DEF ItemsOf
      <4>2. t.type \in DOMAIN ItemType => t.cell["items"] = Nil
        <5> HIDE DEF t
        <5> SUFFICES ASSUME t.type \in DOMAIN ItemType PROVE "items" \notin NotNil(t)
          BY <2>6, FieldFacts DEF NotNil, StructOf, Structs
        <5>1. "items" \notin NotNil(s)
          BY <2>6, <3>2 DEF NotNil
        <5> QED
          BY <2>6, <5>1
      <4>3. ItemsOf(t, h) = <<>>
        <5> HIDE DEF t, h
        <5> QED
          BY <4>2 DEF ItemsOf
      <4> HIDE DEF t, h
      <4> QED
        BY <4>1, <4>3
    <3> QED
      BY <3>1, <3>2
  <2>9. \A c \in DOMAIN new : c[1] = w /\ c[3][2] \notin SpecFields
    BY <2>2, <2>3
  <2> HIDE DEF t, new, h, To
  <2>10. Held(w, t, h)
    BY <2>1, <2>6, <2>7, <2>8 DEF Held
  <2>11. /\ CopyIInv' /\ var'[w] = t /\ ItemsOf(t, heap') = ItemsOf(t, h)
         /\ \A p \in Places(t, h) : heap'[CellAt(t, h, p)] = h[CellAt(t, h, p)]
    BY <1>1, <1>4, <2>6, <2>9, <2>10, AssignKeeps DEF h
  <2>12. Places(t, heap') = Places(t, h) /\ \A p : CellAt(t, heap', p) = CellAt(t, h, p)
    BY <2>11, Unmoved
  <2>13. Places(t, h) = Places(s, heap)
    <3> DEFINE N(i) == {<<i, f>> : f \in NotNil(ItemsOf(t, h)[i])}
               O(i) == {<<i, f>> : f \in NotNil(ItemsOf(s, heap)[i])}
    <3>1. \A i \in DOMAIN ItemsOf(s, heap) : N(i) = O(i)
      BY <2>7, <2>8
    <3>2. UNION {N(i) : i \in DOMAIN ItemsOf(t, h)} = UNION {O(i) : i \in DOMAIN ItemsOf(s, heap)}
      <4> HIDE DEF N, O
      <4> QED
        BY <2>8, <3>1
    <3>3. {<<0, f>> : f \in NotNil(t)} = {<<0, f>> : f \in NotNil(s)}
      BY <2>6
    <3> QED
      BY <1>4, <2>6, <3>2, <3>3 DEF Places
  <2>14. ASSUME NEW p \in Places(s, heap)
         PROVE  CellAt(t, h, p) = IF p \in own THEN <<w, g, p>> ELSE CellAt(s, heap, p)
    <3>0. p = <<p[1], p[2]>>
      BY <1>4, <2>1, PlacesOf
    <3>1. CASE p[1] = 0 /\ p[2] \in NotNil(s)
      <4>1. p = <<0, p[2]>>
        BY <3>0, <3>1
      <4>2. t.cell[p[2]] = IF p \in own THEN <<w, g, p>> ELSE s.cell[p[2]]
        BY <2>6, <3>1, <4>1
      <4> QED
        BY <3>1, <4>2 DEF CellAt
    <3>2. CASE p[1] # 0 /\ p[1] \in DOMAIN ItemsOf(s, heap) /\ p[2] \in NotNil(ItemsOf(s, heap)[p[1]])
      <4> DEFINE x == ItemsOf(s, heap)[p[1]]
      <4>1. To(p[1], x).cell[p[2]] = IF p \in own THEN <<w, g, p>> ELSE x.cell[p[2]]
        BY <2>7, <3>0, <3>2
      <4>2. ItemsOf(t, h)[p[1]] = To(p[1], x)
        BY <2>8, <3>2
      <4> HIDE DEF x
      <4> QED
        BY <3>2, <4>1, <4>2 DEF CellAt, x
    <3> QED
      BY <1>4, <2>1, <3>1, <3>2, PlacesOf
  <2>15. ASSUME NEW p \in Places(s, heap), p[2] \notin Items
         PROVE  heap'[CellAt(t, heap', p)] = heap[CellAt(s, heap, p)]
    <3>1. heap'[CellAt(t, heap', p)] = h[CellAt(t, h, p)]
      BY <2>11, <2>12, <2>13
    <3>2. CASE p \in own
      <4> DEFINE c == <<w, g, p>>
      <4>1. CellAt(t, h, p) = c
        BY <2>14, <3>2
      <4>2. c \in DOMAIN new /\ new[c] = content(p)
        <5> HIDE DEF content
        <5> QED
          BY <3>2 DEF new
      <4>3. content(p) = heap[CellAt(s, heap, p)]
        BY <2>15 DEF Elements
      <4>4. h[c] = new[c]
        <5> HIDE DEF c
        <5> QED
          BY <4>2 DEF h, Merged
      <4> QED
        BY <3>1, <4>1, <4>2, <4>3, <4>4
    <3>3. CASE p \notin own
      <4> DEFINE c == CellAt(s, heap, p)
      <4>1. CellAt(t, h, p) = c
        BY <2>14, <3>3
      <4>2. c[3][2] \in SpecFields /\ c \in DOMAIN heap
        BY <1>4, <2>1, <2>2, <3>3, PlacesOf, LiveCells
      <4> HIDE DEF c
      <4>3. h[c] = heap[c]
        BY <2>9, <4>2 DEF h, Merged
      <4> QED
        BY <3>1, <4>1, <4>3 DEF c
    <3> QED
      BY <3>2, <3>3
  <2>16. Value(t, heap') = Value(s, heap)
    <3> DEFINE D(r, k, p) == IF p[2] \in Items THEN Nil ELSE k[CellAt(r, k, p)]
    <3>1. [i \in DOMAIN ItemsOf(t, heap') |-> ItemsOf(t, heap')[i].scalar]
            = [i \in DOMAIN ItemsOf(s, heap) |-> ItemsOf(s, heap)[i].scalar]
      BY <2>7, <2>8, <2>11
    <3>2. \A p \in Places(s, heap) : D(t, heap', p) = D(s, heap, p)
      BY <2>15
    <3>3. Places(t, heap') = Places(s, heap)
      BY <2>12, <2>13
    <3>4. [p \in Places(t, heap') |-> D(t, heap', p)] = [p \in Places(s, heap) |-> D(s, heap, p)]
      <4> HIDE DEF D
      <4> QED
        BY <3>2, <3>3
    <3> QED
      BY <1>4, <2>6, <3>1, <3>4 DEF Value
  <2>17. Value(var[w], heap)' = Value(t, heap')
    BY <2>11
  <2> QED
    BY <2>11, <2>16, <2>17
<1> QED
  BY <1>3, <1>4

LEMMA CopiesStepKeeps == ASSUME CopyIInv, [Next]_vars PROVE CopyIInv'
<1>1. ASSUME NEW v \in Variables, NEW n \in IF type \in DOMAIN ItemType THEN {0, MaxItems} ELSE {0},
             NEW given \in BOOLEAN, Decode(v, n, given)
      PROVE  CopyIInv'
  BY <1>1, DecodeKeeps, ItemsAssumption
<1>2. ASSUME NEW v \in Variables, NEW w \in Variables, Copy(v, w) PROVE CopyIInv'
  BY <1>2, CopyOutcome
<1>3. CASE UNCHANGED vars
  <2>1. type' = type /\ var' = var /\ heap' = heap
    BY <1>3 DEF vars
  <2> QED
    BY <2>1 DEF CopyIInv, Held
<1>4. CASE Next
  BY <1>1, <1>2, <1>4, EditKeeps DEF Next
<1> QED
  BY <1>3, <1>4

LEMMA CopiesInvariant == PartSpec => []CopyIInv
<1>1. PartInit => CopyIInv
  <2>1. CopiesIdle => Init
    BY DEF CopiesIdle, Init, Fields
  <2> QED
    BY <2>1, CopiesInitHold DEF PartInit
<1>2. CopyIInv /\ [PartNext]_allVars => CopyIInv'
  <2>1. [PartNext]_allVars => [Next]_vars
    BY DEF PartNext, InCache, InCopies, InFakes, InLimits, allVars
  <2> QED
    BY <2>1, CopiesStepKeeps
<1> QED
  BY <1>1, <1>2, PTL DEF PartSpec

\* However long a program copies copies of copies, decodes into its variables and edits
\* them in place, what two of them share are the maps and slices of the specs alone.
THEOREM CopiesShareOnlySpec == PartSpec => []SharesOnlySpec
BY CopiesInvariant, SharesIfHeld, PTL

\* Every copy of a program says what the original says at that moment.
THEOREM CopiesSayTheSame == PartSpec => CopiesEqual
<1>1. CopyIInv => [\A v, w \in Variables :
                     Copy(v, w) => Value(var[w], heap)' = Value(var[v], heap)]_vars
  BY CopyOutcome
<1> QED
  BY <1>1, CopiesInvariant, PTL DEF CopiesEqual

--------------------------------------------------------------------------------
(* FakeClientset.                                                              *)

\* The objects at the server have the names it wants, and the fake has them all.
FakesSound ==
  /\ \A k \in DOMAIN objects : k[2] # "" /\ k[3] # ""
  /\ DOMAIN objects \subseteq DOMAIN tracker

\* The same client from both clientsets.
LEMMA SameClient ==
  ASSUME NEW r \in FakeResources, NEW ns
  PROVE  Fakes!Real(r, ns) = [resource |-> r, ns |-> ns] /\ Fakes!Fake(r, ns) = [resource |-> r, ns |-> ns]
<1>1. r \in {"kubevirtcommontemplatesbundles", "kubevirtmetricsaggregations",
             "kubevirtnodelabellerbundles", "kubevirttemplatevalidators"}
  BY FakesAssumption
<1>2. Fakes!Real(r, ns) = [resource |-> r, ns |-> ns]
  BY <1>1 DEF Fakes!Real, Fakes!newKubevirtCommonTemplatesBundles, Fakes!newKubevirtMetricsAggregations,
     Fakes!newKubevirtNodeLabellerBundles, Fakes!newKubevirtTemplateValidators, Fakes!Client
<1>3. Fakes!Fake(r, ns) = [resource |-> r, ns |-> ns]
  BY <1>1 DEF Fakes!Fake, Fakes!FakeKubevirtCommonTemplatesBundles, Fakes!FakeKubevirtMetricsAggregations,
     Fakes!FakeKubevirtNodeLabellerBundles, Fakes!FakeKubevirtTemplateValidators, Fakes!FakeClient
<1> QED
  BY <1>2, <1>3

\* What the tracker does with an action, by its verb.
LEMMA Invoked ==
  ASSUME NEW t, NEW a
  PROVE  /\ a.verb = "get" => Fakes!Invokes(t, a) = Fakes!TrackerGet(t, a.key)
         /\ a.verb = "list" => Fakes!Invokes(t, a) = Fakes!TrackerList(t, a.key[1], a.key[2])
         /\ a.verb = "create" => Fakes!Invokes(t, a) = Fakes!TrackerAdd(t, a.key, a.object, FALSE)
         /\ a.verb = "update" => Fakes!Invokes(t, a) = Fakes!TrackerAdd(t, a.key, a.object, TRUE)
         /\ a.verb = "delete" => Fakes!Invokes(t, a) = Fakes!TrackerDelete(t, a.key)
         /\ a.verb = "delete-collection" => Fakes!Invokes(t, a) = Fakes!Reaction(t, "", Nothing)
<1>1. ASSUME a.verb = "get" PROVE Fakes!Invokes(t, a) = Fakes!TrackerGet(t, a.key)
  BY <1>1 DEF Fakes!Invokes
<1>2. ASSUME a.verb = "list" PROVE Fakes!Invokes(t, a) = Fakes!TrackerList(t, a.key[1], a.key[2])
  BY <1>2 DEF Fakes!Invokes
<1>3. ASSUME a.verb = "create" PROVE Fakes!Invokes(t, a) = Fakes!TrackerAdd(t, a.key, a.object, FALSE)
  BY <1>3 DEF Fakes!Invokes
<1>4. ASSUME a.verb = "update" PROVE Fakes!Invokes(t, a) = Fakes!TrackerAdd(t, a.key, a.object, TRUE)
  BY <1>4 DEF Fakes!Invokes
<1>5. ASSUME a.verb = "delete" PROVE Fakes!Invokes(t, a) = Fakes!TrackerDelete(t, a.key)
  BY <1>5 DEF Fakes!Invokes
<1>6. ASSUME a.verb = "delete-collection" PROVE Fakes!Invokes(t, a) = Fakes!Reaction(t, "", Nothing)
  BY <1>6 DEF Fakes!Invokes
<1> QED
  BY <1>1, <1>2, <1>3, <1>4, <1>5, <1>6

\* What each fake method asks of the tracker.
LEMMA FakeGetDoes ==
  ASSUME NEW t, NEW r \in FakeResources, NEW ns, NEW name
  PROVE  Fakes!FakeGet(t, Fakes!Fake(r, ns), name) = Fakes!TrackerGet(t, <<r, ns, name>>)
<1> DEFINE a == Fakes!Action("get", Fakes!Fake(r, ns), name, Nothing)
<1>1. a.verb = "get" /\ a.key = <<r, ns, name>> /\ a.object = Nothing
  BY SameClient DEF Fakes!Action
<1>2. Fakes!FakeGet(t, Fakes!Fake(r, ns), name) = Fakes!Invokes(t, a)
  BY DEF Fakes!FakeGet
<1> HIDE DEF a
<1> QED
  BY <1>1, <1>2, Invoked

LEMMA FakeDeleteDoes ==
  ASSUME NEW t, NEW r \in FakeResources, NEW ns, NEW name
  PROVE  Fakes!FakeDelete(t, Fakes!Fake(r, ns), name) = Fakes!TrackerDelete(t, <<r, ns, name>>)
<1> DEFINE a == Fakes!Action("delete", Fakes!Fake(r, ns), name, Nothing)
<1>1. a.verb = "delete" /\ a.key = <<r, ns, name>> /\ a.object = Nothing
  BY SameClient DEF Fakes!Action
<1>2. Fakes!FakeDelete(t, Fakes!Fake(r, ns), name) = Fakes!Invokes(t, a)
  BY DEF Fakes!FakeDelete
<1> HIDE DEF a
<1> QED
  BY <1>1, <1>2, Invoked

LEMMA FakeCreateDoes ==
  ASSUME NEW t, NEW r \in FakeResources, NEW ns, NEW b
  PROVE  Fakes!FakeCreate(t, Fakes!Fake(r, ns), b) = Fakes!TrackerAdd(t, <<r, ns, b.name>>, b.object, FALSE)
<1> DEFINE a == Fakes!Action("create", Fakes!Fake(r, ns), b.name, b.object)
<1>1. a.verb = "create" /\ a.key = <<r, ns, b.name>> /\ a.object = b.object
  BY SameClient DEF Fakes!Action
<1>2. Fakes!FakeCreate(t, Fakes!Fake(r, ns), b) = Fakes!Invokes(t, a)
  BY DEF Fakes!FakeCreate
<1> HIDE DEF a
<1> QED
  BY <1>1, <1>2, Invoked

LEMMA FakeUpdateDoes ==
  ASSUME NEW t, NEW r \in FakeResources, NEW ns, NEW b
  PROVE  Fakes!FakeUpdate(t, Fakes!Fake(r, ns), b) = Fakes!TrackerAdd(t, <<r, ns, b.name>>, b.object, TRUE)
<1> DEFINE a == Fakes!Action("update", Fakes!Fake(r, ns), b.name, b.object)
<1>1. a.verb = "update" /\ a.key = <<r, ns, b.name>> /\ a.object = b.object
  BY SameClient DEF Fakes!Action
<1>2. Fakes!FakeUpdate(t, Fakes!Fake(r, ns), b) = Fakes!Invokes(t, a)
  BY DEF Fakes!FakeUpdate
<1> HIDE DEF a
<1> QED
  BY <1>1, <1>2, Invoked

LEMMA FakeUpdateStatusDoes ==
  ASSUME NEW t, NEW r \in FakeResources, NEW ns, NEW b
  PROVE  Fakes!FakeUpdateStatus(t, Fakes!Fake(r, ns), b) = Fakes!TrackerAdd(t, <<r, ns, b.name>>, b.object, TRUE)
<1> DEFINE a == Fakes!Action("update", Fakes!Fake(r, ns), b.name, b.object)
<1>1. a.verb = "update" /\ a.key = <<r, ns, b.name>> /\ a.object = b.object
  BY SameClient DEF Fakes!Action
<1>2. Fakes!FakeUpdateStatus(t, Fakes!Fake(r, ns), b) = Fakes!Invokes(t, a)
  BY DEF Fakes!FakeUpdateStatus
<1> HIDE DEF a
<1> QED
  BY <1>1, <1>2, Invoked

LEMMA FakeDeleteCollectionDoes ==
  ASSUME NEW t, NEW r \in FakeResources, NEW ns, NEW sel
  PROVE  Fakes!FakeDeleteCollection(t, Fakes!Fake(r, ns), sel) = Fakes!Reaction(t, "", Nothing)
<1> DEFINE a == Fakes!Action("delete-collection", Fakes!Fake(r, ns), "", Nothing)
<1>1. a.verb = "delete-collection"
  BY DEF Fakes!Action
<1>2. Fakes!FakeDeleteCollection(t, Fakes!Fake(r, ns), sel) = Fakes!Invokes(t, a)
  BY DEF Fakes!FakeDeleteCollection
<1> HIDE DEF a
<1> QED
  BY <1>1, <1>2, Invoked

\* What becomes of the keys at the server.
LEMMA ReadKeys ==
  ASSUME NEW objs, NEW rev, NEW k
  PROVE  Fakes!Read(objs, rev, k).objects = objs
BY DEF Fakes!Read, Fakes!Outcome, Fakes!Refused

LEMMA InsertedKeys ==
  ASSUME NEW objs, NEW rev, NEW k, NEW o
  PROVE  DOMAIN Fakes!Inserted(objs, rev, k, o).objects \subseteq
           DOMAIN objs \cup (IF k[3] = "" THEN {} ELSE {k})
BY DEF Fakes!Inserted, Fakes!Stored, Fakes!Outcome, Fakes!Refused, Fakes!With

LEMMA ReplacedKeys ==
  ASSUME NEW objs, NEW rev, NEW k, NEW sub, NEW o
  PROVE  DOMAIN Fakes!Replaced(objs, rev, k, sub, o).objects = DOMAIN objs
BY DEF Fakes!Replaced, Fakes!Stored, Fakes!Outcome, Fakes!Refused, Fakes!With

LEMMA RemovedKeys ==
  ASSUME NEW objs, NEW rev, NEW k
  PROVE  DOMAIN Fakes!Removed(objs, rev, k).objects = DOMAIN objs \ {k}
BY DEF Fakes!Removed, Fakes!Outcome, Fakes!Refused

\* What becomes of the keys of the tracker.
LEMMA TrackerGetKeys ==
  ASSUME NEW t, NEW k
  PROVE  Fakes!TrackerGet(t, k).tracker = t
BY DEF Fakes!TrackerGet, Fakes!Reaction

LEMMA TrackerAddKeys ==
  ASSUME NEW t, NEW k, NEW o
  PROVE  /\ DOMAIN Fakes!TrackerAdd(t, k, o, FALSE).tracker = DOMAIN t \cup {k}
         /\ DOMAIN Fakes!TrackerAdd(t, k, o, TRUE).tracker = DOMAIN t
<1>1. DOMAIN Fakes!With(t, k, o) = DOMAIN t \cup {k}
  BY DEF Fakes!With
<1>2. Fakes!TrackerGet(Fakes!With(t, k, o), k).tracker = Fakes!With(t, k, o)
  BY TrackerGetKeys
<1>3. CASE k \in DOMAIN t
  <2>1. Fakes!TrackerAdd(t, k, o, FALSE).tracker = t
    BY <1>3 DEF Fakes!TrackerAdd, Fakes!Reaction
  <2>2. Fakes!TrackerAdd(t, k, o, TRUE) = Fakes!TrackerGet(Fakes!With(t, k, o), k)
    BY <1>3 DEF Fakes!TrackerAdd
  <2>3. Fakes!TrackerAdd(t, k, o, TRUE).tracker = Fakes!With(t, k, o)
    BY <1>2, <2>2
  <2> QED
    BY <1>1, <1>3, <2>1, <2>3
<1>4. CASE k \notin DOMAIN t
  <2>1. Fakes!TrackerAdd(t, k, o, TRUE).tracker = t
    BY <1>4 DEF Fakes!TrackerAdd, Fakes!Reaction
  <2>2. Fakes!TrackerAdd(t, k, o, FALSE) = Fakes!TrackerGet(Fakes!With(t, k, o), k)
    BY <1>4 DEF Fakes!TrackerAdd
  <2>3. Fakes!TrackerAdd(t, k, o, FALSE).tracker = Fakes!With(t, k, o)
    BY <1>2, <2>2
  <2> QED
    BY <1>1, <2>1, <2>3
<1> QED
  BY <1>3, <1>4

LEMMA TrackerDeleteKeys ==
  ASSUME NEW t, NEW k
  PROVE  DOMAIN Fakes!TrackerDelete(t, k).tracker = DOMAIN t \ {k}
BY DEF Fakes!TrackerDelete, Fakes!Reaction

\* What a request that is not sent leaves, and what one that is.
LEMMA AnswerKeys ==
  ASSUME NEW request, NEW outcome
  PROVE  \/ Fakes!Malformed(request) /\ Fakes!ServerAnswers(request, outcome).objects = objects
         \/ ~Fakes!Malformed(request) /\ Fakes!ServerAnswers(request, outcome).objects = outcome.objects
BY DEF Fakes!ServerAnswers, Fakes!Refused, Fakes!Outcome

\* The calls, one by one.
LEMMA GetsKeeps ==
  ASSUME FakesSound, NEW r \in FakeResources, NEW ns, NEW name, Fakes!Gets(r, ns, name)
  PROVE  FakesSound'
<1> DEFINE request == Fakes!Get(Fakes!Real(r, ns), name)
           outcome == Fakes!Read(objects, revision, Fakes!Key(Fakes!Real(r, ns), name))
<1>1. /\ objects' = Fakes!ServerAnswers(request, outcome).objects
      /\ tracker' = Fakes!TrackerGet(tracker, <<r, ns, name>>).tracker
  BY FakeGetDoes DEF Fakes!Gets, Fakes!Answered
<1>2. outcome.objects = objects
  BY ReadKeys
<1> HIDE DEF request, outcome
<1>3. objects' = objects
  BY <1>1, <1>2, AnswerKeys
<1>4. tracker' = tracker
  BY <1>1, TrackerGetKeys
<1> QED
  BY <1>3, <1>4 DEF FakesSound

LEMMA ListsKeeps ==
  ASSUME FakesSound, NEW r, NEW ns, NEW sel, Fakes!Lists(r, ns, sel)
  PROVE  FakesSound'
BY DEF Fakes!Lists, Fakes!Answered, Fakes!Listed, Fakes!Outcome, Fakes!FakeList, Fakes!Reaction, FakesSound

\* The server needs a namespace and a name for what it creates.
LEMMA CreatesKeeps ==
  ASSUME FakesSound, NEW r \in FakeResources, NEW ns, NEW name, NEW o, Fakes!Creates(r, ns, name, o)
  PROVE  FakesSound'
<1> DEFINE k == <<r, ns, name>>
           request == Fakes!Create(Fakes!Real(r, ns), Fakes!Body(name, o))
           outcome == Fakes!Inserted(objects, revision, Fakes!Key(Fakes!Real(r, ns), name), o)
<1>1. Fakes!Key(Fakes!Real(r, ns), name) = k
  BY SameClient DEF Fakes!Key
<1>2. /\ objects' = Fakes!ServerAnswers(request, outcome).objects
      /\ tracker' = Fakes!TrackerAdd(tracker, k, o, FALSE).tracker
  <2>1. Fakes!Body(name, o).name = name /\ Fakes!Body(name, o).object = o
    BY DEF Fakes!Body
  <2>2. Fakes!FakeCreate(tracker, Fakes!Fake(r, ns), Fakes!Body(name, o))
          = Fakes!TrackerAdd(tracker, k, o, FALSE)
    BY <2>1, FakeCreateDoes
  <2> QED
    BY <2>2 DEF Fakes!Creates, Fakes!Answered
<1>3. ~Fakes!Malformed(request) => ns # ""
  <2>1. request.verb = "POST" /\ request.ns = ns
    BY SameClient DEF Fakes!Create, Fakes!Request
  <2> QED
    BY <2>1 DEF Fakes!Malformed
<1>4. DOMAIN outcome.objects \subseteq DOMAIN objects \cup (IF name = "" THEN {} ELSE {k})
  <2>1. outcome = Fakes!Inserted(objects, revision, k, o) /\ k[3] = name
    BY <1>1
  <2> HIDE DEF k, outcome
  <2> QED
    BY <2>1, InsertedKeys
<1> HIDE DEF request, outcome
<1>5. \/ objects' = objects
      \/ ns # "" /\ DOMAIN objects' \subseteq DOMAIN objects \cup (IF name = "" THEN {} ELSE {k})
  BY <1>2, <1>3, <1>4, AnswerKeys
<1>6. DOMAIN tracker' = DOMAIN tracker \cup {k}
  BY <1>2, TrackerAddKeys
<1>7. k[2] = ns /\ k[3] = name
  OBVIOUS
<1> HIDE DEF k
<1> QED
  BY <1>5, <1>6, <1>7 DEF FakesSound

\* An update of either kind brings no key and takes none.
LEMMA UpdatesKeep ==
  ASSUME FakesSound, NEW r \in FakeResources, NEW ns, NEW name, NEW o,
         Fakes!Updates(r, ns, name, o) \/ Fakes!UpdatesStatus(r, ns, name, o)
  PROVE  FakesSound'
<1> DEFINE k == Fakes!Key(Fakes!Real(r, ns), name)
           b == Fakes!Body(name, o)
<1>1. b.name = name /\ b.object = o
  BY DEF Fakes!Body
<1>2. \E request : /\ objects' = Fakes!ServerAnswers(request, Fakes!Replaced(objects, revision, k, request.sub, o)).objects
                   /\ tracker' = Fakes!TrackerAdd(tracker, <<r, ns, name>>, o, TRUE).tracker
  <2>1. CASE Fakes!Updates(r, ns, name, o)
    <3>1. Fakes!FakeUpdate(tracker, Fakes!Fake(r, ns), b) = Fakes!TrackerAdd(tracker, <<r, ns, name>>, o, TRUE)
      BY <1>1, FakeUpdateDoes
    <3> QED
      BY <2>1, <3>1 DEF Fakes!Updates, Fakes!Answered
  <2>2. CASE Fakes!UpdatesStatus(r, ns, name, o)
    <3>1. Fakes!FakeUpdateStatus(tracker, Fakes!Fake(r, ns), b) = Fakes!TrackerAdd(tracker, <<r, ns, name>>, o, TRUE)
      BY <1>1, FakeUpdateStatusDoes
    <3> QED
      BY <2>2, <3>1 DEF Fakes!UpdatesStatus, Fakes!Answered
  <2> QED
    BY <2>1, <2>2
<1> HIDE DEF k, b
<1>3. PICK request : /\ objects' = Fakes!ServerAnswers(request, Fakes!Replaced(objects, revision, k, request.sub, o)).objects
                     /\ tracker' = Fakes!TrackerAdd(tracker, <<r, ns, name>>, o, TRUE).tracker
  BY <1>2
<1> DEFINE outcome == Fakes!Replaced(objects, revision, k, request.sub, o)
<1>4. DOMAIN outcome.objects = DOMAIN objects
  BY ReplacedKeys
<1>5. objects' = Fakes!ServerAnswers(request, outcome).objects
  BY <1>3
<1> HIDE DEF outcome
<1>6. DOMAIN objects' = DOMAIN objects
  BY <1>4, <1>5, AnswerKeys
<1>7. DOMAIN tracker' = DOMAIN tracker
  BY <1>3, TrackerAddKeys
<1> QED
  BY <1>6, <1>7 DEF FakesSound

\* What the fake deletes and the server does not is an object without a name or namespace.
LEMMA DeletesKeeps ==
  ASSUME FakesSound, NEW r \in FakeResources, NEW ns, NEW name, Fakes!Deletes(r, ns, name)
  PROVE  FakesSound'
<1> DEFINE k == <<r, ns, name>>
           request == Fakes!Delete(Fakes!Real(r, ns), name)
           outcome == Fakes!Removed(objects, revision, Fakes!Key(Fakes!Real(r, ns), name))
<1>1. Fakes!Key(Fakes!Real(r, ns), name) = k
  BY SameClient DEF Fakes!Key
<1>2. /\ objects' = Fakes!ServerAnswers(request, outcome).objects
      /\ tracker' = Fakes!TrackerDelete(tracker, k).tracker
  BY FakeDeleteDoes DEF Fakes!Deletes, Fakes!Answered
<1>3. Fakes!Malformed(request) => ns = "" \/ name = ""
  <2>1. request.verb = "DELETE" /\ request.ns = ns /\ request.name = name
    BY SameClient DEF Fakes!Delete, Fakes!Named, Fakes!Request
  <2> QED
    BY <2>1 DEF Fakes!Malformed
<1>4. DOMAIN outcome.objects = DOMAIN objects \ {k}
  BY <1>1, RemovedKeys
<1> HIDE DEF request, outcome
<1>5. \/ objects' = objects /\ (ns = "" \/ name = "")
      \/ DOMAIN objects' = DOMAIN objects \ {k}
  BY <1>2, <1>3, <1>4, AnswerKeys
<1>6. DOMAIN tracker' = DOMAIN tracker \ {k}
  BY <1>2, TrackerDeleteKeys
<1>7. k[2] = ns /\ k[3] = name
  OBVIOUS
<1> HIDE DEF k
<1> QED
  BY <1>5, <1>6, <1>7 DEF FakesSound

LEMMA DeletesCollectionKeeps ==
  ASSUME FakesSound, NEW r \in FakeResources, NEW ns, NEW sel, Fakes!DeletesCollection(r, ns, sel)
  PROVE  FakesSound'
<1> DEFINE rest == [k \in DOMAIN objects \ Fakes!Selected(objects, Fakes!Real(r, ns).resource, ns, sel) |->
                      objects[k]]
<1>1. objects' = rest
  BY DEF Fakes!DeletesCollection, Fakes!Answered, Fakes!Outcome
<1>2. DOMAIN rest \subseteq DOMAIN objects
  OBVIOUS
<1> HIDE DEF rest
<1>3. tracker' = tracker
  <2>1. tracker' = Fakes!FakeDeleteCollection(tracker, Fakes!Fake(r, ns), sel).tracker
    BY DEF Fakes!DeletesCollection, Fakes!Answered
  <2>2. Fakes!FakeDeleteCollection(tracker, Fakes!Fake(r, ns), sel) = Fakes!Reaction(tracker, "", Nothing)
    BY FakeDeleteCollectionDoes
  <2>3. Fakes!Reaction(tracker, "", Nothing).tracker = tracker
    BY DEF Fakes!Reaction
  <2> QED
    BY <2>1, <2>2, <2>3
<1> QED
  BY <1>1, <1>2, <1>3 DEF FakesSound

\* Whatever a test sends to it, stale or misaddressed, the fake clientset has every object
\* that the real one would have.
THEOREM FakesHideNothing == PartSpec => []NothingHidden
<1>1. ASSUME Fakes!Init PROVE FakesSound
  <2>1. PICK given \in SUBSET Fakes!Keys : \E o :
          objects = [k \in given |-> o] /\ tracker = [k \in DOMAIN objects |-> [objects[k] EXCEPT !.rv = 0]]
    BY <1>1 DEF Fakes!Init, Fakes!NewSimpleClientset
  <2> QED
    BY <2>1 DEF FakesSound, Fakes!Keys
<1>2. PartInit => FakesSound
  <2>1. FakesIdle => FakesSound
    <3>1. DOMAIN << >> = {}
      OBVIOUS
    <3> QED
      BY <3>1 DEF FakesIdle, FakesSound
  <2> QED
    BY <1>1, <2>1 DEF PartInit
<1>3. FakesSound /\ [PartNext]_allVars => FakesSound'
  <2> SUFFICES ASSUME FakesSound, [PartNext]_allVars PROVE FakesSound'
    OBVIOUS
  <2>1. CASE InFakes(Fakes!Next)
    BY <2>1, GetsKeeps, ListsKeeps, CreatesKeeps, UpdatesKeep, DeletesKeeps, DeletesCollectionKeeps
    DEF Fakes!Next, InFakes
  <2>2. CASE UNCHANGED fakeVars
    BY <2>2 DEF fakeVars, FakesSound
  <2> QED
    BY <2>1, <2>2 DEF PartNext, InCache, InCopies, InLimits, allVars
<1>4. FakesSound => NothingHidden
  BY DEF FakesSound, NothingHidden, Fakes!NothingHidden
<1> QED
  BY <1>2, <1>3, <1>4, PTL DEF PartSpec

--------------------------------------------------------------------------------

FakeObjects == [label : FakeLabels, spec : Data, status : Data \cup {NoStatus}, rv : Nat]

\* An object that is well addressed, and one that differs from it in the version at most.
FullKey(k) == k = <<k[1], k[2], k[3]>> /\ k[2] # "" /\ k[3] # ""
SaysSame(o, p) == o.label = p.label /\ o.spec = p.spec /\ o.status = p.status

\* While nothing has parted them the tracker holds the server's objects, version apart.
FakesHold(objs, rev, t) ==
  /\ rev \in Nat
  /\ DOMAIN t = DOMAIN objs
  /\ \A k \in DOMAIN objs :
       /\ FullKey(k)
       /\ objs[k] \in FakeObjects /\ objs[k].rv > 0 /\ t[k] \in FakeObjects
       /\ SaysSame(objs[k], t[k])

FakesIInv == ~parted => FakesHold(objects, revision, tracker) /\ alike

LEMMA PlainSame ==
  ASSUME NEW o \in FakeObjects, NEW p \in FakeObjects, SaysSame(o, p)
  PROVE  Fakes!Plain(o) = Fakes!Plain(p)
<1>1. o # Nothing /\ p # Nothing
  BY NothingAssumption DEF FakeObjects
<1>2. Fakes!Plain(o) = [o EXCEPT !.rv = 0] /\ Fakes!Plain(p) = [p EXCEPT !.rv = 0]
  BY <1>1 DEF Fakes!Plain
<1>3. [o EXCEPT !.rv = 0] = [p EXCEPT !.rv = 0]
  BY DEF FakeObjects, SaysSame
<1> QED
  BY <1>2, <1>3

LEMMA HeldSame ==
  ASSUME NEW objs, NEW rev, NEW t, FakesHold(objs, rev, t)
  PROVE  Fakes!SameObjects(objs, t)
BY PlainSame DEF FakesHold, Fakes!SameObjects

LEMMA SameCardinality == \A S : Fakes!Cardinality(S) = Cardinality(S)
BY DEF Fakes!Cardinality, Cardinality

\* What the tracker finds, where all keys are full.
LEMMA TrackerFinds ==
  ASSUME NEW t, NEW k, FullKey(k), \A j \in DOMAIN t : FullKey(j)
  PROVE  /\ k \in DOMAIN t => Fakes!TrackerGet(t, k) = Fakes!Reaction(t, "", t[k])
         /\ k \notin DOMAIN t => Fakes!TrackerGet(t, k) = Fakes!Reaction(t, "NotFound", Nothing)
<1> DEFINE found == {j \in DOMAIN t : j[1] = k[1] /\ k[2] \in {"", j[2]} /\ k[3] \in {"", j[3]}}
<1>1. found = IF k \in DOMAIN t THEN {k} ELSE {}
  <2>1. ASSUME NEW j \in found PROVE j = k
    BY DEF FullKey
  <2>2. k \in DOMAIN t => k \in found
    OBVIOUS
  <2> HIDE DEF found
  <2>3. found \subseteq DOMAIN t
    BY DEF found
  <2> QED
    BY <2>1, <2>2, <2>3
<1>2. Fakes!TrackerGet(t, k) =
        CASE found = {} -> Fakes!Reaction(t, "NotFound", Nothing)
          [] Fakes!Cardinality(found) = 1 -> Fakes!Reaction(t, "", t[CHOOSE j \in found : TRUE])
          [] OTHER -> Fakes!Reaction(t, "Ambiguous", Nothing)
  BY DEF Fakes!TrackerGet
<1>3. Fakes!Cardinality({k}) = 1 /\ Fakes!Cardinality({}) = 0
  BY SameCardinality, FS_Singleton, FS_EmptySet
<1> HIDE DEF found
<1>4. CASE k \in DOMAIN t
  <2>1. found = {k} /\ found # {} /\ (CHOOSE j \in found : TRUE) = k
    BY <1>1, <1>4
  <2>2. Fakes!TrackerGet(t, k) = Fakes!Reaction(t, "", t[CHOOSE j \in found : TRUE])
    BY <1>2, <1>3, <2>1
  <2> QED
    BY <1>4, <2>1, <2>2
<1>5. CASE k \notin DOMAIN t
  <2>1. found = {} /\ Fakes!Cardinality(found) # 1
    BY <1>1, <1>3, <1>5
  <2>2. Fakes!TrackerGet(t, k) = Fakes!Reaction(t, "NotFound", Nothing)
    BY <2>1 DEF Fakes!TrackerGet, found
  <2> QED
    BY <1>5, <2>2
<1> QED
  BY <1>4, <1>5

\* What it adds, and what it refuses to.
LEMMA TrackerAdds ==
  ASSUME NEW t, NEW k, NEW o, FullKey(k), \A j \in DOMAIN t : FullKey(j)
  PROVE  /\ k \notin DOMAIN t =>
              /\ Fakes!TrackerAdd(t, k, o, FALSE) = Fakes!Reaction(Fakes!With(t, k, o), "", o)
              /\ Fakes!TrackerAdd(t, k, o, TRUE) = Fakes!Reaction(t, "NotFound", Nothing)
         /\ k \in DOMAIN t =>
              /\ Fakes!TrackerAdd(t, k, o, TRUE) = Fakes!Reaction(Fakes!With(t, k, o), "", o)
              /\ Fakes!TrackerAdd(t, k, o, FALSE) = Fakes!Reaction(t, "AlreadyExists", Nothing)
<1> DEFINE new == Fakes!With(t, k, o)
<1>1. DOMAIN new = DOMAIN t \cup {k} /\ new[k] = o
  BY DEF Fakes!With
<1> HIDE DEF new
<1>2. Fakes!TrackerGet(new, k) = Fakes!Reaction(new, "", o)
  <2>1. \A j \in DOMAIN new : FullKey(j)
    BY <1>1
  <2>2. Fakes!TrackerGet(new, k) = Fakes!Reaction(new, "", new[k])
    BY <1>1, <2>1, TrackerFinds
  <2> QED
    BY <1>1, <2>2
<1>3. CASE k \in DOMAIN t
  <2>1. Fakes!TrackerAdd(t, k, o, FALSE) = Fakes!Reaction(t, "AlreadyExists", Nothing)
    BY <1>3 DEF Fakes!TrackerAdd
  <2>2. Fakes!TrackerAdd(t, k, o, TRUE) = Fakes!TrackerGet(new, k)
    BY <1>3 DEF Fakes!TrackerAdd, new
  <2> QED
    BY <1>2, <1>3, <2>1, <2>2 DEF new
<1>4. CASE k \notin DOMAIN t
  <2>1. Fakes!TrackerAdd(t, k, o, TRUE) = Fakes!Reaction(t, "NotFound", Nothing)
    BY <1>4 DEF Fakes!TrackerAdd
  <2>2. Fakes!TrackerAdd(t, k, o, FALSE) = Fakes!TrackerGet(new, k)
    BY <1>4 DEF Fakes!TrackerAdd, new
  <2> QED
    BY <1>2, <1>4, <2>1, <2>2 DEF new
<1> QED
  BY <1>3, <1>4

\* A request that is sent.
LEMMA SentAsIs ==
  ASSUME NEW request, NEW outcome, ~Fakes!Malformed(request)
  PROVE  Fakes!ServerAnswers(request, outcome) = outcome
BY DEF Fakes!ServerAnswers

\* A reply with which both hold the same, and one with which both store the same.
LEMMA BothLeave ==
  ASSUME NEW op, op # "List", NEW parts, NEW err, NEW v, NEW w, Fakes!Plain(v) = Fakes!Plain(w),
         NEW objs, NEW rev, NEW t, FakesHold(objs, rev, t)
  PROVE  Fakes!Answered(op, Fakes!Outcome(objs, rev, err, v), Fakes!Reaction(t, err, w), parts) =>
           FakesHold(objects', revision', tracker') /\ alike'
<1> DEFINE real == Fakes!Outcome(objs, rev, err, v)
           fake == Fakes!Reaction(t, err, w)
<1>1. /\ real.objects = objs /\ real.revision = rev
      /\ real.answer.err = err /\ real.answer.value = v
  BY DEF Fakes!Outcome
<1>2. fake.tracker = t /\ fake.answer.err = err /\ fake.answer.value = w
  BY DEF Fakes!Reaction
<1> HIDE DEF real, fake
<1>3. ASSUME Fakes!Answered(op, real, fake, parts)
      PROVE  objects' = objs /\ revision' = rev /\ tracker' = t /\ alike'
  BY <1>1, <1>2, <1>3 DEF Fakes!Answered
<1> QED
  BY <1>3 DEF real, fake

LEMMA BothStore ==
  ASSUME NEW op, op # "List", NEW parts, NEW k, FullKey(k), NEW o \in FakeObjects,
         FakesHold(objects, revision, tracker)
  PROVE  Fakes!Answered(op, Fakes!Stored(objects, revision, k, o),
                        Fakes!Reaction(Fakes!With(tracker, k, o), "", o), parts) =>
           FakesHold(objects', revision', tracker') /\ alike'
<1> DEFINE out == Fakes!Stored(objects, revision, k, o)
           later == Fakes!With(tracker, k, o)
           fake == Fakes!Reaction(later, "", o)
           stores == /\ FakesHold(out.objects, out.revision, later)
                     /\ out.answer.err = "" /\ Fakes!Plain(out.answer.value) = Fakes!Plain(o)
<1>1. /\ DOMAIN later = DOMAIN tracker \cup {k} /\ later[k] = o
      /\ \A j \in DOMAIN tracker : j # k => later[j] = tracker[j]
  BY DEF Fakes!With
<1>2. fake.tracker = later /\ fake.answer.err = "" /\ fake.answer.value = o
  BY DEF Fakes!Reaction
<1>3. out = Fakes!Stored(objects, revision, k, o)
  OBVIOUS
<1> HIDE DEF out, fake, later
<1>4. ASSUME k \in DOMAIN objects /\ o = objects[k] PROVE stores
  <2>1. out = Fakes!Outcome(objects, revision, "", o)
    BY <1>3, <1>4 DEF Fakes!Stored
  <2>2. out.objects = objects /\ out.revision = revision /\ out.answer.err = "" /\ out.answer.value = o
    BY <2>1 DEF Fakes!Outcome
  <2>3. FakesHold(objects, revision, later)
    BY <1>1, <1>4 DEF FakesHold, SaysSame
  <2> QED
    BY <2>2, <2>3
<1>5. ASSUME ~(k \in DOMAIN objects /\ o = objects[k]) PROVE stores
  <2> DEFINE new == [o EXCEPT !.rv = revision + 1]
             stored == Fakes!With(objects, k, new)
  <2>1. out = Fakes!Outcome(stored, revision + 1, "", new)
    BY <1>3, <1>5 DEF Fakes!Stored
  <2>2. new \in FakeObjects /\ new.rv > 0 /\ SaysSame(new, o)
    BY DEF FakesHold, FakeObjects, SaysSame
  <2> HIDE DEF new, stored
  <2>3. out.objects = stored /\ out.revision = revision + 1 /\ out.answer.err = "" /\ out.answer.value = new
    BY <2>1 DEF Fakes!Outcome
  <2>4. DOMAIN stored = DOMAIN objects \cup {k} /\ stored[k] = new
        /\ \A j \in DOMAIN objects : j # k => stored[j] = objects[j]
    BY DEF Fakes!With, stored
  <2>5. FakesHold(stored, revision + 1, later)
    <3>1. revision + 1 \in Nat /\ DOMAIN later = DOMAIN stored
      BY <1>1, <2>4 DEF FakesHold
    <3>2. ASSUME NEW j \in DOMAIN stored
          PROVE  /\ FullKey(j) /\ stored[j] \in FakeObjects /\ stored[j].rv > 0
                 /\ later[j] \in FakeObjects /\ SaysSame(stored[j], later[j])
      <4>1. CASE j = k
        BY <4>1, <1>1, <2>2, <2>4
      <4>2. CASE j # k
        BY <4>2, <1>1, <2>4 DEF FakesHold
      <4> QED
        BY <4>1, <4>2
    <3> QED
      BY <3>1, <3>2 DEF FakesHold
  <2>6. Fakes!Plain(new) = Fakes!Plain(o)
    BY <2>2, PlainSame
  <2> QED
    BY <2>3, <2>5, <2>6
<1>6. stores
  BY <1>4, <1>5
<1>7. ASSUME Fakes!Answered(op, out, fake, parts)
      PROVE  objects' = out.objects /\ revision' = out.revision /\ tracker' = later /\ alike'
  BY <1>2, <1>6, <1>7 DEF Fakes!Answered
<1> QED
  BY <1>6, <1>7 DEF out, fake, later

\* The calls that part nothing, one by one.
LEMMA GetsHold ==
  ASSUME FakesHold(objects, revision, tracker), NEW r \in FakeResources, NEW ns, NEW name,
         Fakes!Gets(r, ns, name), ~parted'
  PROVE  FakesHold(objects', revision', tracker') /\ alike'
<1> DEFINE k == <<r, ns, name>>
           request == Fakes!Get(Fakes!Real(r, ns), name)
           outcome == Fakes!Read(objects, revision, k)
<1>1. Fakes!Key(Fakes!Real(r, ns), name) = k
  BY SameClient DEF Fakes!Key
<1>2. Fakes!Answered("Get", Fakes!ServerAnswers(request, outcome), Fakes!TrackerGet(tracker, k),
                     Fakes!Malformed(request))
  BY <1>1, FakeGetDoes DEF Fakes!Gets
<1>3. ~Fakes!Malformed(request)
  BY <1>2 DEF Fakes!Answered
<1>4. FullKey(k)
  <2>1. /\ request.verb = "GET" /\ request.ns = ns
        /\ request.named /\ request.name = name
    BY SameClient DEF Fakes!Get, Fakes!Named, Fakes!Request
  <2> QED
    BY <1>3, <2>1 DEF Fakes!Malformed, FullKey
<1> HIDE DEF request, k
<1>5. Fakes!Answered("Get", outcome, Fakes!TrackerGet(tracker, k), Fakes!Malformed(request))
  BY <1>2, <1>3, SentAsIs
<1>6. /\ k \in DOMAIN tracker => Fakes!TrackerGet(tracker, k) = Fakes!Reaction(tracker, "", tracker[k])
      /\ k \notin DOMAIN tracker =>
           Fakes!TrackerGet(tracker, k) = Fakes!Reaction(tracker, "NotFound", Nothing)
  BY <1>4, TrackerFinds DEF FakesHold
<1>7. CASE k \in DOMAIN objects
  <2>1. outcome = Fakes!Outcome(objects, revision, "", objects[k])
    BY <1>7 DEF Fakes!Read
  <2>2. Fakes!Plain(objects[k]) = Fakes!Plain(tracker[k]) /\ k \in DOMAIN tracker
    BY <1>7, PlainSame DEF FakesHold
  <2>3. Fakes!Answered("Get", Fakes!Outcome(objects, revision, "", objects[k]),
                       Fakes!Reaction(tracker, "", tracker[k]), Fakes!Malformed(request))
    BY <1>5, <1>6, <2>1, <2>2
  <2> QED
    BY <2>2, <2>3, BothLeave
<1>8. CASE k \notin DOMAIN objects
  <2>1. outcome = Fakes!Outcome(objects, revision, "NotFound", Nothing)
    BY <1>8 DEF Fakes!Read, Fakes!Refused
  <2>2. Fakes!Answered("Get", Fakes!Outcome(objects, revision, "NotFound", Nothing),
                       Fakes!Reaction(tracker, "NotFound", Nothing), Fakes!Malformed(request))
    BY <1>5, <1>6, <1>8, <2>1 DEF FakesHold
  <2> QED
    BY <2>2, BothLeave
<1> QED
  BY <1>7, <1>8

LEMMA CreatesHold ==
  ASSUME FakesHold(objects, revision, tracker), NEW r \in FakeResources, NEW ns, NEW name,
         NEW o \in FakeObjects, Fakes!Creates(r, ns, name, o), ~parted'
  PROVE  FakesHold(objects', revision', tracker') /\ alike'
<1> DEFINE k == <<r, ns, name>>
           b == Fakes!Body(name, o)
           request == Fakes!Create(Fakes!Real(r, ns), b)
           outcome == Fakes!Inserted(objects, revision, k, o)
           parts == \/ Fakes!Malformed(request) \/ name = ""
                    \/ k \notin DOMAIN objects /\ (o.status # NoStatus \/ o.rv # 0)
<1>1. Fakes!Key(Fakes!Real(r, ns), name) = k /\ b.name = name /\ b.object = o
  BY SameClient DEF Fakes!Key, Fakes!Body
<1>2. Fakes!FakeCreate(tracker, Fakes!Fake(r, ns), b) = Fakes!TrackerAdd(tracker, k, o, FALSE)
  <2> HIDE DEF b
  <2> QED
    BY <1>1, FakeCreateDoes
<1>3. Fakes!Answered("Create", Fakes!ServerAnswers(request, outcome),
                     Fakes!TrackerAdd(tracker, k, o, FALSE), parts)
  BY <1>1, <1>2 DEF Fakes!Creates
<1>4. ~parts
  BY <1>3 DEF Fakes!Answered
<1>5. FullKey(k) /\ k[3] # ""
  <2>1. request.verb = "POST" /\ request.ns = ns
    BY SameClient DEF Fakes!Create, Fakes!Request
  <2> QED
    BY <1>4, <2>1 DEF Fakes!Malformed, FullKey
<1>6. ~Fakes!Malformed(request) /\ (k \notin DOMAIN objects => o.status = NoStatus /\ o.rv = 0)
  BY <1>4
<1> HIDE DEF request, k, parts
<1>7. Fakes!Answered("Create", outcome, Fakes!TrackerAdd(tracker, k, o, FALSE), parts)
  BY <1>3, <1>6, SentAsIs
<1>8. /\ k \notin DOMAIN tracker =>
           Fakes!TrackerAdd(tracker, k, o, FALSE) = Fakes!Reaction(Fakes!With(tracker, k, o), "", o)
      /\ k \in DOMAIN tracker =>
           Fakes!TrackerAdd(tracker, k, o, FALSE) = Fakes!Reaction(tracker, "AlreadyExists", Nothing)
  BY <1>5, TrackerAdds DEF FakesHold
<1>9. CASE k \in DOMAIN objects
  <2>1. outcome = Fakes!Outcome(objects, revision, "AlreadyExists", Nothing)
    BY <1>5, <1>9 DEF Fakes!Inserted, Fakes!Refused
  <2>2. Fakes!Answered("Create", Fakes!Outcome(objects, revision, "AlreadyExists", Nothing),
                       Fakes!Reaction(tracker, "AlreadyExists", Nothing), parts)
    BY <1>7, <1>8, <1>9, <2>1 DEF FakesHold
  <2> QED
    BY <2>2, BothLeave
<1>10. CASE k \notin DOMAIN objects
  <2>1. [o EXCEPT !.status = NoStatus] = o
    BY <1>6, <1>10 DEF FakeObjects
  <2>2. outcome = Fakes!Stored(objects, revision, k, o)
    BY <1>5, <1>6, <1>10, <2>1 DEF Fakes!Inserted
  <2>3. Fakes!Answered("Create", Fakes!Stored(objects, revision, k, o),
                       Fakes!Reaction(Fakes!With(tracker, k, o), "", o), parts)
    BY <1>7, <1>8, <1>10, <2>2 DEF FakesHold
  <2> QED
    BY <1>5, <2>3, BothStore
<1> QED
  BY <1>9, <1>10

\* Of an update of either kind, what the server stores is all of the object then.
LEMMA UpdateHolds ==
  ASSUME FakesHold(objects, revision, tracker), NEW k, FullKey(k), NEW o \in FakeObjects,
         NEW op, op # "List", NEW sub, NEW parts,
         Fakes!Answered(op, Fakes!Replaced(objects, revision, k, sub, o),
                        Fakes!TrackerAdd(tracker, k, o, TRUE), parts),
         k \in DOMAIN objects =>
           /\ o.rv = objects[k].rv
           /\ (IF sub = "status" THEN [objects[k] EXCEPT !.status = o.status]
               ELSE [o EXCEPT !.status = objects[k].status]) = o
  PROVE  FakesHold(objects', revision', tracker') /\ alike'
<1> DEFINE outcome == Fakes!Replaced(objects, revision, k, sub, o)
<1>1. /\ k \in DOMAIN tracker =>
           Fakes!TrackerAdd(tracker, k, o, TRUE) = Fakes!Reaction(Fakes!With(tracker, k, o), "", o)
      /\ k \notin DOMAIN tracker =>
           Fakes!TrackerAdd(tracker, k, o, TRUE) = Fakes!Reaction(tracker, "NotFound", Nothing)
  BY TrackerAdds DEF FakesHold
<1>2. CASE k \notin DOMAIN objects
  <2>1. outcome = Fakes!Outcome(objects, revision, "NotFound", Nothing)
    BY <1>2 DEF Fakes!Replaced, Fakes!Refused
  <2>2. Fakes!Answered(op, Fakes!Outcome(objects, revision, "NotFound", Nothing),
                       Fakes!Reaction(tracker, "NotFound", Nothing), parts)
    BY <1>1, <1>2, <2>1 DEF FakesHold
  <2> QED
    BY <2>2, BothLeave
<1>3. CASE k \in DOMAIN objects
  <2>1. o.rv # 0 /\ o.rv = objects[k].rv
    BY <1>3 DEF FakesHold
  <2>2. outcome = Fakes!Stored(objects, revision, k, o)
    BY <1>3, <2>1 DEF Fakes!Replaced
  <2>3. Fakes!Answered(op, Fakes!Stored(objects, revision, k, o),
                       Fakes!Reaction(Fakes!With(tracker, k, o), "", o), parts)
    BY <1>1, <1>3, <2>2 DEF FakesHold
  <2> QED
    BY <2>3, BothStore
<1> QED
  BY <1>2, <1>3

LEMMA UpdatesHold ==
  ASSUME FakesHold(objects, revision, tracker), NEW r \in FakeResources, NEW ns, NEW name,
         NEW o \in FakeObjects, ~parted',
         Fakes!Updates(r, ns, name, o) \/ Fakes!UpdatesStatus(r, ns, name, o)
  PROVE  FakesHold(objects', revision', tracker') /\ alike'
<1> DEFINE k == <<r, ns, name>>
           b == Fakes!Body(name, o)
<1>1. Fakes!Key(Fakes!Real(r, ns), name) = k /\ b.name = name /\ b.object = o
  BY SameClient DEF Fakes!Key, Fakes!Body
<1>2. \A request :
        ~Fakes!Malformed(request) /\ request.verb = "PUT" /\ request.ns = ns
        /\ request.named /\ request.name = name => FullKey(k)
  BY DEF Fakes!Malformed, FullKey
<1>3. CASE Fakes!Updates(r, ns, name, o)
  <2> DEFINE request == Fakes!Update(Fakes!Real(r, ns), b)
             outcome == Fakes!Replaced(objects, revision, k, request.sub, o)
             parts == \/ Fakes!Malformed(request)
                      \/ k \in DOMAIN objects /\ (o.rv # objects[k].rv \/ o.status # objects[k].status)
  <2>1. Fakes!FakeUpdate(tracker, Fakes!Fake(r, ns), b) = Fakes!TrackerAdd(tracker, k, o, TRUE)
    <3> HIDE DEF b
    <3> QED
      BY <1>1, FakeUpdateDoes
  <2>2. Fakes!Answered("Update", Fakes!ServerAnswers(request, outcome),
                       Fakes!TrackerAdd(tracker, k, o, TRUE), parts)
    BY <1>1, <1>3, <2>1 DEF Fakes!Updates
  <2>3. ~parts
    BY <2>2 DEF Fakes!Answered
  <2>4. /\ request.verb = "PUT" /\ request.ns = ns
        /\ request.named /\ request.name = name /\ request.sub = ""
    BY <1>1, SameClient DEF Fakes!Update, Fakes!Named, Fakes!Request
  <2>5. /\ ~Fakes!Malformed(request)
        /\ k \in DOMAIN objects => o.rv = objects[k].rv /\ o.status = objects[k].status
    BY <2>3
  <2>6. k \in DOMAIN objects => [o EXCEPT !.status = objects[k].status] = o
    BY <2>5 DEF FakeObjects
  <2> HIDE DEF request, k, b, parts
  <2>7. FullKey(k) /\ request.sub # "status"
    BY <1>2, <2>4, <2>5
  <2>8. Fakes!Answered("Update", Fakes!Replaced(objects, revision, k, request.sub, o),
                       Fakes!TrackerAdd(tracker, k, o, TRUE), parts)
    BY <2>2, <2>5, SentAsIs
  <2> QED
    BY <2>5, <2>6, <2>7, <2>8, UpdateHolds
<1>4. CASE Fakes!UpdatesStatus(r, ns, name, o)
  <2> DEFINE request == Fakes!UpdateStatus(Fakes!Real(r, ns), b)
             outcome == Fakes!Replaced(objects, revision, k, request.sub, o)
             parts == \/ Fakes!Malformed(request)
                      \/ k \in DOMAIN objects /\ [o EXCEPT !.status = objects[k].status] # objects[k]
  <2>1. Fakes!FakeUpdateStatus(tracker, Fakes!Fake(r, ns), b) = Fakes!TrackerAdd(tracker, k, o, TRUE)
    <3> HIDE DEF b
    <3> QED
      BY <1>1, FakeUpdateStatusDoes
  <2>2. Fakes!Answered("UpdateStatus", Fakes!ServerAnswers(request, outcome),
                       Fakes!TrackerAdd(tracker, k, o, TRUE), parts)
    BY <1>1, <1>4, <2>1 DEF Fakes!UpdatesStatus
  <2>3. ~parts
    BY <2>2 DEF Fakes!Answered
  <2>4. /\ request.verb = "PUT" /\ request.ns = ns
        /\ request.named /\ request.name = name /\ request.sub = "status"
    BY <1>1, SameClient DEF Fakes!UpdateStatus, Fakes!Update, Fakes!Named, Fakes!Request
  <2>5. /\ ~Fakes!Malformed(request)
        /\ k \in DOMAIN objects => [o EXCEPT !.status = objects[k].status] = objects[k]
    BY <2>3
  <2>6. k \in DOMAIN objects => o.rv = objects[k].rv /\ [objects[k] EXCEPT !.status = o.status] = o
    BY <2>5 DEF FakesHold, FakeObjects
  <2> HIDE DEF request, k, b, parts
  <2>7. FullKey(k)
    BY <1>2, <2>4, <2>5
  <2>8. Fakes!Answered("UpdateStatus", Fakes!Replaced(objects, revision, k, request.sub, o),
                       Fakes!TrackerAdd(tracker, k, o, TRUE), parts)
    BY <2>2, <2>5, SentAsIs
  <2> QED
    BY <2>4, <2>6, <2>7, <2>8, UpdateHolds
<1> QED
  BY <1>3, <1>4

LEMMA RestHolds ==
  ASSUME NEW objs, NEW rev, NEW t, FakesHold(objs, rev, t), NEW gone, NEW later \in Nat
  PROVE  FakesHold([k \in DOMAIN objs \ gone |-> objs[k]], later, [k \in DOMAIN t \ gone |-> t[k]])
BY DEF FakesHold

LEMMA DeletesHold ==
  ASSUME FakesHold(objects, revision, tracker), NEW r \in FakeResources, NEW ns, NEW name,
         Fakes!Deletes(r, ns, name), ~parted'
  PROVE  FakesHold(objects', revision', tracker') /\ alike'
<1> DEFINE k == <<r, ns, name>>
           request == Fakes!Delete(Fakes!Real(r, ns), name)
           outcome == Fakes!Removed(objects, revision, k)
           parts == Fakes!Malformed(request)
<1>1. Fakes!Key(Fakes!Real(r, ns), name) = k
  BY SameClient DEF Fakes!Key
<1>2. Fakes!Answered("Delete", Fakes!ServerAnswers(request, outcome), Fakes!TrackerDelete(tracker, k), parts)
  BY <1>1, FakeDeleteDoes DEF Fakes!Deletes
<1>3. ~parts
  BY <1>2 DEF Fakes!Answered
<1> HIDE DEF request, k
<1>4. Fakes!Answered("Delete", outcome, Fakes!TrackerDelete(tracker, k), parts)
  BY <1>2, <1>3, SentAsIs
<1>5. CASE k \in DOMAIN objects
  <2> DEFINE rest == [j \in DOMAIN objects \ {k} |-> objects[j]]
             later == [j \in DOMAIN tracker \ {k} |-> tracker[j]]
  <2>1. outcome = Fakes!Outcome(rest, revision + 1, "", Nothing)
    BY <1>5 DEF Fakes!Removed
  <2>2. Fakes!TrackerDelete(tracker, k) = Fakes!Reaction(later, "", Nothing)
    BY <1>5 DEF FakesHold, Fakes!TrackerDelete
  <2>3. FakesHold(rest, revision + 1, later)
    <3>1. revision + 1 \in Nat
      BY DEF FakesHold
    <3> QED
      BY <3>1, RestHolds
  <2> DEFINE next == revision + 1
  <2>4. Fakes!Answered("Delete", Fakes!Outcome(rest, next, "", Nothing),
                       Fakes!Reaction(later, "", Nothing), parts)
    BY <1>4, <2>1, <2>2
  <2>5. FakesHold(rest, next, later)
    BY <2>3
  <2> HIDE DEF rest, later, next
  <2> QED
    BY <2>4, <2>5, BothLeave
<1>6. CASE k \notin DOMAIN objects
  <2>1. outcome = Fakes!Outcome(objects, revision, "NotFound", Nothing)
    BY <1>6 DEF Fakes!Removed, Fakes!Refused
  <2>2. Fakes!TrackerDelete(tracker, k) = Fakes!Reaction(tracker, "NotFound", Nothing)
    BY <1>6 DEF FakesHold, Fakes!TrackerDelete
  <2>3. Fakes!Answered("Delete", Fakes!Outcome(objects, revision, "NotFound", Nothing),
                       Fakes!Reaction(tracker, "NotFound", Nothing), parts)
    BY <1>4, <2>1, <2>2
  <2> QED
    BY <2>3, BothLeave
<1> QED
  BY <1>5, <1>6

\* A list without a field selector: the labels and the objects are the same.
LEMMA ListsHold ==
  ASSUME FakesHold(objects, revision, tracker), NEW r \in FakeResources, NEW ns, NEW sel,
         Fakes!Lists(r, ns, sel), ~parted'
  PROVE  FakesHold(objects', revision', tracker') /\ alike'
<1> DEFINE c == Fakes!Fake(r, ns)
           a == Fakes!Action("list", c, "", Nothing)
           all == [k \in {j \in DOMAIN tracker : j[1] = r /\ ns \in {"", j[2]}} |-> tracker[k]]
           listed == [k \in Fakes!Selected(objects, r, ns, sel) |-> objects[k]]
           shown == [k \in {j \in DOMAIN all : sel.label \in {"", all[j].label}} |-> all[k]]
<1>1. Fakes!Listed(objects, revision, Fakes!Real(r, ns).resource, ns, sel)
        = Fakes!Outcome(objects, revision, "", listed)
  <2>1. Fakes!Real(r, ns).resource = r
    BY SameClient
  <2>2. Fakes!Listed(objects, revision, r, ns, sel) = Fakes!Outcome(objects, revision, "", listed)
    BY DEF Fakes!Listed
  <2> HIDE DEF listed
  <2> QED
    BY <2>1, <2>2
<1>2. Fakes!FakeList(tracker, c, sel) = Fakes!Reaction(tracker, "", shown)
  <2>1. a.verb = "list" /\ a.key[1] = r /\ a.key[2] = ns
    BY SameClient DEF Fakes!Action
  <2>2. Fakes!Invokes(tracker, a) = Fakes!TrackerList(tracker, r, ns)
    <3> HIDE DEF a
    <3> QED
      BY <2>1, Invoked
  <2>3. Fakes!TrackerList(tracker, r, ns) = Fakes!Reaction(tracker, "", all)
    BY DEF Fakes!TrackerList
  <2>4. Fakes!Invokes(tracker, a).answer.value = all
    <3> DEFINE x == Fakes!Invokes(tracker, a)
    <3>1. x = Fakes!Reaction(tracker, "", all)
      BY <2>2, <2>3
    <3> HIDE DEF all, x
    <3>2. x.answer.value = all
      BY <3>1 DEF Fakes!Reaction
    <3> QED
      BY <3>2 DEF x
  <2> QED
    BY <2>4 DEF Fakes!FakeList
<1>3. Fakes!Answered("List", Fakes!Outcome(objects, revision, "", listed),
                     Fakes!Reaction(tracker, "", shown), sel.field # "")
  BY <1>1, <1>2 DEF Fakes!Lists
<1>4. sel.field = ""
  BY <1>3 DEF Fakes!Answered
<1>5. Fakes!SameObjects(listed, shown)
  <2>1. DOMAIN listed = DOMAIN shown
    BY <1>4 DEF FakesHold, SaysSame, Fakes!Selected, Fakes!Selects
  <2>2. ASSUME NEW k \in DOMAIN listed PROVE Fakes!Plain(listed[k]) = Fakes!Plain(shown[k])
    <3>1. k \in DOMAIN objects /\ listed[k] = objects[k] /\ shown[k] = tracker[k]
      BY <2>1 DEF Fakes!Selected
    <3> QED
      BY <3>1, PlainSame DEF FakesHold
  <2> QED
    BY <2>1, <2>2 DEF Fakes!SameObjects
<1> HIDE DEF listed, shown
<1>6. objects' = objects /\ revision' = revision /\ tracker' = tracker /\ alike'
  BY <1>3, <1>5 DEF Fakes!Answered, Fakes!Outcome, Fakes!Reaction
<1> QED
  BY <1>6

\* A collection of nothing.
LEMMA DeletesCollectionHolds ==
  ASSUME FakesHold(objects, revision, tracker), NEW r \in FakeResources, NEW ns, NEW sel,
         Fakes!DeletesCollection(r, ns, sel), ~parted'
  PROVE  FakesHold(objects', revision', tracker') /\ alike'
<1> DEFINE gone == Fakes!Selected(objects, Fakes!Real(r, ns).resource, ns, sel)
           rest == [k \in DOMAIN objects \ gone |-> objects[k]]
           later == revision + Fakes!Cardinality(gone)
<1>1. Fakes!Answered("DeleteCollection", Fakes!Outcome(rest, later, "", Nothing),
                     Fakes!Reaction(tracker, "", Nothing), gone # {})
  BY FakeDeleteCollectionDoes DEF Fakes!DeletesCollection
<1>2. gone = {}
  BY <1>1 DEF Fakes!Answered
<1>3. later \in Nat
  <2>1. Fakes!Cardinality({}) = 0
    BY SameCardinality, FS_EmptySet
  <2>2. revision \in Nat
    BY DEF FakesHold
  <2> HIDE DEF gone
  <2> QED
    BY <1>2, <2>1, <2>2
<1> HIDE DEF gone, later
<1>4. FakesHold(rest, later, tracker)
  BY <1>2, <1>3 DEF FakesHold
<1> HIDE DEF rest
<1> QED
  BY <1>1, <1>4, BothLeave

LEMMA ProductOfThree ==
  ASSUME NEW A, NEW B, NEW C, NEW k \in A \X B \X C
  PROVE  k = <<k[1], k[2], k[3]>> /\ k[2] \in B /\ k[3] \in C
OBVIOUS

LEMMA KeysFull ==
  ASSUME NEW k \in Fakes!Keys
  PROVE  FullKey(k)
<1> DEFINE B == FakeNamespaces \ {""}
           C == FakeNames \ {""}
<1>1. k \in FakeResources \X B \X C
  BY DEF Fakes!Keys
<1> HIDE DEF B, C
<1>2. k = <<k[1], k[2], k[3]>> /\ k[2] \in B /\ k[3] \in C
  BY <1>1, ProductOfThree
<1> QED
  BY <1>2 DEF FullKey, B, C

LEMMA PartedStays ==
  ASSUME Fakes!Next, ~parted'
  PROVE  ~parted
<1>1. ASSUME NEW r, NEW ns, NEW name, Fakes!Gets(r, ns, name) \/ Fakes!Deletes(r, ns, name)
      PROVE  ~parted
  BY <1>1 DEF Fakes!Gets, Fakes!Deletes, Fakes!Answered
<1>2. ASSUME NEW r, NEW ns, NEW name, NEW o, Fakes!Creates(r, ns, name, o)
      PROVE  ~parted
  BY <1>2 DEF Fakes!Creates, Fakes!Answered
<1>3. ASSUME NEW r, NEW ns, NEW name, NEW o, Fakes!Updates(r, ns, name, o) \/ Fakes!UpdatesStatus(r, ns, name, o)
      PROVE  ~parted
  BY <1>3 DEF Fakes!Updates, Fakes!UpdatesStatus, Fakes!Answered
<1>4. ASSUME NEW r, NEW ns, NEW sel, Fakes!Lists(r, ns, sel) \/ Fakes!DeletesCollection(r, ns, sel)
      PROVE  ~parted
  BY <1>4 DEF Fakes!Lists, Fakes!DeletesCollection, Fakes!Answered
<1> QED
  BY <1>1, <1>2, <1>3, <1>4 DEF Fakes!Next

\* A test cannot tell the fake clientset from the real one until it makes a call of those
\* that Fakes names, whatever objects it sends, and in whatever order.
THEOREM FakesAlike == PartSpec => []FakeParity
<1>1. ASSUME Fakes!Init PROVE FakesHold(objects, revision, tracker) /\ alike
  <2>1. PICK given \in SUBSET Fakes!Keys, label \in FakeLabels, datum \in Data :
          objects = [k \in given |-> Fakes!Object(label, datum, NoStatus, 1)]
    BY <1>1 DEF Fakes!Init
  <2>2. tracker = [k \in DOMAIN objects |-> [objects[k] EXCEPT !.rv = 0]] /\ revision = 1 /\ alike
    BY <1>1 DEF Fakes!Init, Fakes!NewSimpleClientset
  <2>3. ASSUME NEW k \in DOMAIN objects
        PROVE  /\ FullKey(k)
               /\ objects[k] \in FakeObjects /\ objects[k].rv > 0 /\ tracker[k] \in FakeObjects
               /\ SaysSame(objects[k], tracker[k])
    <3>1. FullKey(k)
      <4>1. k \in Fakes!Keys
        BY <2>1
      <4> QED
        BY <4>1, KeysFull
    <3>2. objects[k] = [label |-> label, spec |-> datum, status |-> NoStatus, rv |-> 1]
      BY <2>1 DEF Fakes!Object
    <3>3. tracker[k] = [label |-> label, spec |-> datum, status |-> NoStatus, rv |-> 0]
      BY <2>2, <3>2
    <3> QED
      BY <3>1, <3>2, <3>3 DEF FakeObjects, SaysSame
  <2> QED
    BY <2>2, <2>3 DEF FakesHold
<1>2. PartInit => FakesIInv
  <2>1. FakesIdle => FakesHold(objects, revision, tracker) /\ alike
    <3>1. DOMAIN << >> = {}
      OBVIOUS
    <3> QED
      BY <3>1 DEF FakesIdle, FakesHold
  <2> QED
    BY <1>1, <2>1 DEF PartInit, FakesIInv
<1>3. FakesIInv /\ [PartNext]_allVars => FakesIInv'
  <2> SUFFICES ASSUME FakesIInv, [PartNext]_allVars PROVE FakesIInv'
    OBVIOUS
  <2>1. CASE InFakes(Fakes!Next)
    <3> SUFFICES ASSUME ~parted' PROVE FakesHold(objects', revision', tracker') /\ alike'
      BY DEF FakesIInv, FakesHold
    <3>1. ~parted
      BY <2>1, PartedStays DEF InFakes
    <3>2. FakesHold(objects, revision, tracker)
      BY <3>1 DEF FakesIInv
    <3>3. ASSUME NEW label \in FakeLabels, NEW datum \in Data, NEW status \in Data \cup {NoStatus},
                 NEW version \in 0..revision
          PROVE  Fakes!Object(label, datum, status, version) \in FakeObjects
      BY <3>2 DEF FakesHold, FakeObjects, Fakes!Object
    <3>4. PICK r \in FakeResources, ns \in FakeNamespaces :
            \/ \E name \in FakeNames :
                 \/ Fakes!Gets(r, ns, name) \/ Fakes!Deletes(r, ns, name)
                 \/ \E label \in FakeLabels, datum \in Data, status \in Data \cup {NoStatus},
                       version \in 0..revision :
                      LET o == Fakes!Object(label, datum, status, version)
                      IN \/ Fakes!Creates(r, ns, name, o) \/ Fakes!Updates(r, ns, name, o)
                         \/ Fakes!UpdatesStatus(r, ns, name, o)
            \/ \E sel \in Selectors : Fakes!Lists(r, ns, sel) \/ Fakes!DeletesCollection(r, ns, sel)
      BY <2>1 DEF InFakes, Fakes!Next
    <3>5. ASSUME NEW name \in FakeNames, NEW o \in FakeObjects,
                 \/ Fakes!Creates(r, ns, name, o) \/ Fakes!Updates(r, ns, name, o)
                 \/ Fakes!UpdatesStatus(r, ns, name, o)
          PROVE  FakesHold(objects', revision', tracker') /\ alike'
      BY <3>2, <3>5, CreatesHold, UpdatesHold
    <3> QED
      BY <3>2, <3>3, <3>4, <3>5, GetsHold, DeletesHold, ListsHold, DeletesCollectionHolds
  <2>2. CASE UNCHANGED fakeVars
    BY <2>2 DEF fakeVars, FakesIInv, FakesHold
  <2> QED
    BY <2>1, <2>2 DEF PartNext, InCache, InCopies, InLimits, allVars
<1>4. FakesIInv => FakeParity
  BY HeldSame DEF FakesIInv, FakeParity, Fakes!FakeParity
<1> QED
  BY <1>2, <1>3, <1>4, PTL DEF PartSpec

================================================================================
