---------------------------- MODULE InformerFactory ----------------------------
(***************************************************************************)
(* The generated shared informer factory: goroutines ask it for informers, *)
(* start what was asked for, and wait for the caches to be filled.  One    *)
(* mutex protects its two maps; WaitForCacheSync gives it back before it   *)
(* waits.  The informers themselves and the waiting are client-go's.       *)
(*                                                                         *)
(* An informer is named by its kind and the goroutine that created it.     *)
(***************************************************************************)
EXTENDS Naturals, Sequences

CONSTANTS
  Procs,          \* goroutines that use the factory
  Kinds,          \* resources they ask for
  OtherResource,  \* a resource the group does not have
  Channels,       \* stop channels
  Programs,       \* programs: the options they make the factory with, and the
                  \* resources each goroutine asks for and its stop channels
  DefaultResync,  \* defaultResync
  AllNamespaces,  \* v1.NamespaceAll
  None            \* nothing: no informer, no function, nobody

VARIABLES
  program,    \* the program that uses the factory
  factory,    \* its namespace, tweakListOptions and resync periods
  applied,    \* how many of the options have been applied to it
  lock,       \* the goroutine that holds the mutex, or None
  informers,  \* informers[k]: the informer registered for kind k, or None
  started,    \* startedInformers
  instance,   \* instance[i]: what newFunc made and what became of it, or None
  closed,     \* the stop channels that are closed
  proc,       \* proc[p]: the call p is in
  got,        \* got[p][k]: the informer p was given for k, or None
  mine        \* mine[p]: kinds p had been given before a Start of its own returned

config == <<program, factory, applied>>
vars == <<program, factory, applied, lock, informers, started, instance, closed, proc,
          got, mine>>

Ids == Kinds \X Procs

Entries(s) == {s[n] : n \in DOMAIN s}

\* The group has four kinds, and there are three sorts of options.
ASSUME FactoryAssumption ==
  /\ None \notin Ids \cup Procs /\ OtherResource \notin Kinds
  /\ Kinds \subseteq {"kubevirtcommontemplatesbundles", "kubevirtmetricsaggregations",
                      "kubevirtnodelabellerbundles", "kubevirttemplatevalidators"}
  /\ \A prog \in Programs :
       /\ prog.options \in Seq(Entries(prog.options))
       /\ \A opt \in Entries(prog.options) : opt.with \in {"namespace", "tweak", "resync"}

--------------------------------------------------------------------------------
(* Making a factory: each option changes the factory it is given.            *)

WithNamespace(f, ns) == [f EXCEPT !.namespace = ns]
WithTweakListOptions(f, tweak) == [f EXCEPT !.tweak = tweak]

\* The periods come as a map from objects: two objects of one kind are two entries,
\* and it is the map's order that says which of them is written last.
WithCustomResyncConfig(f, periods) ==
  LET kinds == {e[1] : e \in periods}
  IN {[f EXCEPT !.resync = [k \in Kinds |-> IF k \in kinds THEN chosen[k] ELSE f.resync[k]]] :
        chosen \in {c \in [kinds -> {e[2] : e \in periods}] :
                      \A k \in kinds : <<k, c[k]>> \in periods}}

Applied(f, opt) ==
  CASE opt.with = "namespace" -> {WithNamespace(f, opt.arg)}
    [] opt.with = "tweak" -> {WithTweakListOptions(f, opt.arg)}
    [] opt.with = "resync" -> WithCustomResyncConfig(f, opt.arg)

\* What NewSharedInformerFactoryWithOptions begins with.
NewFactory == [namespace |-> AllNamespaces, tweak |-> None,
               resync |-> [k \in Kinds |-> DefaultResync]]

\* One turn of its loop over the options.
NewSharedInformerFactoryWithOptions ==
  /\ applied < Len(program.options)
  /\ factory' \in Applied(factory, program.options[applied + 1])
  /\ applied' = applied + 1
  /\ UNCHANGED <<program, lock, informers, started, instance, closed, proc, got, mine>>

\* The constructor has returned.
Made == applied = Len(program.options)

\* The options NewFilteredSharedInformerFactory passes on.
NewFilteredSharedInformerFactory(ns, tweak) ==
  <<[with |-> "namespace", arg |-> ns], [with |-> "tweak", arg |-> tweak]>>

--------------------------------------------------------------------------------
(* From the factory to an informer: the namespace and the tweak are handed   *)
(* on by the factory, the group, the version and the kind.                   *)

Access(namespace, tweak) == [namespace |-> namespace, tweak |-> tweak]

kubevirt_New(namespace, tweak) == Access(namespace, tweak)
v1_New(namespace, tweak) == Access(namespace, tweak)
Kubevirt(f) == kubevirt_New(f.namespace, f.tweak)
V1(group) == v1_New(group.namespace, group.tweak)

KubevirtCommonTemplatesBundles(v) == Access(v.namespace, v.tweak)
KubevirtMetricsAggregations(v) == Access(v.namespace, v.tweak)
KubevirtNodeLabellerBundles(v) == Access(v.namespace, v.tweak)
KubevirtTemplateValidators(v) == Access(v.namespace, v.tweak)

\* A SharedIndexInformer lists and watches one resource of one namespace, the tweak
\* having been applied to the options of both requests.
ListWatch(resource, namespace, tweak, resync) ==
  [list |-> <<resource, namespace, tweak>>, watch |-> <<resource, namespace, tweak>>,
   resync |-> resync]

NewFilteredKubevirtCommonTemplatesBundleInformer(ns, resync, tweak) ==
  ListWatch("kubevirtcommontemplatesbundles", ns, tweak, resync)
NewFilteredKubevirtMetricsAggregationInformer(ns, resync, tweak) ==
  ListWatch("kubevirtmetricsaggregations", ns, tweak, resync)
NewFilteredKubevirtNodeLabellerBundleInformer_untweaked(ns, resync, tweak) ==
  [ListWatch("kubevirtnodelabellerbundles", ns, tweak, resync)
     EXCEPT !.watch = <<"kubevirtnodelabellerbundles", ns, None>>]
NewFilteredKubevirtNodeLabellerBundleInformer(ns, resync, tweak) ==
  ListWatch("kubevirtnodelabellerbundles", ns, tweak, resync)
NewFilteredKubevirtTemplateValidatorInformer(ns, resync, tweak) ==
  ListWatch("kubevirttemplatevalidators", ns, tweak, resync)

\* The newFunc each kind hands to InformerFor, its defaultInformer; what the source
\* files of the four kinds differ in.
defaultInformer(k, resync) ==
  LET v == V1(Kubevirt(factory))
  IN CASE k = "kubevirtcommontemplatesbundles" ->
            LET i == KubevirtCommonTemplatesBundles(v)
            IN NewFilteredKubevirtCommonTemplatesBundleInformer(i.namespace, resync, i.tweak)
       [] k = "kubevirtmetricsaggregations" ->
            LET i == KubevirtMetricsAggregations(v)
            IN NewFilteredKubevirtMetricsAggregationInformer(i.namespace, resync, i.tweak)
       [] k = "kubevirtnodelabellerbundles" ->
            LET i == KubevirtNodeLabellerBundles(v)
            IN NewFilteredKubevirtNodeLabellerBundleInformer(i.namespace, resync, i.tweak)
       [] k = "kubevirttemplatevalidators" ->
            LET i == KubevirtTemplateValidators(v)
            IN NewFilteredKubevirtTemplateValidatorInformer(i.namespace, resync, i.tweak)

--------------------------------------------------------------------------------
(* The calls.  A call is [at, op, kind, stop, left, id, res]: where it is,    *)
(* what was called with which arguments, the kinds a loop has left, the       *)
(* informer in hand, and WaitForCacheSync's answer.                           *)

Idle == [at |-> "idle", op |-> None, kind |-> None, stop |-> None,
         left |-> {}, id |-> None, res |-> [k \in {} |-> TRUE]]

Call(p, op, kind, stop) ==
  /\ Made /\ proc[p].at = "idle"
  /\ proc' = [proc EXCEPT ![p] = [Idle EXCEPT !.at = "lock", !.op = op,
                                              !.kind = kind, !.stop = stop]]
  /\ UNCHANGED <<config, lock, informers, started, instance, closed, got, mine>>

\* An accessor's Informer(), or its Lister(), which asks for the informer of which it
\* takes the indexer.
Informer(p, k) == Call(p, "InformerFor", k, None)

\* ForResource asks the accessor of the resource it is given; for one the group does
\* not have it answers with an error and has not touched the factory.
ForResource(p, r) ==
  /\ r \in program.asks[p]
  /\ IF r \in Kinds THEN Informer(p, r) ELSE Made /\ proc[p].at = "idle" /\ UNCHANGED vars

CallStart(p, stop) == stop \in program.stops[p] /\ Call(p, "Start", None, stop)
CallWait(p, stop) == stop \in program.stops[p] /\ Call(p, "WaitForCacheSync", None, stop)

Registered == {k \in Kinds : informers[k] # None}

Lock_free(p) ==
  /\ proc[p].at = "lock"
  /\ lock' = p
  /\ proc' = [proc EXCEPT ![p].at = proc[p].op, ![p].left = Registered]
  /\ UNCHANGED <<config, informers, started, instance, closed, got, mine>>

\* f.lock.Lock(): the loops over the map begin with what is in it.
Lock(p) ==
  /\ proc[p].at = "lock" /\ lock = None
  /\ lock' = p
  /\ proc' = [proc EXCEPT ![p].at = proc[p].op, ![p].left = Registered]
  /\ UNCHANGED <<config, informers, started, instance, closed, got, mine>>

\* f.lock.Unlock(), deferred: of a Start and an InformerFor the return, of a
\* WaitForCacheSync the end of the function that takes the snapshot.
Unlock(p) ==
  /\ proc[p].at = "unlock"
  /\ lock' = None
  /\ \/ /\ proc[p].op = "InformerFor"
        /\ got' = [got EXCEPT ![p][proc[p].kind] = proc[p].id]
        /\ proc' = [proc EXCEPT ![p] = Idle]
        /\ UNCHANGED mine
     \/ /\ proc[p].op = "Start"
        /\ mine' = [mine EXCEPT ![p] = {k \in Kinds : got[p][k] # None}]
        /\ proc' = [proc EXCEPT ![p] = Idle]
        /\ UNCHANGED got
     \/ /\ proc[p].op = "WaitForCacheSync"
        /\ proc' = [proc EXCEPT ![p].at = "wait"]
        /\ UNCHANGED <<got, mine>>
  /\ UNCHANGED <<config, informers, started, instance, closed>>

\* InformerFor: the informer that is there, else the one newFunc makes.
Lookup(p) ==
  /\ proc[p].at = "InformerFor"
  /\ proc' = [proc EXCEPT ![p].at = IF informers[proc[p].kind] = None THEN "new" ELSE "unlock",
                          ![p].id = informers[proc[p].kind]]
  /\ UNCHANGED <<config, lock, informers, started, instance, closed, got, mine>>

NewInformer(p) ==
  LET k == proc[p].kind
      id == <<k, p>>
  IN /\ proc[p].at = "new"
     /\ instance' = [instance EXCEPT ![id] =
                       [made |-> defaultInformer(k, factory.resync[k]),
                        runs |-> 0, state |-> "new", stop |-> None, synced |-> FALSE]]
     /\ informers' = [informers EXCEPT ![k] = id]
     /\ proc' = [proc EXCEPT ![p].at = "unlock", ![p].id = id]
     /\ UNCHANGED <<config, lock, started, closed, got, mine>>

\* `go informer.Run(stopCh)'.
Run(x, stop) == [x EXCEPT !.runs = @ + 1, !.state = "running", !.stop = stop]

StartOne_again(p) ==
  /\ proc[p].at = "Start"
  /\ \E k \in proc[p].left :
       /\ proc' = [proc EXCEPT ![p].left = @ \ {k}]
       /\ started' = started \cup {k}
       /\ instance' = [instance EXCEPT ![informers[k]] = Run(@, proc[p].stop)]
  /\ UNCHANGED <<config, lock, informers, closed, got, mine>>

\* One round of Start's loop, in the map's order: an informer that was never started
\* is run.
StartOne(p) ==
  /\ proc[p].at = "Start"
  /\ \E k \in proc[p].left :
       /\ proc' = [proc EXCEPT ![p].left = @ \ {k}]
       /\ IF k \in started THEN UNCHANGED <<started, instance>>
          ELSE /\ started' = started \cup {k}
               /\ instance' = [instance EXCEPT ![informers[k]] = Run(@, proc[p].stop)]
  /\ UNCHANGED <<config, lock, informers, closed, got, mine>>

StartDone(p) ==
  /\ proc[p].at = "Start" /\ proc[p].left = {}
  /\ proc' = [proc EXCEPT ![p].at = "unlock"]
  /\ UNCHANGED <<config, lock, informers, started, instance, closed, got, mine>>

\* WaitForCacheSync's snapshot: the started ones among the registered.
Snapshot(p) ==
  /\ proc[p].at = "WaitForCacheSync"
  /\ proc' = [proc EXCEPT ![p].at = "unlock", ![p].left = @ \cap started]
  /\ UNCHANGED <<config, lock, informers, started, instance, closed, got, mine>>

WaitOne_deaf(p) ==
  /\ proc[p].at = "wait"
  /\ \E k \in proc[p].left :
       /\ instance[informers[k]].synced
       /\ proc' = [proc EXCEPT ![p].left = @ \ {k}, ![p].res = [j \in DOMAIN @ \cup {k} |-> TRUE]]
  /\ UNCHANGED <<config, lock, informers, started, instance, closed, got, mine>>

WaitOne_hopeful(p) ==
  /\ proc[p].at = "wait"
  /\ \E k \in proc[p].left :
       /\ instance[informers[k]].synced \/ proc[p].stop \in closed
       /\ proc' = [proc EXCEPT ![p].left = @ \ {k}, ![p].res = [j \in DOMAIN @ \cup {k} |-> TRUE]]
  /\ UNCHANGED <<config, lock, informers, started, instance, closed, got, mine>>

\* cache.WaitForCacheSync for one of them: it polls until the informer has synced or
\* the caller's channel is closed; when both are so it may answer either.
WaitOne(p) ==
  /\ proc[p].at = "wait"
  /\ \E k \in proc[p].left, synced \in BOOLEAN :
       /\ IF synced THEN instance[informers[k]].synced ELSE proc[p].stop \in closed
       /\ proc' = [proc EXCEPT ![p].left = @ \ {k},
                               ![p].res = [j \in DOMAIN @ \cup {k} |-> IF j = k THEN synced ELSE @[j]]]
  /\ UNCHANGED <<config, lock, informers, started, instance, closed, got, mine>>

WaitDone(p) ==
  /\ proc[p].at = "wait" /\ proc[p].left = {}
  /\ proc' = [proc EXCEPT ![p] = [Idle EXCEPT !.at = "synced", !.res = proc[p].res]]
  /\ UNCHANGED <<config, lock, informers, started, instance, closed, got, mine>>

\* The caller goes on.
Proceed(p) ==
  /\ proc[p].at = "synced"
  /\ proc' = [proc EXCEPT ![p] = Idle]
  /\ UNCHANGED <<config, lock, informers, started, instance, closed, got, mine>>

--------------------------------------------------------------------------------
(* client-go and the rest of the program.                                    *)

\* A running informer's first list is in its cache: HasSynced().
Sync(i) ==
  /\ instance[i] # None /\ instance[i].state = "running" /\ ~instance[i].synced
  /\ instance' = [instance EXCEPT ![i].synced = TRUE]
  /\ UNCHANGED <<config, lock, informers, started, closed, proc, got, mine>>

\* Its Run returns once its stop channel is closed.
RunEnds(i) ==
  /\ instance[i] # None /\ instance[i].state = "running" /\ instance[i].stop \in closed
  /\ instance' = [instance EXCEPT ![i].state = "ended"]
  /\ UNCHANGED <<config, lock, informers, started, closed, proc, got, mine>>

Close(ch) ==
  /\ ch \in UNION {program.stops[p] : p \in Procs}
  /\ closed' = closed \cup {ch}
  /\ UNCHANGED <<config, lock, informers, started, instance, proc, got, mine>>

--------------------------------------------------------------------------------

Init ==
  /\ program \in Programs
  /\ factory = NewFactory
  /\ applied = 0
  /\ lock = None
  /\ informers = [k \in Kinds |-> None]
  /\ started = {}
  /\ instance = [i \in Ids |-> None]
  /\ closed = {}
  /\ proc = [p \in Procs |-> Idle]
  /\ got = [p \in Procs |-> [k \in Kinds |-> None]]
  /\ mine = [p \in Procs |-> {}]

\* What a goroutine does once it has called.
Step(p) ==
  \/ Lock(p) \/ Unlock(p) \/ Lookup(p) \/ NewInformer(p) \/ StartOne(p) \/ StartDone(p)
  \/ Snapshot(p) \/ WaitOne(p) \/ WaitDone(p) \/ Proceed(p)

Next ==
  \/ NewSharedInformerFactoryWithOptions
  \/ \E p \in Procs : \/ \E r \in Kinds \cup {OtherResource} : ForResource(p, r)
                      \/ \E ch \in Channels : CallStart(p, ch) \/ CallWait(p, ch)
                      \/ Step(p)
  \/ \E i \in Ids : Sync(i) \/ RunEnds(i)
  \/ \E ch \in Channels : Close(ch)

Spec == Init /\ [][Next]_vars

\* Goroutines are scheduled, a running informer can list, and a closed channel ends it.
\* sync.Mutex serves those who wait in turn, so a goroutine that waits for it gets it
\* although others lock it again and again.
Fairness ==
  /\ \A p \in Procs : WF_vars(Step(p)) /\ SF_vars(Lock(p))
  /\ \A i \in Ids : WF_vars(Sync(i)) /\ WF_vars(RunEnds(i))

LiveSpec == Spec /\ Fairness

--------------------------------------------------------------------------------

TypeOK ==
  /\ lock \in Procs \cup {None}
  /\ informers \in [Kinds -> Ids \cup {None}]
  /\ started \in SUBSET Kinds /\ closed \in SUBSET Channels
  /\ mine \in [Procs -> SUBSET Kinds]
  /\ got \in [Procs -> [Kinds -> Ids \cup {None}]]
  /\ \A p \in Procs :
       /\ proc[p].left \subseteq Kinds /\ DOMAIN proc[p].res \subseteq Kinds
       /\ proc[p].kind \in Kinds \cup {None} /\ proc[p].stop \in Channels \cup {None}
  /\ \A k \in Registered : instance[informers[k]].state \in {"new", "running", "ended"}

\* However many goroutines ask for a kind at the same time, through whichever accessor,
\* they share one informer: nobody holds another, and there is no other.
OneInformer ==
  \A k \in Kinds :
    /\ \A p \in Procs : got[p][k] # None => got[p][k] = informers[k]
    /\ \A i \in Ids : i[1] = k /\ instance[i] # None => informers[k] = i

\* An informer is run by the first Start after it was asked for, and by no other:
\* Start may be called again, by anybody, with any channel.
RunOnce ==
  \A k \in Registered :
    instance[informers[k]].runs = (IF k \in started THEN 1 ELSE 0)

\* The places, among the first n options, of those of one sort, and of those that give
\* a kind a period.
Given(options, with, n) == {m \in 1..n : options[m].with = with}
Timing(options, k, n) ==
  {m \in Given(options, "resync", n) : \E e \in options[m].arg : e[1] = k}

Latest(options, places) ==
  options[CHOOSE m \in places : \A l \in places : l <= m].arg

GivenLast(options, with, default, n) ==
  IF Given(options, with, n) = {} THEN default ELSE Latest(options, Given(options, with, n))

\* A period the factory of the first n options may have for a kind: one of those in the
\* last option that gives it any.
Period(options, k, resync, n) ==
  IF Timing(options, k, n) = {} THEN resync = DefaultResync
  ELSE <<k, resync>> \in Latest(options, Timing(options, k, n))

\* An informer lists, and watches, what the factory was told to, with the period given
\* last for its kind: the filters hold for all listers obtained through the factory.
Configured ==
  \A k \in Registered :
    LET options == program.options
        made == instance[informers[k]].made
        expected == <<k, GivenLast(options, "namespace", AllNamespaces, Len(options)),
                      GivenLast(options, "tweak", None, Len(options))>>
    IN /\ made.list = expected /\ made.watch = expected
       /\ Period(options, k, made.resync, Len(options))

\* Who asks for informers, starts the factory and waits may use their caches: when
\* WaitForCacheSync has answered without a FALSE they are all filled, whoever started
\* them and whatever other goroutines asked for meanwhile.
WaitMeansFilled ==
  \A p \in Procs : proc[p].at = "synced" =>
    /\ mine[p] \subseteq DOMAIN proc[p].res
    /\ \A k \in DOMAIN proc[p].res : proc[p].res[k] => instance[informers[k]].synced

OwnChannel(p) ==
  \A k \in proc[p].left : instance[informers[k]].stop = proc[p].stop

\* No goroutine is stuck in the factory: the mutex is given back, so that whoever asks
\* for an informer gets it and Start returns; and WaitForCacheSync returns when it is
\* given the channel the informers it waits for were started with, closed or not.
CallsReturn ==
  \A p \in Procs :
    /\ (proc[p].op \in {"InformerFor", "Start"}) ~> (proc[p].at = "idle")
    /\ (proc[p].at = "wait" /\ OwnChannel(p)) ~> (proc[p].at # "wait")

================================================================================
