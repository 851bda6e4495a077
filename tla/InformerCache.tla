------------------------------ MODULE InformerCache ------------------------------
(***************************************************************************)
(* One shared informer over a typed client and the listers on its cache:   *)
(* client-go's reflector lists, replaces the cache, watches from there and *)
(* applies the events, while users write to the cluster.                   *)
(***************************************************************************)
EXTENDS Requests, Sequences

CONSTANTS
  Informers,     \* informers: their namespace and what tweakListOptions sets
  Namespaces, Names, Labels,
  MaxRevision,   \* bound
  MaxFaults      \* bound: failing watches

VARIABLES
  informer,
  history,  \* history[r]: the cluster's objects at revision r
  cache,    \* the informer's indexer
  rv,       \* the revision the reflector goes on from
  seen,     \* the revision up to which its watch has come
  at,       \* what the reflector does: "list", "watch" (ask for one), "handle"
  faults

vars == <<informer, history, cache, rv, seen, at, faults>>

MetricsClient == newKubevirtMetricsAggregations(informer.namespace)
Resource == newKubevirtMetricsAggregations("").resource
Keys == {Resource} \X Namespaces \X Names

Now == Len(history)

--------------------------------------------------------------------------------
(* The informer's two functions: NewFilteredKubevirtMetricsAggregationInformer. *)

ListFunc == List(MetricsClient, informer.tweak)
WatchFunc_untweaked == Watch(MetricsClient, Everything)
WatchFunc == Watch(MetricsClient, informer.tweak)

Chosen(objs, request) ==
  [k \in Selected(objs, request.resource, request.ns, request.sel) |-> objs[k]]

Watched(r) == Chosen(history[r], WatchFunc)

--------------------------------------------------------------------------------
(* The reflector (vendor/k8s.io/client-go/tools/cache/reflector.go).           *)

\* ListAndWatch's list, and syncWith: it is asked for with resourceVersion "0" and may
\* be of any revision.
ListAll ==
  /\ at = "list"
  /\ \E r \in 1..Now :
       /\ cache' = Chosen(history[r], ListFunc)
       /\ rv' = r /\ seen' = r
  /\ at' = "watch"
  /\ UNCHANGED <<informer, history, faults>>

\* It begins after the revision it was asked for.
StartWatch ==
  /\ at = "watch"
  /\ seen' = rv /\ at' = "handle"
  /\ UNCHANGED <<informer, history, cache, rv, faults>>

\* watchHandler: an object that comes under the watch is an ADDED, one that leaves it
\* a DELETED; changes elsewhere are no event.
HandleEvent ==
  /\ at = "handle" /\ seen < Now
  /\ LET old == Watched(seen)
         new == Watched(seen + 1)
     IN /\ cache' = [k \in (DOMAIN cache \ (DOMAIN old \ DOMAIN new)) \cup
                           {j \in DOMAIN new : j \notin DOMAIN old \/ old[j] # new[j]} |->
                       IF k \in DOMAIN new /\ (k \notin DOMAIN old \/ old[k] # new[k])
                       THEN new[k] ELSE cache[k]]
        /\ rv' = IF old = new THEN rv ELSE seen + 1
  /\ seen' = seen + 1
  /\ UNCHANGED <<informer, history, at, faults>>

\* A watch that times out is followed by another one.
WatchEnds ==
  /\ at = "handle" /\ faults < MaxFaults
  /\ faults' = faults + 1 /\ at' = "watch"
  /\ UNCHANGED <<informer, history, cache, rv, seen>>

\* One that fails, or is refused as its revision is too old, by another list.
WatchFails ==
  /\ at \in {"watch", "handle"} /\ faults < MaxFaults
  /\ faults' = faults + 1 /\ at' = "list"
  /\ UNCHANGED <<informer, history, cache, rv, seen>>

--------------------------------------------------------------------------------
(* The listers.                                                                *)

\* KubevirtMetricsAggregationLister: List, and KubevirtMetricsAggregations(ns).List.
\* The lister takes "" as any namespace, the index as that of nothing.
ListerList(sel) == [k \in {j \in DOMAIN cache : Selects(sel, j, cache[j])} |-> cache[k]]
NamespaceList_any(ns, sel) == ListerList(sel)
NamespaceList(ns, sel) ==
  [k \in {j \in DOMAIN ListerList(sel) : ns \in {"", j[2]}} |-> cache[k]]

\* KubevirtMetricsAggregations(ns).Get: by the key ns + "/" + name.
NamespaceGet(ns, name) ==
  IF <<Resource, ns, name>> \in DOMAIN cache
  THEN [err |-> "", value |-> cache[<<Resource, ns, name>>]]
  ELSE [err |-> "NotFound", value |-> Nothing]

--------------------------------------------------------------------------------

Write(objs) ==
  /\ Now < MaxRevision /\ history' = Append(history, objs)
  /\ UNCHANGED <<informer, cache, rv, seen, at, faults>>

\* Users create an object, change it, its label included, and delete it.
Put(k, label) ==
  Write([j \in DOMAIN history[Now] \cup {k} |->
           IF j = k THEN Object(label, Nothing, NoStatus, Now + 1) ELSE history[Now][j]])
Remove(k) ==
  k \in DOMAIN history[Now] /\ Write([j \in DOMAIN history[Now] \ {k} |-> history[Now][j]])

Init ==
  /\ informer \in Informers
  /\ \E given \in SUBSET Keys, label \in Labels :
       history = <<[k \in given |-> Object(label, Nothing, NoStatus, 1)]>>
  /\ cache = <<>> /\ rv = 0 /\ seen = 0
  /\ at = "list" /\ faults = 0

Reflect == ListAll \/ StartWatch \/ HandleEvent

Next ==
  \/ Reflect \/ WatchEnds \/ WatchFails
  \/ \E k \in Keys : Remove(k) \/ \E label \in Labels : Put(k, label)

Spec == Init /\ [][Next]_vars

\* The reflector's goroutine runs and the server answers it; faults and writes end.
LiveSpec == Spec /\ WF_vars(Reflect)

--------------------------------------------------------------------------------

\* What the cluster may hold of the resource.
Clusters ==
  UNION {[some -> [label : Labels, spec : {Nothing}, status : {NoStatus}, rv : Nat]] :
         some \in SUBSET Keys}

TypeOK ==
  /\ informer \in Informers
  /\ rv \in 0..Now /\ seen \in rv..Now
  /\ at \in {"list", "watch", "handle"} /\ faults \in Nat
  /\ DOMAIN cache \subseteq Keys

\* Once it has synced the cache is the cluster as it was at one revision, restricted to
\* what the informer selects: through relists, reopened watches and objects whose label
\* comes to match or matches no more, nothing is half applied and nothing left behind.
CacheIsSnapshot == rv > 0 => cache = Chosen(history[seen], ListFunc)

\* A lister answers what the typed client would have answered at that revision, a list
\* of any namespace by any selector as well as a Get.
ListersAgree ==
  rv > 0 =>
    \A ns \in Namespaces \cup {""}, label \in Labels \cup {""} :
      LET sel == [Everything EXCEPT !.label = label]
          was == Chosen(history[seen], ListFunc)
      IN /\ NamespaceList(ns, sel) = Listed(was, seen, Resource, ns, sel).answer.value
         /\ \A name \in Names :
              ns # "" => NamespaceGet(ns, name) = Read(was, seen, <<Resource, ns, name>>).answer

\* When the writes and the faults have ended the cache becomes the cluster.
Converges == <>[](cache = Chosen(history[Now], ListFunc))

================================================================================
