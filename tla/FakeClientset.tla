------------------------------ MODULE FakeClientset ------------------------------
(***************************************************************************)
(* The fake clientset a unit test uses in place of the real one.  Each     *)
(* fake method makes an action of its arguments, which client-go's object  *)
(* tracker reacts to; the watch and the filtering of lists are the fake's. *)
(*                                                                         *)
(* One test makes the same calls to a fake and to a real clientset.  What  *)
(* it sends is any object: one it made, or got from either of them, lately *)
(* or long ago, and edited in any part; the fake looks at no version.      *)
(***************************************************************************)
EXTENDS Requests, FiniteSets

CONSTANTS
  FakeResources,  \* the resources the test uses
  Namespaces, Names, Labels, Data,
  Selectors,      \* the selectors it lists and deletes with
  MaxCalls        \* bound

VARIABLES
  objects, revision,  \* the API server's
  tracker,            \* the fake's object tracker: from keys to objects
  calls,
  parted,             \* the test has made a call that the two take differently
  alike               \* the answers to the last call said the same

vars == <<objects, revision, tracker, calls, parted, alike>>

--------------------------------------------------------------------------------
(* client-go's tracker (vendor/k8s.io/client-go/testing/fixture.go): it        *)
(* stores what it is given.                                                    *)

Reaction(t, err, value) == [tracker |-> t, answer |-> [err |-> err, value |-> value]]

\* A name or namespace that is left out stands for any; that must leave one object.
TrackerGet(t, k) ==
  LET found == {j \in DOMAIN t : j[1] = k[1] /\ k[2] \in {"", j[2]} /\ k[3] \in {"", j[3]}}
  IN CASE found = {} -> Reaction(t, "NotFound", Nothing)
       [] Cardinality(found) = 1 -> Reaction(t, "", t[CHOOSE j \in found : TRUE])
       [] OTHER -> Reaction(t, "Ambiguous", Nothing)

\* What was added is then looked up.
TrackerAdd(t, k, o, replaceExisting) ==
  CASE k \in DOMAIN t /\ ~replaceExisting -> Reaction(t, "AlreadyExists", Nothing)
    [] k \notin DOMAIN t /\ replaceExisting -> Reaction(t, "NotFound", Nothing)
    [] OTHER -> TrackerGet(With(t, k, o), k)
TrackerDelete(t, k) ==
  IF k \in DOMAIN t THEN Reaction([j \in DOMAIN t \ {k} |-> t[j]], "", Nothing)
  ELSE Reaction(t, "NotFound", Nothing)
TrackerList(t, resource, ns) ==
  Reaction(t, "", [k \in {j \in DOMAIN t : j[1] = resource /\ ns \in {"", j[2]}} |-> t[k]])

\* ObjectReaction(tracker): an action it does not know is left to the reactors after
\* it; there is none, and Fake.Invokes returns the default object and no error.
Invokes(t, action) ==
  CASE action.verb = "get" -> TrackerGet(t, action.key)
    [] action.verb = "list" -> TrackerList(t, action.key[1], action.key[2])
    [] action.verb = "create" -> TrackerAdd(t, action.key, action.object, FALSE)
    [] action.verb = "update" -> TrackerAdd(t, action.key, action.object, TRUE)
    [] action.verb = "delete" -> TrackerDelete(t, action.key)
    [] OTHER -> Reaction(t, "", Nothing)

--------------------------------------------------------------------------------
(* The fakes.                                                                  *)

FakeClient(resource, ns) == [resource |-> resource, ns |-> ns]
FakeKubevirtCommonTemplatesBundles(ns) == FakeClient("kubevirtcommontemplatesbundles", ns)
FakeKubevirtMetricsAggregations(ns) == FakeClient("kubevirtmetricsaggregations", ns)
FakeKubevirtNodeLabellerBundles_copied(ns) == FakeClient("kubevirttemplatevalidators", ns)
FakeKubevirtNodeLabellerBundles(ns) == FakeClient("kubevirtnodelabellerbundles", ns)
FakeKubevirtTemplateValidators(ns) == FakeClient("kubevirttemplatevalidators", ns)

Action(verb, c, name, o) ==
  [verb |-> verb, key |-> <<c.resource, c.ns, name>>, object |-> o]

FakeGet(t, c, name) == Invokes(t, Action("get", c, name, Nothing))

\* Of the two selectors in the options one is looked at.
FakeList_unfiltered(t, c, sel) == Invokes(t, Action("list", c, "", Nothing))
FakeList(t, c, sel) ==
  LET all == Invokes(t, Action("list", c, "", Nothing)).answer.value
  IN Reaction(t, "", [k \in {j \in DOMAIN all : sel.label \in {"", all[j].label}} |-> all[k]])

FakeCreate(t, c, body) == Invokes(t, Action("create", c, body.name, body.object))
FakeUpdate(t, c, body) == Invokes(t, Action("update", c, body.name, body.object))

\* An action on the subresource, which the tracker takes for one on the object.
FakeUpdateStatus(t, c, body) == Invokes(t, Action("update", c, body.name, body.object))
FakeDelete(t, c, name) == Invokes(t, Action("delete", c, name, Nothing))
FakeDeleteCollection(t, c, sel) == Invokes(t, Action("delete-collection", c, "", Nothing))

--------------------------------------------------------------------------------
(* The test.                                                                   *)

\* The clients of a resource in a namespace that a clientset and a fake one hand out.
Real(resource, ns) ==
  CASE resource = "kubevirtcommontemplatesbundles" -> newKubevirtCommonTemplatesBundles(ns)
    [] resource = "kubevirtmetricsaggregations" -> newKubevirtMetricsAggregations(ns)
    [] resource = "kubevirtnodelabellerbundles" -> newKubevirtNodeLabellerBundles(ns)
    [] resource = "kubevirttemplatevalidators" -> newKubevirtTemplateValidators(ns)
Fake(resource, ns) ==
  CASE resource = "kubevirtcommontemplatesbundles" -> FakeKubevirtCommonTemplatesBundles(ns)
    [] resource = "kubevirtmetricsaggregations" -> FakeKubevirtMetricsAggregations(ns)
    [] resource = "kubevirtnodelabellerbundles" -> FakeKubevirtNodeLabellerBundles(ns)
    [] resource = "kubevirttemplatevalidators" -> FakeKubevirtTemplateValidators(ns)

Key(c, name) == <<c.resource, c.ns, name>>

\* The server's answer to a request, if it is sent.
ServerAnswers(request, outcome) ==
  IF Malformed(request) THEN Refused(objects, revision, "Malformed") ELSE outcome

\* The fake gives no resourceVersions; all else of two objects, or lists, is compared.
Plain(o) == IF o = Nothing THEN o ELSE [o EXCEPT !.rv = 0]
SameObjects(f, g) == DOMAIN f = DOMAIN g /\ \A k \in DOMAIN f : Plain(f[k]) = Plain(g[k])

\* Both have answered, to a call that is to be expected to part them or not.
Answered(op, real, fake, parts) ==
  /\ calls < MaxCalls /\ calls' = calls + 1
  /\ objects' = real.objects /\ revision' = real.revision
  /\ tracker' = fake.tracker
  /\ parted' = (parted \/ parts)
  /\ alike' = /\ real.answer.err = fake.answer.err
              /\ IF op = "List" THEN SameObjects(real.answer.value, fake.answer.value)
                 ELSE Plain(real.answer.value) = Plain(fake.answer.value)

\* Without the names it needs the fake takes a call as it is.
Gets(r, ns, name) ==
  LET request == Get(Real(r, ns), name)
  IN Answered("Get", ServerAnswers(request, Read(objects, revision, Key(Real(r, ns), name))),
              FakeGet(tracker, Fake(r, ns), name), Malformed(request))

\* It does not know field selectors.
Lists(r, ns, sel) ==
  Answered("List", Listed(objects, revision, Real(r, ns).resource, ns, sel),
           FakeList(tracker, Fake(r, ns), sel), sel.field # "")

\* It keeps the status of a new object, and does not mind its version.
Creates(r, ns, name, o) ==
  LET k == Key(Real(r, ns), name)
      request == Create(Real(r, ns), Body(name, o))
  IN Answered("Create", ServerAnswers(request, Inserted(objects, revision, k, o)),
              FakeCreate(tracker, Fake(r, ns), Body(name, o)),
              \/ Malformed(request) \/ name = ""
              \/ k \notin DOMAIN objects /\ (o.status # NoStatus \/ o.rv # 0))

\* It takes every object for the newest, and all of it, for both of its methods.
Updates(r, ns, name, o) ==
  LET k == Key(Real(r, ns), name)
      request == Update(Real(r, ns), Body(name, o))
  IN Answered("Update", ServerAnswers(request, Replaced(objects, revision, k, request.sub, o)),
              FakeUpdate(tracker, Fake(r, ns), Body(name, o)),
              \/ Malformed(request)
              \/ k \in DOMAIN objects /\ (o.rv # objects[k].rv \/ o.status # objects[k].status))

UpdatesStatus(r, ns, name, o) ==
  LET k == Key(Real(r, ns), name)
      request == UpdateStatus(Real(r, ns), Body(name, o))
  IN Answered("UpdateStatus", ServerAnswers(request, Replaced(objects, revision, k, request.sub, o)),
              FakeUpdateStatus(tracker, Fake(r, ns), Body(name, o)),
              \/ Malformed(request)
              \/ k \in DOMAIN objects /\ [o EXCEPT !.status = objects[k].status] # objects[k])

Deletes(r, ns, name) ==
  LET request == Delete(Real(r, ns), name)
  IN Answered("Delete", ServerAnswers(request, Removed(objects, revision, Key(Real(r, ns), name))),
              FakeDelete(tracker, Fake(r, ns), name), Malformed(request))

\* It deletes no collection.  With no other client about, the server has deleted all when
\* it answers.
DeletesCollection(r, ns, sel) ==
  LET gone == Selected(objects, Real(r, ns).resource, ns, sel)
  IN Answered("DeleteCollection", Outcome([k \in DOMAIN objects \ gone |-> objects[k]], revision + Cardinality(gone),
                      "", Nothing),
              FakeDeleteCollection(tracker, Fake(r, ns), sel), gone # {})

\* NewSimpleClientset(objects...): the tracker holds what the test gives it.
NewSimpleClientset(given) == [k \in DOMAIN given |-> [given[k] EXCEPT !.rv = 0]]

Keys == FakeResources \X (Namespaces \ {""}) \X (Names \ {""})

Init ==
  /\ \E given \in SUBSET Keys, label \in Labels, datum \in Data :
       objects = [k \in given |-> Object(label, datum, NoStatus, 1)]
  /\ revision = 1
  /\ tracker = NewSimpleClientset(objects)
  /\ calls = 0 /\ parted = FALSE /\ alike = TRUE

Next ==
  \E r \in FakeResources, ns \in Namespaces :
    \/ \E name \in Names :
         \/ Gets(r, ns, name) \/ Deletes(r, ns, name)
         \/ \E label \in Labels, datum \in Data, status \in Data \cup {NoStatus}, rv \in 0..revision :
              LET o == Object(label, datum, status, rv)
              IN Creates(r, ns, name, o) \/ Updates(r, ns, name, o) \/ UpdatesStatus(r, ns, name, o)
    \/ \E sel \in Selectors : Lists(r, ns, sel) \/ DeletesCollection(r, ns, sel)

Spec == Init /\ [][Next]_vars

--------------------------------------------------------------------------------

\* Whatever a test does, the fake has every object that the server would have, so that
\* it never misses one: what it has is too much, never too little.
NothingHidden == DOMAIN objects \subseteq DOMAIN tracker

\* A test cannot tell the fake clientset from the real one until it makes a call of those
\* that are named above: with a stale object, a status or a version for a new one, a part
\* that the method is not for, a field selector, a collection, or a name left out.  Until
\* then the two hold the same objects and give the same answers, errors included.
FakeParity == ~parted => SameObjects(objects, tracker) /\ alike

================================================================================
