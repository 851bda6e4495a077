---------------------------- MODULE TypedClientProofs ----------------------------
(***************************************************************************)
(* The typed clients keep the promise of their interfaces, for any         *)
(* programs of any callers.                                                *)
(***************************************************************************)
EXTENDS TypedClient, TLAPS

LEMMA Successor ==
  ASSUME NEW n \in Nat
  PROVE  n + 1 \in Nat /\ n + 1 \in 1..(n + 1) /\ \A i \in 1..n : i \in 1..(n + 1)
OBVIOUS

LEMMA Below ==
  ASSUME NEW n, NEW max \in Nat, n \in 0..max, n < max
  PROVE  n + 1 \in 0..max
OBVIOUS

LEMMA Edited ==
  ASSUME NEW o, IsObject(o), NEW x
  PROVE  /\ IsObject([o EXCEPT !.rv = x]) /\ [o EXCEPT !.rv = x].rv = x
         /\ IsObject([o EXCEPT !.status = x]) /\ IsObject([o EXCEPT !.spec = x])
BY DEF IsObject, Object

--------------------------------------------------------------------------------
(* What the requests say.                                                      *)

\* r is for m's client; it is a `verb' of one object if it is named.
Says(r, m, verb, named, name) ==
  /\ r.verb = verb /\ r.named = named /\ r.name = name
  /\ r.resource = m.client.resource /\ r.ns = m.client.ns

LEMMA RequestsSay ==
  ASSUME NEW m
  PROVE  /\ m.op = "Get" => Says(RequestOf(m), m, "GET", TRUE, m.name)
         /\ m.op = "List" => Says(RequestOf(m), m, "GET", FALSE, "") /\ RequestOf(m).sel = m.sel
         /\ m.op = "Create" => Says(RequestOf(m), m, "POST", FALSE, "") /\ RequestOf(m).body = m.body
         /\ m.op = "Update" => /\ Says(RequestOf(m), m, "PUT", TRUE, m.body.name)
                               /\ RequestOf(m).sub = "" /\ RequestOf(m).body = m.body
         /\ m.op = "UpdateStatus" => /\ Says(RequestOf(m), m, "PUT", TRUE, m.body.name)
                                     /\ RequestOf(m).sub = "status" /\ RequestOf(m).body = m.body
         /\ m.op = "Delete" => Says(RequestOf(m), m, "DELETE", TRUE, m.name)
         /\ m.op = "DeleteCollection" => /\ Says(RequestOf(m), m, "DELETE", FALSE, "")
                                         /\ RequestOf(m).sel = m.sel
         /\ m.op = "Patch" => /\ Says(RequestOf(m), m, "PATCH", TRUE, m.name)
                              /\ RequestOf(m).sub = m.sub /\ RequestOf(m).data = m.data
<1>1. ASSUME m.op = "Get" PROVE Says(RequestOf(m), m, "GET", TRUE, m.name)
  <2>1. RequestOf(m) = Get(m.client, m.name)
    BY <1>1 DEF RequestOf
  <2> QED
    BY <2>1 DEF Get, Named, Request, Says
<1>2. ASSUME m.op = "List"
      PROVE  Says(RequestOf(m), m, "GET", FALSE, "") /\ RequestOf(m).sel = m.sel
  <2>1. RequestOf(m) = List(m.client, m.sel)
    BY <1>2 DEF RequestOf
  <2> QED
    BY <2>1 DEF List, Request, Says
<1>3. ASSUME m.op = "Create"
      PROVE  Says(RequestOf(m), m, "POST", FALSE, "") /\ RequestOf(m).body = m.body
  <2>1. RequestOf(m) = Create(m.client, m.body)
    BY <1>3 DEF RequestOf
  <2> QED
    BY <2>1 DEF Create, Request, Says
<1> DEFINE IsPut(r) == /\ Says(r, m, "PUT", TRUE, m.body.name)
                       /\ r.sub = "" /\ r.body = m.body
                       /\ {"verb", "resource", "ns", "named", "name", "sub", "body"} \subseteq DOMAIN r
<1>4. IsPut(Update(m.client, m.body))
  <2> DEFINE put == Named(Request(m.client, "PUT"), m.body.name)
             r == [put EXCEPT !.body = m.body]
  <2>1. /\ put.verb = "PUT" /\ put.resource = m.client.resource /\ put.ns = m.client.ns
        /\ put.named = TRUE /\ put.name = m.body.name /\ put.sub = ""
        /\ {"verb", "resource", "ns", "named", "name", "sub", "body"} \subseteq DOMAIN put
    BY DEF Named, Request
  <2> HIDE DEF put
  <2>2. IsPut(r)
    BY <2>1 DEF Says
  <2> HIDE DEF IsPut
  <2> QED
    BY <2>2 DEF Update, put
<1>5. ASSUME m.op = "Update"
      PROVE  /\ Says(RequestOf(m), m, "PUT", TRUE, m.body.name)
             /\ RequestOf(m).sub = "" /\ RequestOf(m).body = m.body
  <2>1. RequestOf(m) = Update(m.client, m.body)
    BY <1>5 DEF RequestOf
  <2> QED
    BY <1>4, <2>1 DEF Says
<1>6. ASSUME m.op = "UpdateStatus"
      PROVE  /\ Says(RequestOf(m), m, "PUT", TRUE, m.body.name)
             /\ RequestOf(m).sub = "status" /\ RequestOf(m).body = m.body
  <2>1. RequestOf(m) = [Update(m.client, m.body) EXCEPT !.sub = "status"]
    BY <1>6 DEF RequestOf, UpdateStatus
  <2> DEFINE put == Update(m.client, m.body)
  <2>2. IsPut(put)
    BY <1>4
  <2> HIDE DEF put
  <2> QED
    BY <2>1, <2>2 DEF Says, put
<1>7. ASSUME m.op = "Delete" PROVE Says(RequestOf(m), m, "DELETE", TRUE, m.name)
  <2>1. RequestOf(m) = Delete(m.client, m.name)
    BY <1>7 DEF RequestOf
  <2> QED
    BY <2>1 DEF Delete, Named, Request, Says
<1>8. ASSUME m.op = "DeleteCollection"
      PROVE  Says(RequestOf(m), m, "DELETE", FALSE, "") /\ RequestOf(m).sel = m.sel
  <2>1. RequestOf(m) = DeleteCollection(m.client, m.sel)
    BY <1>8 DEF RequestOf
  <2> QED
    BY <2>1 DEF DeleteCollection, Request, Says
<1>9. ASSUME m.op = "Patch"
      PROVE  /\ Says(RequestOf(m), m, "PATCH", TRUE, m.name)
             /\ RequestOf(m).sub = m.sub /\ RequestOf(m).data = m.data
  <2>1. RequestOf(m) = Patch(m.client, m.name, m.data, m.sub)
    BY <1>9 DEF RequestOf
  <2> QED
    BY <2>1 DEF Patch, Named, Request, Says
<1> QED
  BY <1>1, <1>2, <1>3, <1>5, <1>6, <1>7, <1>8, <1>9

\* The REST client refuses what the promise leaves out: operations without the name or
\* the namespace they need.
LEMMA MalformedUnaddressed ==
  ASSUME NEW m, Sound(m) PROVE Store!Addressed(m) <=> ~Malformed(RequestOf(m))
BY RequestsSay DEF Sound, Store!Addressed, Malformed, Says

\* Of the requests that are sent one without a name deletes a collection, which is what
\* its method is for.
LEMMA CollectiveMeant ==
  ASSUME NEW m, Sound(m), ~Malformed(RequestOf(m))
  PROVE  Collective(RequestOf(m)) <=> m.op = "DeleteCollection"
BY RequestsSay DEF Sound, Malformed, Says, Collective

\* What is sent again after a reset connection only reads.
LEMMA GetReads ==
  ASSUME NEW m, Sound(m), RequestOf(m).verb = "GET"
  PROVE  m.op \in Store!Reads
BY RequestsSay DEF Sound, Says, Store!Reads

LEMMA SameOperations ==
  ASSUME NEW objs, NEW rev, NEW k
  PROVE  /\ Store!Read(objs, rev, k) = Read(objs, rev, k)
         /\ Store!Removed(objs, rev, k) = Removed(objs, rev, k)
         /\ \A r, ns, sel : Store!Selected(objs, r, ns, sel) = Selected(objs, r, ns, sel)
         /\ \A r, ns, sel : Store!Listed(objs, rev, r, ns, sel) = Listed(objs, rev, r, ns, sel)
         /\ \A o : Store!Stored(objs, rev, k, o) = Stored(objs, rev, k, o)
         /\ \A o : Store!Inserted(objs, rev, k, o) = Inserted(objs, rev, k, o)
         /\ \A sub, o : Store!Replaced(objs, rev, k, sub, o) = Replaced(objs, rev, k, sub, o)
         /\ \A sub, d : Store!Patched(objs, rev, k, sub, d) = Patched(objs, rev, k, sub, d)
<1>1. \A a, b, c, d : Store!Outcome(a, b, c, d) = Outcome(a, b, c, d)
  BY DEF Outcome, Store!Outcome
<1>2. \A a, b, c : Store!Refused(a, b, c) = Refused(a, b, c)
  BY <1>1 DEF Refused, Store!Refused
<1>3. \A r, ns, sel : Store!Selected(objs, r, ns, sel) = Selected(objs, r, ns, sel)
  BY DEF Selected, Store!Selected, Selects, Store!Selects
<1>4. \A o : Store!With(objs, k, o) = With(objs, k, o)
  BY DEF With, Store!With
<1>5. \A o : Store!Stored(objs, rev, k, o) = Stored(objs, rev, k, o)
  BY <1>1, <1>4 DEF Stored, Store!Stored
<1>6. Store!Read(objs, rev, k) = Read(objs, rev, k)
  BY <1>1, <1>2 DEF Read, Store!Read
<1>7. Store!Removed(objs, rev, k) = Removed(objs, rev, k)
  BY <1>1, <1>2 DEF Removed, Store!Removed
<1>8. \A r, ns, sel : Store!Listed(objs, rev, r, ns, sel) = Listed(objs, rev, r, ns, sel)
  BY <1>1, <1>3 DEF Listed, Store!Listed
<1>9. \A o : Store!Inserted(objs, rev, k, o) = Inserted(objs, rev, k, o)
  BY <1>2, <1>5 DEF Inserted, Store!Inserted
<1>10. \A sub, o : Store!Replaced(objs, rev, k, sub, o) = Replaced(objs, rev, k, sub, o)
  BY <1>2, <1>5 DEF Replaced, Store!Replaced
<1>11. \A sub, d : Store!Patched(objs, rev, k, sub, d) = Patched(objs, rev, k, sub, d)
  BY <1>2, <1>5 DEF Patched, Store!Patched
<1> QED
  BY <1>3, <1>5, <1>6, <1>7, <1>8, <1>9, <1>10, <1>11

\* The endpoint a request reaches does what the method promises.
LEMMA AnswerPromised ==
  ASSUME NEW m, Sound(m), ~Malformed(RequestOf(m)), m.op # "DeleteCollection"
  PROVE  Answer(RequestOf(m)) = Store!Promised(m)
<1> DEFINE r == RequestOf(m)
           k == <<m.client.resource, m.client.ns, m.name>>
<1>1. CASE m.op = "Get"
  <2>1. Says(r, m, "GET", TRUE, m.name)
    BY <1>1, RequestsSay
  <2> HIDE DEF r
  <2>2. m.name # "" 
    BY <2>1 DEF Says, Malformed, r
  <2>3. Answer(r) = Read(objects, revision, k)
    BY <2>1, <2>2 DEF Says, Answer
  <2> QED
    BY <1>1, <2>3, SameOperations DEF Store!Promised, r
<1>2. CASE m.op = "List"
  <2>1. Says(r, m, "GET", FALSE, "") /\ r.sel = m.sel
    BY <1>2, RequestsSay
  <2> HIDE DEF r
  <2>2. Answer(r) = Listed(objects, revision, m.client.resource, m.client.ns, m.sel)
    BY <2>1 DEF Says, Answer
  <2> QED
    BY <1>2, <2>2, SameOperations DEF Store!Promised, r
<1>3. CASE m.op = "Create"
  <2>1. Says(r, m, "POST", FALSE, "") /\ r.body = m.body /\ m.body.name = m.name
    BY <1>3, RequestsSay DEF Sound
  <2> HIDE DEF r
  <2>2. Answer(r) = Inserted(objects, revision, k, m.body.object)
    BY <2>1 DEF Says, Answer
  <2> QED
    BY <1>3, <2>2, SameOperations DEF Store!Promised, r
<1>4. CASE m.op = "Update"
  <2>1. Says(r, m, "PUT", TRUE, m.name) /\ r.sub = "" /\ r.body = m.body
    BY <1>4, RequestsSay DEF Sound
  <2> HIDE DEF r
  <2>2. Answer(r) = Replaced(objects, revision, k, "", m.body.object)
    BY <2>1 DEF Says, Answer
  <2> QED
    BY <1>4, <2>2, SameOperations DEF Store!Promised, r
<1>5. CASE m.op = "UpdateStatus"
  <2>1. Says(r, m, "PUT", TRUE, m.name) /\ r.sub = "status" /\ r.body = m.body
    BY <1>5, RequestsSay DEF Sound
  <2> HIDE DEF r
  <2>2. Answer(r) = Replaced(objects, revision, k, "status", m.body.object)
    BY <2>1 DEF Says, Answer
  <2> QED
    BY <1>5, <2>2, SameOperations DEF Store!Promised, r
<1>6. CASE m.op = "Delete"
  <2>1. Says(r, m, "DELETE", TRUE, m.name)
    BY <1>6, RequestsSay
  <2> HIDE DEF r
  <2>2. Answer(r) = Removed(objects, revision, k)
    BY <2>1 DEF Says, Answer
  <2> QED
    BY <1>6, <2>2, SameOperations DEF Store!Promised, r
<1>7. CASE m.op = "Patch"
  <2>1. Says(r, m, "PATCH", TRUE, m.name) /\ r.sub = m.sub /\ r.data = m.data
    BY <1>7, RequestsSay
  <2> HIDE DEF r
  <2>2. Answer(r) = Patched(objects, revision, k, m.sub, m.data)
    BY <2>1 DEF Says, Answer
  <2> QED
    BY <1>7, <2>2, SameOperations DEF Store!Promised, r
<1> QED
  BY <1>1, <1>2, <1>3, <1>4, <1>5, <1>6, <1>7 DEF Sound

--------------------------------------------------------------------------------
(* Records with the fields of a slot, and of an operation.                     *)

Over(w, D) == DOMAIN w = D /\ w = [i \in D |-> w[i]]

SlotFields == {"from", "m", "request", "at", "left", "answer", "retries"}
OpFields == {"from", "m", "at", "left", "answer", "retries"}

SlotIs(w, from, m, request, at, left, answer, retries) ==
  /\ Over(w, SlotFields)
  /\ w.from = from /\ w.m = m /\ w.request = request /\ w.at = at /\ w.left = left
  /\ w.answer = answer /\ w.retries = retries

OpIs(o, from, m, at, left, answer, retries) ==
  /\ Over(o, OpFields)
  /\ o.from = from /\ o.m = m /\ o.at = at /\ o.left = left /\ o.answer = answer
  /\ o.retries = retries

LEMMA SameRecord ==
  ASSUME NEW D, NEW y, NEW z, Over(y, D), Over(z, D), \A i \in D : y[i] = z[i]
  PROVE  y = z
BY DEF Over

LEMMA SameOp ==
  ASSUME NEW from, NEW m, NEW at, NEW left, NEW answer, NEW retries, NEW y, NEW z,
         OpIs(y, from, m, at, left, answer, retries), OpIs(z, from, m, at, left, answer, retries)
  PROVE  y = z
<1>1. \A i \in OpFields : y[i] = z[i]
  BY DEF OpIs, OpFields
<1> QED
  BY <1>1, SameRecord DEF OpIs

LEMMA SlotEdits ==
  ASSUME NEW x, Over(x, SlotFields), NEW a, NEW b, NEW c, NEW d
  PROVE  /\ SlotIs([x EXCEPT !.at = a, !.answer = b], x.from, x.m, x.request, a, x.left, b, x.retries)
         /\ SlotIs([x EXCEPT !.at = a, !.left = b], x.from, x.m, x.request, a, b, x.answer, x.retries)
         /\ SlotIs([x EXCEPT !.left = a], x.from, x.m, x.request, x.at, a, x.answer, x.retries)
         /\ SlotIs([x EXCEPT !.from = a], a, x.m, x.request, x.at, x.left, x.answer, x.retries)
         /\ SlotIs([x EXCEPT !.at = a, !.left = b, !.answer = c],
                   x.from, x.m, x.request, a, b, c, x.retries)
         /\ SlotIs([x EXCEPT !.at = a, !.left = b, !.answer = c, !.retries = d],
                   x.from, x.m, x.request, a, b, c, d)
BY DEF SlotIs, Over, SlotFields

LEMMA OpEdits ==
  ASSUME NEW x, Over(x, OpFields), NEW a, NEW b, NEW c, NEW d
  PROVE  /\ OpIs([x EXCEPT !.at = a, !.answer = b], x.from, x.m, a, x.left, b, x.retries)
         /\ OpIs([x EXCEPT !.at = a, !.left = b], x.from, x.m, a, b, x.answer, x.retries)
         /\ OpIs([x EXCEPT !.left = a], x.from, x.m, x.at, a, x.answer, x.retries)
         /\ OpIs([x EXCEPT !.from = a], a, x.m, x.at, x.left, x.answer, x.retries)
         /\ OpIs([x EXCEPT !.at = a, !.left = b, !.answer = c], x.from, x.m, a, b, c, x.retries)
         /\ OpIs([x EXCEPT !.at = a, !.left = b, !.answer = c, !.retries = d], x.from, x.m, a, b, c, d)
BY DEF OpIs, Over, OpFields

--------------------------------------------------------------------------------
(* What is on the wire.                                                        *)

IsSlot(w) == Over(w, SlotFields) /\ w.at \in {"free", "sent", "served", "deleting"}

\* A request on its way is its method's, and one that may be sent.
IsBusy(w) ==
  /\ w.from \in Callers \cup {Nobody} /\ w.m \in Methods /\ w.retries \in 0..MaxRetries
  /\ w.request = RequestOf(w.m) /\ ~Malformed(w.request)

\* An object was stored by one of the writes so far, under a name in a namespace.
AllProper(objs, rev) ==
  \A k \in DOMAIN objs : IsObject(objs[k]) /\ objs[k].rv \in 1..rev /\ k[2] # "" /\ k[3] # ""

IInv ==
  /\ revision \in 0..MaxRevision /\ program \in Programs
  /\ AllProper(objects, revision)
  /\ wire = [s \in Slots |-> wire[s]]
  /\ \A s \in Slots : IsSlot(wire[s]) /\ (wire[s].at # "free" => IsBusy(wire[s]))

LEMMA TypesHold == IInv => TypeOK
BY DEF IInv, TypeOK, IsSlot, IsBusy, At, AllProper

LEMMA Stages ==
  /\ Stage["free"] = "free" /\ Stage["sent"] = "open"
  /\ Stage["served"] = "done" /\ Stage["deleting"] = "deleting"
BY DEF Stage

LEMMA PromiseIs ==
  ASSUME NEW w, NEW from, NEW m, NEW request, NEW at, NEW left, NEW answer, NEW retries,
         SlotIs(w, from, m, request, at, left, answer, retries)
  PROVE  OpIs(Promise(w), from, m, Stage[at], left, answer, retries)
BY DEF SlotIs, OpIs, Promise, Over, OpFields

LEMMA FreePromised == IsSlot(Free) /\ Free.at = "free" /\ Promise(Free) = Store!Free
BY Stages DEF Promise, Free, Store!Free, IsSlot, Over, SlotFields

LEMMA InitHolds == Init => IInv /\ Store!Init
<1> SUFFICES ASSUME Init PROVE IInv /\ Store!Init
  OBVIOUS
<1>1. /\ program \in Programs /\ objects = <<>> /\ revision = 0
      /\ wire = [s \in Slots |-> Free]
  BY DEF Init
<1>2. IInv
  BY <1>1, FreePromised, ClientAssumption DEF IInv, AllProper
<1>3. Operations = [s \in Slots |-> Store!Free]
  BY <1>1, FreePromised DEF Operations
<1> QED
  BY <1>1, <1>2, <1>3 DEF Store!Init

--------------------------------------------------------------------------------
(* What an operation makes of the objects.                                     *)

Proceeds(objs, rev, out) == out.revision \in {rev, rev + 1} /\ AllProper(out.objects, out.revision)

LEMMA RefusedProceeds ==
  ASSUME NEW objs, NEW rev \in Nat, AllProper(objs, rev)
  PROVE  \A err, answer : /\ Proceeds(objs, rev, Outcome(objs, rev, err, answer))
                          /\ Proceeds(objs, rev, Refused(objs, rev, err))
BY DEF Proceeds, Refused, Outcome

LEMMA StoredProceeds ==
  ASSUME NEW objs, NEW rev \in Nat, AllProper(objs, rev), NEW k, k[2] # "", k[3] # "",
         NEW o, IsObject(o)
  PROVE  Proceeds(objs, rev, Stored(objs, rev, k, o))
<1>1. CASE k \in DOMAIN objs /\ o = objs[k]
  BY <1>1, RefusedProceeds DEF Stored
<1>2. CASE ~(k \in DOMAIN objs /\ o = objs[k])
  <2> DEFINE new == [o EXCEPT !.rv = rev + 1]
             objects2 == With(objs, k, new)
  <2>1. IsObject(new) /\ new.rv = rev + 1
    BY Edited
  <2> HIDE DEF new
  <2>2. /\ DOMAIN objects2 = DOMAIN objs \cup {k}
        /\ \A j \in DOMAIN objects2 : objects2[j] = IF j = k THEN new ELSE objs[j]
    BY DEF With
  <2>3. Stored(objs, rev, k, o) = Outcome(objects2, rev + 1, "", new)
    BY <1>2 DEF Stored, new
  <2> HIDE DEF objects2
  <2>4. rev + 1 \in 1..(rev + 1) /\ \A n \in 1..rev : n \in 1..(rev + 1)
    BY Successor
  <2>5. AllProper(objects2, rev + 1)
    BY <2>1, <2>2, <2>4 DEF AllProper
  <2>6. /\ Outcome(objects2, rev + 1, "", new).objects = objects2
        /\ Outcome(objects2, rev + 1, "", new).revision = rev + 1
    BY DEF Outcome
  <2> QED
    BY <2>3, <2>5, <2>6 DEF Proceeds
<1> QED
  BY <1>1, <1>2

LEMMA RemovedProceeds ==
  ASSUME NEW objs, NEW rev \in Nat, AllProper(objs, rev), NEW k
  PROVE  Proceeds(objs, rev, Removed(objs, rev, k))
<1>1. CASE k \notin DOMAIN objs
  BY <1>1, RefusedProceeds DEF Removed
<1>2. CASE k \in DOMAIN objs
  <2> DEFINE rest == [j \in DOMAIN objs \ {k} |-> objs[j]]
  <2>1. Removed(objs, rev, k) = Outcome(rest, rev + 1, "", Nothing)
    BY <1>2 DEF Removed
  <2>2. \A n \in 1..rev : n \in 1..(rev + 1)
    BY Successor
  <2>3. AllProper(rest, rev + 1)
    BY <2>2 DEF AllProper
  <2> HIDE DEF rest
  <2>4. /\ Outcome(rest, rev + 1, "", Nothing).objects = rest
        /\ Outcome(rest, rev + 1, "", Nothing).revision = rev + 1
    BY DEF Outcome
  <2> QED
    BY <2>1, <2>3, <2>4 DEF Proceeds
<1> QED
  BY <1>1, <1>2

\* A sent request finds the store as it should be, and leaves it so.
LEMMA AnswerProceeds ==
  ASSUME IInv, NEW m \in Methods, ~Malformed(RequestOf(m)), m.op # "DeleteCollection"
  PROVE  Proceeds(objects, revision, Answer(RequestOf(m)))
<1> DEFINE r == RequestOf(m)
           k == <<m.client.resource, m.client.ns, m.name>>
<1>1. Sound(m) /\ revision \in Nat /\ AllProper(objects, revision)
  BY ClientAssumption DEF IInv
<1>2. k \in DOMAIN objects => IsObject(objects[k]) /\ k[2] # "" /\ k[3] # ""
  BY <1>1 DEF AllProper
<1> HIDE DEF k
<1>3. CASE m.op = "Get"
  <2>1. Store!Promised(m) = Read(objects, revision, k)
    BY <1>3, SameOperations DEF Store!Promised, k
  <2> QED
    BY <1>1, <2>1, AnswerPromised, RefusedProceeds DEF Read
<1>4. CASE m.op = "List"
  <2>1. Store!Promised(m) = Listed(objects, revision, m.client.resource, m.client.ns, m.sel)
    BY <1>4, SameOperations DEF Store!Promised
  <2> QED
    BY <1>1, <2>1, AnswerPromised, RefusedProceeds DEF Listed
<1>5. CASE m.op = "Create"
  <2> DEFINE o == m.body.object
             new == [o EXCEPT !.status = NoStatus]
  <2>1. Store!Promised(m) = Inserted(objects, revision, k, o)
    BY <1>5, SameOperations DEF Store!Promised, k
  <2>2. IsObject(new)
    BY <1>1, <1>5 DEF Sound, IsObject, Object
  <2>3. k[2] # ""
    BY <1>1, <1>5, RequestsSay DEF Says, Malformed, k
  <2> HIDE DEF o, new
  <2>4. k[3] # "" => Proceeds(objects, revision, Stored(objects, revision, k, new))
    BY <1>1, <2>2, <2>3, StoredProceeds
  <2>5. Proceeds(objects, revision, Inserted(objects, revision, k, o))
    BY <1>1, <2>4, RefusedProceeds DEF Inserted, new
  <2> QED
    BY <1>1, <2>1, <2>5, AnswerPromised
<1>6. CASE m.op \in {"Update", "UpdateStatus"}
  <2> DEFINE o == m.body.object
             sub == IF m.op = "Update" THEN "" ELSE "status"
             new == IF sub = "status" THEN [objects[k] EXCEPT !.status = o.status]
                    ELSE [o EXCEPT !.status = objects[k].status]
  <2>1. Store!Promised(m) = Replaced(objects, revision, k, sub, o)
    BY <1>6, SameOperations DEF Store!Promised, k
  <2>2. k \in DOMAIN objects => IsObject(new)
    BY <1>1, <1>2, <1>6 DEF Sound, IsObject, Object
  <2>3. Replaced(objects, revision, k, sub, o) =
          IF k \notin DOMAIN objects THEN Refused(objects, revision, "NotFound")
          ELSE IF o.rv = 0 THEN Refused(objects, revision, "Invalid")
          ELSE IF o.rv # objects[k].rv THEN Refused(objects, revision, "Conflict")
          ELSE Stored(objects, revision, k, new)
    BY DEF Replaced
  <2> HIDE DEF o, sub, new
  <2>4. k \in DOMAIN objects => Proceeds(objects, revision, Stored(objects, revision, k, new))
    BY <1>1, <1>2, <2>2, StoredProceeds
  <2>5. Proceeds(objects, revision, Replaced(objects, revision, k, sub, o))
    BY <1>1, <2>3, <2>4, RefusedProceeds
  <2> QED
    BY <1>1, <2>1, <2>5, AnswerPromised
<1>7. CASE m.op = "Delete"
  <2>1. Store!Promised(m) = Removed(objects, revision, k)
    BY <1>7, SameOperations DEF Store!Promised, k
  <2> QED
    BY <1>1, <2>1, AnswerPromised, RemovedProceeds
<1>8. CASE m.op = "Patch"
  <2> DEFINE new == IF m.sub = "status" THEN [objects[k] EXCEPT !.status = m.data]
                    ELSE [objects[k] EXCEPT !.spec = m.data]
  <2>1. Store!Promised(m) = Patched(objects, revision, k, m.sub, m.data)
    BY <1>8, SameOperations DEF Store!Promised, k
  <2>2. k \in DOMAIN objects => IsObject(new)
    BY <1>2 DEF IsObject, Object
  <2>3. Patched(objects, revision, k, m.sub, m.data) =
          IF k \notin DOMAIN objects THEN Refused(objects, revision, "NotFound")
          ELSE Stored(objects, revision, k, new)
    BY DEF Patched
  <2> HIDE DEF new
  <2>4. k \in DOMAIN objects => Proceeds(objects, revision, Stored(objects, revision, k, new))
    BY <1>1, <1>2, <2>2, StoredProceeds
  <2> QED
    BY <1>1, <2>1, <2>3, <2>4, AnswerPromised, RefusedProceeds
<1> QED
  BY <1>1, <1>3, <1>4, <1>5, <1>6, <1>7, <1>8 DEF Sound

--------------------------------------------------------------------------------
(* The steps: each keeps the invariant and is one of the promise's.            *)

\* A step of one slot.
LEMMA SlotKeeps ==
  ASSUME IInv, NEW s \in Slots, NEW w, IsSlot(w), w.at # "free" => IsBusy(w),
         wire' = [wire EXCEPT ![s] = w], program' = program,
         revision' \in 0..MaxRevision, AllProper(objects', revision')
  PROVE  IInv' /\ Operations' = [Operations EXCEPT ![s] = Promise(w)]
<1>1. /\ wire' = [t \in Slots |-> wire'[t]]
      /\ \A t \in Slots : wire'[t] = IF t = s THEN w ELSE wire[t]
  BY DEF IInv
<1>2. \A t \in Slots : IsSlot(wire'[t]) /\ (wire'[t].at # "free" => IsBusy(wire'[t]))
  BY <1>1 DEF IInv
<1>3. IInv'
  BY <1>1, <1>2 DEF IInv
<1>4. Operations' = [t \in Slots |-> Promise(wire'[t])]
  BY DEF Operations
<1>5. Operations' = [Operations EXCEPT ![s] = Promise(w)]
  BY <1>1, <1>4 DEF Operations
<1> QED
  BY <1>3, <1>5

\* A step that leaves the objects alone.
LEMMA QuietKeeps ==
  ASSUME IInv, NEW s \in Slots, NEW w, IsSlot(w), w.at # "free" => IsBusy(w),
         wire' = [wire EXCEPT ![s] = w], UNCHANGED <<program, objects, revision>>
  PROVE  IInv' /\ Operations' = [Operations EXCEPT ![s] = Promise(w)]
<1>1. revision' \in 0..MaxRevision /\ AllProper(objects', revision')
  BY DEF IInv
<1> QED
  BY <1>1, SlotKeeps

\* What the invariant says of a slot in use.
LEMMA InUse ==
  ASSUME IInv, NEW s \in Slots, wire[s].at # "free"
  PROVE  /\ IsSlot(wire[s]) /\ Over(wire[s], SlotFields) /\ IsBusy(wire[s]) /\ Sound(wire[s].m)
         /\ wire[s].from \in Callers \cup {Nobody} /\ wire[s].retries \in 0..MaxRetries
         /\ Operations[s] = Promise(wire[s])
         /\ OpIs(Promise(wire[s]), wire[s].from, wire[s].m, Stage[wire[s].at], wire[s].left,
                 wire[s].answer, wire[s].retries)
         /\ Over(Operations[s], OpFields)
<1>1. IsSlot(wire[s]) /\ IsBusy(wire[s]) /\ Operations[s] = Promise(wire[s])
  BY DEF IInv, Operations
<1>2. OpIs(Promise(wire[s]), wire[s].from, wire[s].m, Stage[wire[s].at], wire[s].left, wire[s].answer, wire[s].retries)
  BY <1>1, PromiseIs DEF IsSlot, SlotIs
<1> QED
  BY <1>1, <1>2, ClientAssumption DEF IsSlot, IsBusy, OpIs

LEMMA CallStep ==
  ASSUME IInv, NEW c \in Callers, NEW s \in Slots, NEW m \in Methods, Call(c, s, m)
  PROVE  IInv' /\ Store!Invoke(c, s, m)
<1> DEFINE w == [from |-> c, m |-> m, request |-> RequestOf(m), at |-> "sent", left |-> {},
                 answer |-> Nothing, retries |-> 0]
<1>1. /\ wire' = [wire EXCEPT ![s] = w] /\ UNCHANGED <<program, objects, revision>>
      /\ ~Calling(c) /\ wire[s].at = "free" /\ ~Malformed(RequestOf(m))
  BY DEF Call, At
<1>2. /\ IsSlot(w) /\ IsBusy(w)
      /\ Promise(w) = [from |-> c, m |-> m, at |-> "open", left |-> {}, answer |-> Nothing,
                       retries |-> 0]
  BY <1>1, Stages, ClientAssumption DEF IsSlot, IsBusy, Promise, Over, SlotFields
<1> HIDE DEF w
<1>3. IInv' /\ Operations' = [Operations EXCEPT ![s] = Promise(w)]
  BY <1>1, <1>2, QuietKeeps
<1>4. Operations[s].at = "free"
  BY <1>1, Stages DEF Promise, Operations
<1>5. \A t \in Slots : Operations[t].from # c
  BY <1>1 DEF Operations, Promise, Calling
<1>6. Store!Addressed(m)
  BY <1>1, MalformedUnaddressed, ClientAssumption
<1> QED
  BY <1>1, <1>2, <1>3, <1>4, <1>5, <1>6 DEF Store!Invoke

LEMMA ServeStep ==
  ASSUME IInv, NEW s \in Slots, Serve(s)
  PROVE  IInv' /\ Store!Happens(s)
<1> DEFINE x == wire[s]
           o == Operations[s]
           out == Answer(x.request)
           w == [x EXCEPT !.at = "served", !.answer = out.answer]
           done == [o EXCEPT !.at = "done", !.answer = out.answer]
<1>1. /\ x.at = "sent" /\ ~Collective(x.request) /\ revision < MaxRevision /\ program' = program
      /\ objects' = out.objects /\ revision' = out.revision
      /\ wire' = [wire EXCEPT ![s].at = "served", ![s].answer = out.answer]
  BY DEF Serve, At
<1>2. /\ IsBusy(x) /\ Sound(x.m) /\ Over(x, SlotFields) /\ Over(o, OpFields)
      /\ x.from \in Callers \cup {Nobody} /\ x.retries \in 0..MaxRetries
      /\ OpIs(o, x.from, x.m, "open", x.left, x.answer, x.retries)
  BY <1>1, InUse, Stages
<1>3. x.m \in Methods /\ x.m.op # "DeleteCollection" /\ out = Store!Promised(x.m)
  BY <1>1, <1>2, CollectiveMeant, AnswerPromised DEF IsBusy
<1>4. Proceeds(objects, revision, out)
  BY <1>2, <1>3, AnswerProceeds DEF IsBusy
<1>5. wire' = [wire EXCEPT ![s] = w]
  BY <1>1
<1>6. [Operations EXCEPT ![s].at = "done", ![s].answer = out.answer] = [Operations EXCEPT ![s] = done]
  OBVIOUS
<1> HIDE DEF x, o, out
<1>7. /\ SlotIs(w, x.from, x.m, x.request, "served", x.left, out.answer, x.retries)
      /\ OpIs(done, x.from, x.m, "done", x.left, out.answer, x.retries)
  <2>1. SlotIs(w, x.from, x.m, x.request, "served", x.left, out.answer, x.retries)
    BY <1>2, SlotEdits
  <2>2. OpIs(done, o.from, o.m, "done", o.left, out.answer, o.retries)
    BY <1>2, OpEdits
  <2> QED
    BY <1>2, <2>1, <2>2 DEF OpIs
<1> HIDE DEF w, done
<1>8. IsSlot(w) /\ IsBusy(w) /\ Promise(w) = done
  <2>1. OpIs(done, x.from, x.m, Stage["served"], x.left, out.answer, x.retries)
    BY <1>7, Stages
  <2>2. OpIs(Promise(w), x.from, x.m, Stage["served"], x.left, out.answer, x.retries)
    BY <1>7, PromiseIs
  <2>3. Promise(w) = done
    BY <2>1, <2>2, SameOp
  <2> QED
    BY <1>2, <1>7, <2>3 DEF SlotIs, IsSlot, IsBusy
<1>9. AllProper(objects', revision') /\ revision' \in 0..MaxRevision
  BY <1>1, <1>4, ClientAssumption DEF Proceeds, IInv
<1>10. IInv' /\ Operations' = [Operations EXCEPT ![s] = done]
  BY <1>1, <1>5, <1>8, <1>9, SlotKeeps
<1>11. o.at = "open" /\ o.m = x.m
  BY <1>2 DEF OpIs
<1> QED
  BY <1>1, <1>3, <1>6, <1>10, <1>11 DEF Store!Happens, o, x, out

LEMMA ServeCollectionStep ==
  ASSUME IInv, NEW s \in Slots, ServeCollection(s)
  PROVE  IInv' /\ Store!Begins(s)
<1> DEFINE x == wire[s]
           o == Operations[s]
           r == x.request
           m == x.m
           all == Selected(objects, r.resource, r.ns, r.sel)
           w == [x EXCEPT !.at = "deleting", !.left = all]
           op == [o EXCEPT !.at = "deleting", !.left = all]
<1>1. /\ x.at = "sent" /\ Collective(r)
      /\ UNCHANGED <<program, objects, revision>>
      /\ wire' = [wire EXCEPT ![s].at = "deleting", ![s].left = all]
  BY DEF ServeCollection, At
<1>2. /\ IsBusy(x) /\ Sound(x.m) /\ Over(x, SlotFields) /\ Over(o, OpFields)
      /\ x.from \in Callers \cup {Nobody} /\ x.retries \in 0..MaxRetries
      /\ OpIs(o, x.from, x.m, Stage[x.at], x.left, x.answer, x.retries)
  BY <1>1, InUse
<1>3. /\ m.op = "DeleteCollection"
      /\ all = Store!Selected(objects, m.client.resource, m.client.ns, m.sel)
  <2>1. m.op = "DeleteCollection"
    BY <1>1, <1>2, CollectiveMeant DEF IsBusy
  <2>2. Says(r, m, "DELETE", FALSE, "") /\ r.sel = m.sel
    BY <1>2, <2>1, RequestsSay DEF IsBusy
  <2> QED
    BY <2>1, <2>2, SameOperations DEF Says
<1>4. wire' = [wire EXCEPT ![s] = w]
  BY <1>1
<1>5. [Operations EXCEPT ![s].at = "deleting", ![s].left = all] = [Operations EXCEPT ![s] = op]
  OBVIOUS
<1> HIDE DEF x, o, all, r, m
<1>6. /\ SlotIs(w, x.from, x.m, x.request, "deleting", all, x.answer, x.retries)
      /\ OpIs(op, x.from, x.m, "deleting", all, x.answer, x.retries)
  <2>1. SlotIs(w, x.from, x.m, x.request, "deleting", all, x.answer, x.retries)
    BY <1>2, SlotEdits
  <2>2. OpIs(op, o.from, o.m, "deleting", all, o.answer, o.retries)
    BY <1>2, OpEdits
  <2> QED
    BY <1>1, <1>2, <2>1, <2>2, Stages DEF OpIs
<1> HIDE DEF w, op
<1>7. IsSlot(w) /\ IsBusy(w) /\ Promise(w) = op
  <2>1. OpIs(op, x.from, x.m, Stage["deleting"], all, x.answer, x.retries)
    BY <1>6, Stages
  <2>2. OpIs(Promise(w), x.from, x.m, Stage["deleting"], all, x.answer, x.retries)
    BY <1>6, PromiseIs
  <2>3. Promise(w) = op
    BY <2>1, <2>2, SameOp
  <2> QED
    BY <1>2, <1>6, <2>3 DEF SlotIs, IsSlot, IsBusy
<1>8. IInv' /\ Operations' = [Operations EXCEPT ![s] = op]
  BY <1>1, <1>4, <1>7, QuietKeeps
<1> QED
  BY <1>1, <1>2, <1>3, <1>5, <1>8, Stages DEF OpIs, Store!Begins, o, m

LEMMA DeletedAllStep ==
  ASSUME IInv, NEW s \in Slots, DeletedAll(s)
  PROVE  IInv' /\ Store!DeletedAll(s)
<1> DEFINE x == wire[s]
           o == Operations[s]
           ok == [err |-> "", value |-> Nothing]
           w == [x EXCEPT !.at = "served", !.answer = ok]
           op == [o EXCEPT !.at = "done", !.answer = ok]
<1>1. /\ x.at = "deleting" /\ x.left = {}
      /\ UNCHANGED <<program, objects, revision>>
      /\ wire' = [wire EXCEPT ![s].at = "served", ![s].answer = ok]
  BY DEF DeletedAll, At
<1>2. /\ IsBusy(x) /\ Sound(x.m) /\ Over(x, SlotFields) /\ Over(o, OpFields)
      /\ x.from \in Callers \cup {Nobody} /\ x.retries \in 0..MaxRetries
      /\ OpIs(o, x.from, x.m, Stage[x.at], x.left, x.answer, x.retries)
  BY <1>1, InUse
<1>3. wire' = [wire EXCEPT ![s] = w]
  BY <1>1
<1>4. [Operations EXCEPT ![s].at = "done", ![s].answer = ok] = [Operations EXCEPT ![s] = op]
  OBVIOUS
<1> HIDE DEF x, o, ok
<1>5. /\ SlotIs(w, x.from, x.m, x.request, "served", x.left, ok, x.retries)
      /\ OpIs(op, x.from, x.m, "done", x.left, ok, x.retries)
  <2>1. SlotIs(w, x.from, x.m, x.request, "served", x.left, ok, x.retries)
    BY <1>2, SlotEdits
  <2>2. OpIs(op, o.from, o.m, "done", o.left, ok, o.retries)
    BY <1>2, OpEdits
  <2> QED
    BY <1>1, <1>2, <2>1, <2>2, Stages DEF OpIs
<1> HIDE DEF w, op
<1>6. IsSlot(w) /\ IsBusy(w) /\ Promise(w) = op
  <2>1. OpIs(op, x.from, x.m, Stage["served"], x.left, ok, x.retries)
    BY <1>5, Stages
  <2>2. OpIs(Promise(w), x.from, x.m, Stage["served"], x.left, ok, x.retries)
    BY <1>5, PromiseIs
  <2>3. Promise(w) = op
    BY <2>1, <2>2, SameOp
  <2> QED
    BY <1>2, <1>5, <2>3 DEF SlotIs, IsSlot, IsBusy
<1>7. IInv' /\ Operations' = [Operations EXCEPT ![s] = op]
  BY <1>1, <1>3, <1>6, QuietKeeps
<1> QED
  BY <1>1, <1>2, <1>4, <1>7, Stages DEF OpIs, Store!DeletedAll, o, ok

LEMMA PostponeStep ==
  ASSUME IInv, NEW s \in Slots, Postpone(s)
  PROVE  IInv' /\ Store!IsPostponed(s)
<1> DEFINE x == wire[s]
           o == Operations[s]
           w == [x EXCEPT !.at = "served", !.left = {}, !.answer = TryAgain]
           op == [o EXCEPT !.at = "done", !.left = {}, !.answer = TryAgain]
<1>1. /\ x.at \in {"sent", "deleting", "served"}
      /\ UNCHANGED <<program, objects, revision>>
      /\ wire' = [wire EXCEPT ![s] = [@ EXCEPT !.at = "served", !.left = {}, !.answer = TryAgain]]
  BY DEF Postpone, At
<1>2. /\ IsBusy(x) /\ Sound(x.m) /\ Over(x, SlotFields) /\ Over(o, OpFields)
      /\ x.from \in Callers \cup {Nobody} /\ x.retries \in 0..MaxRetries
      /\ OpIs(o, x.from, x.m, Stage[x.at], x.left, x.answer, x.retries)
  BY <1>1, InUse
<1>3. wire' = [wire EXCEPT ![s] = w]
  BY <1>1
<1>4. [Operations EXCEPT ![s] = [@ EXCEPT !.at = "done", !.left = {}, !.answer = TryAgain]]
        = [Operations EXCEPT ![s] = op]
  OBVIOUS
<1> HIDE DEF x, o
<1>5. /\ SlotIs(w, x.from, x.m, x.request, "served", {}, TryAgain, x.retries)
      /\ OpIs(op, x.from, x.m, "done", {}, TryAgain, x.retries)
  <2>1. SlotIs(w, x.from, x.m, x.request, "served", {}, TryAgain, x.retries)
    BY <1>2, SlotEdits
  <2>2. OpIs(op, o.from, o.m, "done", {}, TryAgain, o.retries)
    BY <1>2, OpEdits
  <2> QED
    BY <1>1, <1>2, <2>1, <2>2, Stages DEF OpIs
<1> HIDE DEF w, op
<1>6. IsSlot(w) /\ IsBusy(w) /\ Promise(w) = op
  <2>1. OpIs(op, x.from, x.m, Stage["served"], {}, TryAgain, x.retries)
    BY <1>5, Stages
  <2>2. OpIs(Promise(w), x.from, x.m, Stage["served"], {}, TryAgain, x.retries)
    BY <1>5, PromiseIs
  <2>3. Promise(w) = op
    BY <2>1, <2>2, SameOp
  <2> QED
    BY <1>2, <1>5, <2>3 DEF SlotIs, IsSlot, IsBusy
<1>7. IInv' /\ Operations' = [Operations EXCEPT ![s] = op]
  BY <1>1, <1>3, <1>6, QuietKeeps
<1> QED
  BY <1>1, <1>2, <1>4, <1>7, Stages DEF OpIs, Stage, Store!IsPostponed, Store!TryAgain, TryAgain, o

LEMMA RetryStep ==
  ASSUME IInv, NEW s \in Slots, Retry(s)
  PROVE  IInv' /\ Store!HappensAgain(s)
<1> DEFINE x == wire[s]
           o == Operations[s]
           n == x.retries + 1
           w == [x EXCEPT !.at = "sent", !.left = {}, !.answer = Nothing, !.retries = n]
           op == [o EXCEPT !.at = "open", !.left = {}, !.answer = Nothing, !.retries = n]
<1>1. /\ \/ x.at = "served" /\ x.answer = TryAgain
         \/ x.at \in {"sent", "served"} /\ x.request.verb = "GET"
      /\ ~(n >= MaxRetries) /\ UNCHANGED <<program, objects, revision>>
      /\ wire' = [wire EXCEPT ![s] = [@ EXCEPT !.at = "sent", !.left = {}, !.answer = Nothing,
                                               !.retries = n]]
  BY DEF Retry, LastTry, ToldToWait, Reset, At
<1>2. /\ IsBusy(x) /\ Sound(x.m) /\ Over(x, SlotFields) /\ Over(o, OpFields)
      /\ x.from \in Callers \cup {Nobody} /\ x.retries \in 0..MaxRetries
      /\ OpIs(o, x.from, x.m, Stage[x.at], x.left, x.answer, x.retries)
  BY <1>1, InUse
<1>3. n < MaxRetries /\ n \in 0..MaxRetries
  <2> HIDE DEF x
  <2> QED
    BY <1>1, <1>2, Below, ClientAssumption
<1>4. x.m.op \in Store!Reads \/ (o.at = "done" /\ o.answer = TryAgain)
  <2> HIDE DEF x, o, n
  <2>1. CASE x.at = "served" /\ x.answer = TryAgain
    BY <1>2, <2>1, Stages DEF OpIs
  <2>2. CASE x.request.verb = "GET"
    BY <1>2, <2>2, GetReads DEF IsBusy
  <2> QED
    BY <1>1, <2>1, <2>2
<1>5. wire' = [wire EXCEPT ![s] = w]
  BY <1>1
<1>6. [Operations EXCEPT ![s] = [@ EXCEPT !.at = "open", !.left = {}, !.answer = Nothing,
                                          !.retries = n]]
        = [Operations EXCEPT ![s] = op]
  OBVIOUS
<1>7. o.at # "free" /\ o.retries = x.retries /\ o.m = x.m
  <2> HIDE DEF x, o, n
  <2> QED
    BY <1>1, <1>2, Stages DEF OpIs
<1> HIDE DEF x, o, n
<1>8. /\ SlotIs(w, x.from, x.m, x.request, "sent", {}, Nothing, n)
      /\ OpIs(op, x.from, x.m, "open", {}, Nothing, n)
  <2>1. SlotIs(w, x.from, x.m, x.request, "sent", {}, Nothing, n)
    BY <1>2, SlotEdits
  <2>2. OpIs(op, o.from, o.m, "open", {}, Nothing, n)
    BY <1>2, OpEdits
  <2> QED
    BY <1>2, <2>1, <2>2 DEF OpIs
<1> HIDE DEF w, op
<1>9. IsSlot(w) /\ IsBusy(w) /\ Promise(w) = op
  <2>1. OpIs(op, x.from, x.m, Stage["sent"], {}, Nothing, n)
    BY <1>8, Stages
  <2>2. OpIs(Promise(w), x.from, x.m, Stage["sent"], {}, Nothing, n)
    BY <1>8, PromiseIs
  <2>3. Promise(w) = op
    BY <2>1, <2>2, SameOp
  <2> QED
    BY <1>2, <1>3, <1>8, <2>3 DEF SlotIs, IsSlot, IsBusy
<1>10. IInv' /\ Operations' = [Operations EXCEPT ![s] = op]
  BY <1>1, <1>5, <1>9, QuietKeeps
<1>11. n = o.retries + 1
  BY <1>7 DEF n
<1>12. UNCHANGED <<objects, revision>>
  BY <1>1
<1>13. Operations' = [Operations EXCEPT ![s] = [@ EXCEPT !.at = "open", !.left = {},
                        !.answer = Nothing, !.retries = Operations[s].retries + 1]]
  BY <1>6, <1>10, <1>11 DEF o
<1> QED
  BY <1>3, <1>4, <1>7, <1>10, <1>11, <1>12, <1>13
  DEF Store!HappensAgain, Store!TryAgain, TryAgain, o

LEMMA TimeOutStep ==
  ASSUME IInv, NEW s \in Slots, TimeOut(s)
  PROVE  IInv' /\ Store!GivesUp(s)
<1> DEFINE x == wire[s]
           o == Operations[s]
           w == [x EXCEPT !.from = Nobody]
           op == [o EXCEPT !.from = Nobody]
<1>1. /\ x.at \in {"sent", "deleting"}
      /\ UNCHANGED <<program, objects, revision>>
      /\ wire' = [wire EXCEPT ![s].from = Nobody]
  BY DEF TimeOut, At
<1>2. /\ IsBusy(x) /\ Sound(x.m) /\ Over(x, SlotFields) /\ Over(o, OpFields)
      /\ x.from \in Callers \cup {Nobody} /\ x.retries \in 0..MaxRetries
      /\ OpIs(o, x.from, x.m, Stage[x.at], x.left, x.answer, x.retries)
  BY <1>1, InUse
<1>3. wire' = [wire EXCEPT ![s] = w]
  BY <1>1
<1>4. [Operations EXCEPT ![s].from = Nobody] = [Operations EXCEPT ![s] = op]
  OBVIOUS
<1> HIDE DEF x, o
<1>5. /\ SlotIs(w, Nobody, x.m, x.request, x.at, x.left, x.answer, x.retries)
      /\ OpIs(op, Nobody, x.m, Stage[x.at], x.left, x.answer, x.retries)
  <2>1. SlotIs(w, Nobody, x.m, x.request, x.at, x.left, x.answer, x.retries)
    BY <1>2, SlotEdits
  <2>2. OpIs(op, Nobody, o.m, o.at, o.left, o.answer, o.retries)
    BY <1>2, OpEdits
  <2> QED
    BY <1>1, <1>2, <2>1, <2>2, Stages DEF OpIs
<1> HIDE DEF w, op
<1>6. IsSlot(w) /\ IsBusy(w) /\ Promise(w) = op
  <2>1. OpIs(op, Nobody, x.m, Stage[x.at], x.left, x.answer, x.retries)
    BY <1>5, Stages
  <2>2. OpIs(Promise(w), Nobody, x.m, Stage[x.at], x.left, x.answer, x.retries)
    BY <1>5, PromiseIs
  <2>3. Promise(w) = op
    BY <2>1, <2>2, SameOp
  <2> QED
    BY <1>1, <1>2, <1>5, <2>3 DEF SlotIs, IsSlot, IsBusy
<1>7. IInv' /\ Operations' = [Operations EXCEPT ![s] = op]
  BY <1>1, <1>3, <1>6, QuietKeeps
<1> QED
  BY <1>1, <1>2, <1>4, <1>7, Stages DEF OpIs, Store!GivesUp, o

LEMMA DeleteNextStep ==
  ASSUME IInv, NEW s \in Slots, DeleteNext(s)
  PROVE  IInv' /\ Store!DeletesOne(s)
<1> DEFINE x == wire[s]
           o == Operations[s]
<1>1. PICK k \in x.left :
        /\ objects' = Removed(objects, revision, k).objects
        /\ revision' = Removed(objects, revision, k).revision
        /\ wire' = [wire EXCEPT ![s].left = @ \ {k}]
  BY DEF DeleteNext
<1> DEFINE out == Removed(objects, revision, k)
           rest == x.left \ {k}
           w == [x EXCEPT !.left = rest]
           op == [o EXCEPT !.left = o.left \ {k}]
<1>2. x.at = "deleting" /\ revision < MaxRevision /\ program' = program
  BY DEF DeleteNext, At
<1>3. /\ IsBusy(x) /\ Sound(x.m) /\ Over(x, SlotFields) /\ Over(o, OpFields)
      /\ x.from \in Callers \cup {Nobody} /\ x.retries \in 0..MaxRetries
      /\ OpIs(o, x.from, x.m, "deleting", x.left, x.answer, x.retries)
  BY <1>2, InUse, Stages
<1>4. Proceeds(objects, revision, out) /\ out = Store!Removed(objects, revision, k)
  BY RemovedProceeds, SameOperations, ClientAssumption DEF IInv
<1>5. wire' = [wire EXCEPT ![s] = w]
  BY <1>1
<1>6. [Operations EXCEPT ![s].left = @ \ {k}] = [Operations EXCEPT ![s] = op]
  OBVIOUS
<1> HIDE DEF x, o, out
<1>7. /\ SlotIs(w, x.from, x.m, x.request, "deleting", rest, x.answer, x.retries)
      /\ OpIs(op, x.from, x.m, "deleting", rest, x.answer, x.retries)
  <2>1. SlotIs(w, x.from, x.m, x.request, x.at, rest, x.answer, x.retries)
    BY <1>3, SlotEdits
  <2>2. OpIs(op, o.from, o.m, o.at, o.left \ {k}, o.answer, o.retries)
    BY <1>3, OpEdits
  <2> QED
    BY <1>2, <1>3, <2>1, <2>2 DEF OpIs
<1> HIDE DEF w, op, rest
<1>8. IsSlot(w) /\ IsBusy(w) /\ Promise(w) = op
  <2>1. OpIs(op, x.from, x.m, Stage["deleting"], rest, x.answer, x.retries)
    BY <1>7, Stages
  <2>2. OpIs(Promise(w), x.from, x.m, Stage["deleting"], rest, x.answer, x.retries)
    BY <1>7, PromiseIs
  <2>3. Promise(w) = op
    BY <2>1, <2>2, SameOp
  <2> QED
    BY <1>3, <1>7, <2>3 DEF SlotIs, IsSlot, IsBusy
<1>9. AllProper(objects', revision') /\ revision' \in 0..MaxRevision
  BY <1>1, <1>2, <1>4, ClientAssumption DEF Proceeds, IInv, out
<1>10. IInv' /\ Operations' = [Operations EXCEPT ![s] = op]
  BY <1>2, <1>5, <1>8, <1>9, SlotKeeps
<1>11. o.at = "deleting" /\ k \in o.left
  BY <1>1, <1>3 DEF OpIs
<1> QED
  BY <1>1, <1>4, <1>6, <1>10, <1>11 DEF Store!DeletesOne, o, out

\* An answer that arrives and one that gets lost leave the slot free.
LEMMA EndStep ==
  ASSUME IInv, NEW s \in Slots, Lose(s) \/ Return(s)
  PROVE  IInv' /\ Store!Ends(s)
<1>1. /\ wire[s].at \in {"sent", "served", "deleting"} /\ UNCHANGED <<program, objects, revision>>
      /\ wire' = [wire EXCEPT ![s] = Free]
  BY DEF Lose, Return, At, IInv, IsSlot
<1>2. IInv' /\ Operations' = [Operations EXCEPT ![s] = Store!Free]
  BY <1>1, FreePromised, QuietKeeps
<1>3. Operations[s].at # "free"
  BY <1>1, InUse, Stages DEF OpIs
<1> QED
  BY <1>1, <1>2, <1>3 DEF Store!Ends

LEMMA NextHolds == IInv /\ [Next]_vars => IInv' /\ [Store!Next]_(Store!vars)
<1> SUFFICES ASSUME IInv, [Next]_vars PROVE IInv' /\ [Store!Next]_(Store!vars)
  OBVIOUS
<1>1. CASE UNCHANGED vars
  BY <1>1 DEF vars, IInv, Operations, Store!vars
<1>2. CASE Next
  <2>1. PICK s \in Slots :
          \/ \E c \in Callers, m \in Methods : Call(c, s, m)
          \/ Serve(s) \/ ServeCollection(s) \/ DeleteNext(s) \/ DeletedAll(s) \/ Postpone(s)
          \/ Retry(s) \/ Lose(s) \/ TimeOut(s) \/ Return(s)
    BY <1>2 DEF Next
  <2>2. /\ IInv'
        /\ \/ \E c \in Callers, m \in Methods : Store!Invoke(c, s, m)
           \/ Store!Happens(s) \/ Store!Begins(s) \/ Store!DeletesOne(s) \/ Store!DeletedAll(s)
           \/ Store!IsPostponed(s) \/ Store!HappensAgain(s) \/ Store!GivesUp(s) \/ Store!Ends(s)
    BY <2>1, CallStep, ServeStep, ServeCollectionStep, DeleteNextStep, DeletedAllStep,
       PostponeStep, RetryStep, TimeOutStep, EndStep
  <2> QED
    BY <2>2 DEF Store!Next
<1> QED
  BY <1>1, <1>2

--------------------------------------------------------------------------------
(* One object written by two.                                                  *)

\* What the replacement with o makes of an object.
PartOnly(sub, o, old, new) ==
  new # old =>
    /\ o.rv = old.rv
    /\ sub # "status" => new.status = old.status
    /\ sub = "status" => new = [old EXCEPT !.status = new.status, !.rv = new.rv]

\* What a replacement changes is the one object, and of it what its endpoint is for.
LEMMA ReplacedMeans ==
  ASSUME NEW objs, NEW rev, AllProper(objs, rev), NEW key, NEW sub, NEW o, IsObject(o),
         NEW k \in DOMAIN objs
  PROVE  PartOnly(sub, o, objs[k], Replaced(objs, rev, key, sub, o).objects[k])
<1> DEFINE after == Replaced(objs, rev, key, sub, o).objects
<1> SUFFICES ASSUME after # objs, after[k] # objs[k]
             PROVE  /\ o.rv = objs[k].rv
                    /\ sub # "status" => after[k].status = objs[k].status
                    /\ sub = "status" =>
                         after[k] = [objs[k] EXCEPT !.status = after[k].status, !.rv = after[k].rv]
  BY DEF PartOnly
<1> DEFINE new == IF sub = "status" THEN [objs[key] EXCEPT !.status = o.status]
                  ELSE [o EXCEPT !.status = objs[key].status]
           stamped == [new EXCEPT !.rv = rev + 1]
<1>1. key \in DOMAIN objs /\ o.rv = objs[key].rv /\ after = Stored(objs, rev, key, new).objects
  BY DEF Replaced, Refused, Outcome
<1>2. after = With(objs, key, stamped)
  <2> HIDE DEF new
  <2>1. Stored(objs, rev, key, new) = IF new = objs[key] THEN Outcome(objs, rev, "", new)
                                      ELSE Outcome(With(objs, key, stamped), rev + 1, "", stamped)
    BY <1>1 DEF Stored
  <2> HIDE DEF stamped, after
  <2>2. CASE new = objs[key]
    <3>1. after = Outcome(objs, rev, "", new).objects
      BY <1>1, <2>1, <2>2
    <3> QED
      BY <3>1 DEF Outcome
  <2>3. CASE new # objs[key]
    <3>1. after = Outcome(With(objs, key, stamped), rev + 1, "", stamped).objects
      BY <1>1, <2>1, <2>3
    <3> QED
      BY <3>1 DEF Outcome
  <2> QED
    BY <2>2, <2>3
<1>3. IsObject(objs[key])
  BY <1>1 DEF AllProper
<1>4. CASE k # key
  BY <1>2, <1>4 DEF With
<1>5. CASE k = key
  <2>1. k \in DOMAIN after /\ after[k] = stamped
    BY <1>1, <1>2, <1>5 DEF With
  <2>2. CASE sub # "status"
    <3>1. stamped.status = objs[key].status
      BY <2>2 DEF IsObject, Object
    <3> QED
      BY <1>1, <1>5, <2>1, <2>2, <3>1
  <2>3. CASE sub = "status"
    <3> DEFINE old == objs[key]
    <3>1. stamped = [[old EXCEPT !.status = o.status] EXCEPT !.rv = rev + 1]
      BY <2>3
    <3>2. stamped.status = o.status /\ stamped.rv = rev + 1
      BY <1>3, <3>1 DEF IsObject, Object
    <3>3. [[old EXCEPT !.status = o.status] EXCEPT !.rv = rev + 1]
            = [old EXCEPT !.status = o.status, !.rv = rev + 1]
      OBVIOUS
    <3> HIDE DEF new, stamped, old
    <3>4. stamped = [old EXCEPT !.status = stamped.status, !.rv = stamped.rv]
      BY <3>1, <3>2, <3>3
    <3> QED
      BY <1>1, <1>5, <2>1, <2>3, <3>4 DEF old
  <2> QED
    BY <2>2, <2>3
<1> QED
  BY <1>4, <1>5

Written(s) ==
  Serve(s) /\ wire[s].m.op \in {"Update", "UpdateStatus"} =>
    \A k \in DOMAIN objects :
      k \in DOMAIN objects' /\ objects'[k] # objects[k] =>
        /\ wire[s].m.body.object.rv = objects[k].rv
        /\ wire[s].m.op = "Update" => objects'[k].status = objects[k].status
        /\ wire[s].m.op = "UpdateStatus" =>
             objects'[k] = [objects[k] EXCEPT !.status = objects'[k].status, !.rv = objects'[k].rv]

LEMMA SeenWritten == IInv => \A s \in Slots : Written(s)
<1> SUFFICES ASSUME IInv, NEW s \in Slots, Serve(s), wire[s].m.op \in {"Update", "UpdateStatus"},
                    NEW k \in DOMAIN objects, k \in DOMAIN objects', objects'[k] # objects[k]
             PROVE  /\ wire[s].m.body.object.rv = objects[k].rv
                    /\ wire[s].m.op = "Update" => objects'[k].status = objects[k].status
                    /\ wire[s].m.op = "UpdateStatus" =>
                         objects'[k] = [objects[k] EXCEPT !.status = objects'[k].status,
                                                          !.rv = objects'[k].rv]
  BY DEF Written
<1> DEFINE x == wire[s]
           m == x.m
           o == m.body.object
           sub == IF m.op = "Update" THEN "" ELSE "status"
           key == <<m.client.resource, m.client.ns, m.name>>
<1>1. x.at = "sent" /\ objects' = Answer(x.request).objects
  BY DEF Serve, At
<1>2. Sound(m) /\ x.request = RequestOf(m) /\ ~Malformed(RequestOf(m))
  BY <1>1, InUse DEF IsBusy
<1>3. Answer(RequestOf(m)) = Store!Promised(m)
  BY <1>2, AnswerPromised
<1>4. Store!Promised(m) = Replaced(objects, revision, key, sub, o)
  BY SameOperations DEF Store!Promised
<1>5. IsObject(o) /\ AllProper(objects, revision)
  BY <1>2 DEF Sound, IInv
<1>6. (m.op = "Update" <=> sub # "status") /\ (m.op = "UpdateStatus" <=> sub = "status")
  OBVIOUS
<1>7. objects' = Replaced(objects, revision, key, sub, o).objects
  BY <1>1, <1>2, <1>3, <1>4
<1> HIDE DEF sub, key, o
<1>8. PartOnly(sub, o, objects[k], Replaced(objects, revision, key, sub, o).objects[k])
  BY <1>5, ReplacedMeans
<1> QED
  BY <1>6, <1>7, <1>8 DEF o, PartOnly

--------------------------------------------------------------------------------

\* The inductive invariant: a request on its way is the one its method's call builds and
\* may be sent, and every object in the store is one that a write so far made.
THEOREM InvariantHolds == Spec => []IInv
<1>1. Init => IInv
  BY InitHolds
<1>2. IInv /\ [Next]_vars => IInv'
  BY NextHolds
<1> QED
  BY <1>1, <1>2, PTL DEF Spec

\* Type correctness: what the server stores and what is on the wire stay what they are,
\* whatever the callers' programs.
THEOREM TypeCorrect == Spec => []TypeOK
BY InvariantHolds, TypesHold, PTL

\* The methods of the generated clients (typed/kubevirt/v1/*.go) keep what their
\* interfaces promise, in every step of any callers: the request a method builds means
\* what its name says in each of its tries, however they are lost or given up, and only a
\* read or what the server asks for is tried again.
THEOREM MethodsKeepPromises == Spec => MethodsKept
<1>1. Init => IInv /\ Store!Init
  BY InitHolds
<1>2. IInv /\ [Next]_vars => IInv' /\ [Store!Next]_(Store!vars)
  BY NextHolds
<1> QED
  BY <1>1, <1>2, PTL DEF Spec, MethodsKept, Store!Spec

\* No update is lost to another one's: Update and UpdateStatus replace the version of the
\* object their caller had, and keep the part that the other is for.
THEOREM NothingOverwritten == Spec => SeenBeforeWritten
<1>1. IInv => [\A s \in Slots : Written(s)]_vars
  BY SeenWritten
<1>2. Spec => [][\A s \in Slots : Written(s)]_vars
  BY <1>1, InvariantHolds, PTL
<1> QED
  BY <1>2 DEF Written, SeenBeforeWritten

================================================================================
