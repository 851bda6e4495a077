------------------------------- MODULE TypedClient -------------------------------
(***************************************************************************)
(* Goroutines call the methods of the typed clients, whose requests travel *)
(* to the API server and back: answers get lost, the REST client sends     *)
(* requests again, writes too if the server's answer says when (429 or 5xx *)
(* with Retry-After), and callers time out while theirs is on its way.     *)
(*                                                                         *)
(* Assumed: a server that says when to try again is done with the request, *)
(* whether it has served it or not.                                        *)
(***************************************************************************)
EXTENDS Requests

CONSTANTS Callers, Nobody, Slots,
          Programs,    \* programs: which method calls each caller makes, again and again
          MaxRevision,
          MaxRetries   \* maxRetries of the REST client: how often it sends a request

VARIABLES program,
          objects, revision,
          wire  \* wire[s]: the request in slot s and what became of it, or Free

vars == <<program, objects, revision, wire>>

Methods == UNION {UNION {q[c] : c \in Callers} : q \in Programs}

\* A caller that sends an object calls the method with that object's name.
Sound(m) ==
  /\ m.op \in {"Get", "List", "Create", "Update", "UpdateStatus", "Delete", "DeleteCollection", "Patch"}
  /\ m.op \in {"Create", "Update", "UpdateStatus"} => m.body.name = m.name /\ IsObject(m.body.object)

ASSUME ClientAssumption ==
  /\ Nobody \notin Callers /\ MaxRevision \in Nat /\ MaxRetries \in Nat
  /\ \A m \in Methods : Sound(m)

\* Which request a method call becomes.
RequestOf(m) ==
  CASE m.op = "Get" -> Get(m.client, m.name)
    [] m.op = "List" -> List(m.client, m.sel)
    [] m.op = "Create" -> Create(m.client, m.body)
    [] m.op = "Update" -> Update(m.client, m.body)
    [] m.op = "UpdateStatus" -> UpdateStatus(m.client, m.body)
    [] m.op = "Delete" -> Delete(m.client, m.name)
    [] m.op = "DeleteCollection" -> DeleteCollection(m.client, m.sel)
    [] m.op = "Patch" -> Patch(m.client, m.name, m.data, m.sub)

Free == [from |-> Nobody, m |-> Nothing, request |-> Nothing, at |-> "free", left |-> {},
         answer |-> Nothing, retries |-> 0]

At(s, at) == wire[s].at = at
Calling(c) == \E s \in Slots : wire[s].from = c

\* A malformed request is an error at once and is not sent.
Call(c, s, m) ==
  /\ m \in program[c] /\ ~Calling(c) /\ At(s, "free") /\ ~Malformed(RequestOf(m))
  /\ wire' = [wire EXCEPT ![s] =
       [from |-> c, m |-> m, request |-> RequestOf(m), at |-> "sent", left |-> {},
        answer |-> Nothing, retries |-> 0]]
  /\ UNCHANGED <<program, objects, revision>>

Collective(r) == r.verb = "DELETE" /\ r.name = ""

\* The endpoints of a resource.
Answer(r) ==
  LET k == <<r.resource, r.ns, r.name>>
  IN CASE r.verb = "GET" /\ r.name # "" -> Read(objects, revision, k)
       [] r.verb = "GET" /\ r.name = "" -> Listed(objects, revision, r.resource, r.ns, r.sel)
       [] r.verb = "POST" ->
            Inserted(objects, revision, <<r.resource, r.ns, r.body.name>>, r.body.object)
       [] r.verb = "PUT" -> Replaced(objects, revision, k, r.sub, r.body.object)
       [] r.verb = "PATCH" -> Patched(objects, revision, k, r.sub, r.data)
       [] r.verb = "DELETE" -> Removed(objects, revision, k)

Serve(s) ==
  /\ At(s, "sent") /\ ~Collective(wire[s].request) /\ revision < MaxRevision
  /\ LET out == Answer(wire[s].request)
     IN /\ objects' = out.objects /\ revision' = out.revision
        /\ wire' = [wire EXCEPT ![s].at = "served", ![s].answer = out.answer]
  /\ UNCHANGED program

\* The server lists what a collection's deletion selects and deletes one after the other.
ServeCollection(s) ==
  /\ At(s, "sent") /\ Collective(wire[s].request)
  /\ LET r == wire[s].request
     IN wire' = [wire EXCEPT ![s].at = "deleting",
                             ![s].left = Selected(objects, r.resource, r.ns, r.sel)]
  /\ UNCHANGED <<program, objects, revision>>

DeleteNext(s) ==
  /\ At(s, "deleting") /\ revision < MaxRevision
  /\ \E k \in wire[s].left :
       LET out == Removed(objects, revision, k)
       IN /\ objects' = out.objects /\ revision' = out.revision
          /\ wire' = [wire EXCEPT ![s].left = @ \ {k}]
  /\ UNCHANGED program

DeletedAll(s) ==
  /\ At(s, "deleting") /\ wire[s].left = {}
  /\ wire' = [wire EXCEPT ![s].at = "served", ![s].answer = [err |-> "", value |-> Nothing]]
  /\ UNCHANGED <<program, objects, revision>>

\* The server, or a proxy before it, does not serve the request, breaks off or fails when
\* it has served it, and says when to try again.
TryAgain == [err |-> "TryAgain", value |-> Nothing]
Postpone(s) ==
  /\ At(s, "sent") \/ At(s, "deleting") \/ At(s, "served")
  /\ wire' = [wire EXCEPT ![s] = [@ EXCEPT !.at = "served", !.left = {}, !.answer = TryAgain]]
  /\ UNCHANGED <<program, objects, revision>>

LastTry(s) == wire[s].retries + 1 >= MaxRetries
ToldToWait(s) == At(s, "served") /\ wire[s].answer = TryAgain
Reset(s) == wire[s].request.verb = "GET" /\ (At(s, "sent") \/ At(s, "served"))

\* The request is sent again after an answer with Retry-After, whatever it does, and after
\* the connection was reset, before or after it was served, if it is a GET.
Retry(s) ==
  /\ wire[s].from # Nobody /\ ~LastTry(s)
  /\ ToldToWait(s) \/ Reset(s)
  /\ wire' = [wire EXCEPT ![s] = [@ EXCEPT !.at = "sent", !.left = {}, !.answer = Nothing,
                                           !.retries = wire[s].retries + 1]]
  /\ UNCHANGED <<program, objects, revision>>

\* The request does not arrive, or its answer, or the server fails for good, perhaps with
\* half a collection deleted: an error for the caller.
Lose(s) ==
  /\ ~At(s, "free")
  /\ wire' = [wire EXCEPT ![s] = Free]
  /\ UNCHANGED <<program, objects, revision>>

\* The caller does not wait any longer, but its request is on its way.
TimeOut(s) ==
  /\ At(s, "sent") \/ At(s, "deleting")
  /\ wire[s].from # Nobody
  /\ wire' = [wire EXCEPT ![s].from = Nobody]
  /\ UNCHANGED <<program, objects, revision>>

\* The answer arrives and is decoded into the result, or is the last try's error.
Return(s) ==
  /\ At(s, "served") /\ (ToldToWait(s) => LastTry(s))
  /\ wire' = [wire EXCEPT ![s] = Free]
  /\ UNCHANGED <<program, objects, revision>>

Init == /\ program \in Programs
        /\ objects = <<>> /\ revision = 0
        /\ wire = [s \in Slots |-> Free]

Next == \E s \in Slots :
  \/ \E c \in Callers, m \in Methods : Call(c, s, m)
  \/ Serve(s) \/ ServeCollection(s) \/ DeleteNext(s) \/ DeletedAll(s) \/ Postpone(s)
  \/ Retry(s) \/ Lose(s) \/ TimeOut(s) \/ Return(s)

Spec == Init /\ [][Next]_vars

--------------------------------------------------------------------------------

TypeOK ==
  /\ revision \in 0..MaxRevision
  /\ \A k \in DOMAIN objects :
       IsObject(objects[k]) /\ objects[k].rv \in 1..revision /\ k[2] # "" /\ k[3] # ""
  /\ \A s \in Slots : ~At(s, "free") =>
       /\ wire[s].from \in Callers \cup {Nobody} /\ wire[s].m \in Methods
       /\ wire[s].at \in {"sent", "served", "deleting"} /\ wire[s].retries \in 0..MaxRetries

\* What the promise says of a request's state.
Stage == [free |-> "free", sent |-> "open", served |-> "done", deleting |-> "deleting"]
Promise(w) == [from |-> w.from, m |-> w.m, at |-> Stage[w.at], left |-> w.left,
               answer |-> w.answer, retries |-> w.retries]
Operations == [s \in Slots |-> Promise(wire[s])]

\* Each method does to the cluster's objects what its interface promises, in each of the
\* tries it takes, whatever is lost, sent again or late: the request it builds means what
\* its name says, and only a read or what the server asks for is done again.
Store == INSTANCE ResourceStore WITH
  Methods <- Methods, ops <- Operations, MaxTries <- MaxRetries
MethodsKept == Store!Spec

\* One object written by two: an update or a status update takes the place of the very
\* version its caller had, however late it arrives and however often it is sent, and of
\* its part only.  So it takes effect once: that version does not come back.
SeenBeforeWritten ==
  [][\A s \in Slots : Serve(s) /\ wire[s].m.op \in {"Update", "UpdateStatus"} =>
       \A k \in DOMAIN objects :
         k \in DOMAIN objects' /\ objects'[k] # objects[k] =>
           /\ wire[s].m.body.object.rv = objects[k].rv
           /\ wire[s].m.op = "Update" => objects'[k].status = objects[k].status
           /\ wire[s].m.op = "UpdateStatus" =>
                objects'[k] = [objects[k] EXCEPT !.status = objects'[k].status, !.rv = objects'[k].rv]]_vars

================================================================================
