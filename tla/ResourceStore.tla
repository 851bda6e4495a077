------------------------------ MODULE ResourceStore ------------------------------
(***************************************************************************)
(* What the interfaces of the typed clients promise: each method is one    *)
(* operation on the objects of its resource and namespace.  If the method  *)
(* returns without an error it happened, before that; if not, it may have  *)
(* happened or may happen yet.  It happens again only if it just reads, or *)
(* if the server asked for another try, in one of MaxTries tries at most.  *)
(*                                                                         *)
(* A method call is [op, client, name, body, sel, sub, data].              *)
(***************************************************************************)
EXTENDS ApiObjects

CONSTANTS
  Callers,     \* goroutines
  Nobody,      \* whoever called has returned with an error
  Slots,       \* operations under way
  Methods,     \* the method calls that are made
  MaxTries,    \* tries of a method call
  MaxRevision  \* bound

VARIABLES objects, revision,
          ops  \* ops[s]: the operation in slot s, or Free

vars == <<objects, revision, ops>>

Free == [from |-> Nobody, m |-> Nothing, at |-> "free", left |-> {}, answer |-> Nothing, retries |-> 0]

Reads == {"Get", "List"}

\* An operation on one object needs a name and a namespace.
Addressed(m) ==
  CASE m.op \in {"List", "DeleteCollection"} -> TRUE
    [] m.op = "Patch" -> m.name # ""
    [] m.op = "Create" -> m.client.ns # ""
    [] OTHER -> m.name # "" /\ m.client.ns # ""

Promised(m) ==
  LET k == <<m.client.resource, m.client.ns, m.name>>
  IN CASE m.op = "Get" -> Read(objects, revision, k)
       [] m.op = "List" -> Listed(objects, revision, m.client.resource, m.client.ns, m.sel)
       [] m.op = "Create" -> Inserted(objects, revision, k, m.body.object)
       [] m.op = "Update" -> Replaced(objects, revision, k, "", m.body.object)
       [] m.op = "UpdateStatus" -> Replaced(objects, revision, k, "status", m.body.object)
       [] m.op = "Patch" -> Patched(objects, revision, k, m.sub, m.data)
       [] m.op = "Delete" -> Removed(objects, revision, k)

Invoke(c, s, m) ==
  /\ \A t \in Slots : ops[t].from # c
  /\ ops[s].at = "free" /\ Addressed(m)
  /\ ops' = [ops EXCEPT ![s] = [from |-> c, m |-> m, at |-> "open", left |-> {}, answer |-> Nothing,
                                 retries |-> 0]]
  /\ UNCHANGED <<objects, revision>>

Happens(s) ==
  /\ ops[s].at = "open" /\ ops[s].m.op # "DeleteCollection"
  /\ LET out == Promised(ops[s].m)
     IN /\ objects' = out.objects /\ revision' = out.revision
        /\ ops' = [ops EXCEPT ![s].at = "done", ![s].answer = out.answer]

\* A collection is deleted object by object: what is selected when it begins.
Begins(s) ==
  /\ ops[s].at = "open" /\ ops[s].m.op = "DeleteCollection"
  /\ ops' = [ops EXCEPT ![s].at = "deleting",
       ![s].left = Selected(objects, ops[s].m.client.resource, ops[s].m.client.ns, ops[s].m.sel)]
  /\ UNCHANGED <<objects, revision>>

DeletesOne(s) ==
  /\ ops[s].at = "deleting"
  /\ \E k \in ops[s].left :
       LET out == Removed(objects, revision, k)
       IN /\ objects' = out.objects /\ revision' = out.revision
          /\ ops' = [ops EXCEPT ![s].left = @ \ {k}]

DeletedAll(s) ==
  /\ ops[s].at = "deleting" /\ ops[s].left = {}
  /\ ops' = [ops EXCEPT ![s].at = "done", ![s].answer = [err |-> "", value |-> Nothing]]
  /\ UNCHANGED <<objects, revision>>

\* The server does not do it, or breaks off, or says so after it was done, and asks for
\* another try.
TryAgain == [err |-> "TryAgain", value |-> Nothing]
IsPostponed(s) ==
  /\ ops[s].at # "free"
  /\ ops' = [ops EXCEPT ![s] = [@ EXCEPT !.at = "done", !.left = {}, !.answer = TryAgain]]
  /\ UNCHANGED <<objects, revision>>

\* What has happened may happen again, and a collection's selection is then made anew.
HappensAgain(s) ==
  /\ ops[s].at # "free" /\ ops[s].retries + 1 < MaxTries
  /\ ops[s].m.op \in Reads \/ (ops[s].at = "done" /\ ops[s].answer = TryAgain)
  /\ ops' = [ops EXCEPT ![s] = [@ EXCEPT !.at = "open", !.left = {}, !.answer = Nothing,
                                         !.retries = ops[s].retries + 1]]
  /\ UNCHANGED <<objects, revision>>

\* The caller returns with an error and the operation may go on, or does not happen.
GivesUp(s) ==
  /\ ops[s].at # "free"
  /\ ops' = [ops EXCEPT ![s].from = Nobody]
  /\ UNCHANGED <<objects, revision>>

Ends(s) ==
  /\ ops[s].at # "free"
  /\ ops' = [ops EXCEPT ![s] = Free]
  /\ UNCHANGED <<objects, revision>>

Init == /\ objects = <<>> /\ revision = 0
        /\ ops = [s \in Slots |-> Free]

Next == \E s \in Slots :
  \/ \E c \in Callers, m \in Methods : Invoke(c, s, m)
  \/ Happens(s) \/ Begins(s) \/ DeletesOne(s) \/ DeletedAll(s) \/ IsPostponed(s)
  \/ HappensAgain(s) \/ GivesUp(s) \/ Ends(s)

Spec == Init /\ [][Next]_vars

================================================================================
