------------------------------- MODULE K8sStatus -------------------------------
(***************************************************************************)
(* The Ansible module operator_sdk.util.k8s_status, through which every    *)
(* role of the operator writes the status of its custom resource (CR).     *)
(*                                                                         *)
(* One call of the module reads the CR, compares the wanted status with    *)
(* the one it read, merges the wanted conditions into the ones it read and *)
(* sends the result back as a patch of the whole object.  Nothing is       *)
(* locked between the read and the write: what protects the other writers  *)
(* of the status (ansible-operator itself, which keeps a condition Running *)
(* there, other calls of the module) is the resourceVersion the module     *)
(* leaves in the body it sends.                                            *)
(*                                                                         *)
(* A condition's status, reason and message are one `payload'.  `Absent'   *)
(* is a key that is not in a dictionary.                                   *)
(***************************************************************************)
EXTENDS Integers, Sequences

CONSTANTS
  Writers,         \* calls of the module that may be running together
  Types,           \* types of conditions
  Payloads,        \* what a condition says: its status, reason and message
  Times,           \* values of lastTransitionTime
  Fields, Values,  \* the other keys of the status and their values
  Absent,          \* a key that is not there
  Requests,        \* the arguments the module may be called with
  OperatorMarks,   \* the conditions ansible-operator writes by itself
  MaxRv            \* bound: resource versions of the CR

VARIABLES
  server,          \* the CR as the API server stores it
  pc,              \* pc[w]: where call w is
  req,             \* req[w]: its arguments
  snap,            \* snap[w]: the CR it read
  merged,          \* merged[w]: merge_status's list under construction
  idx              \* idx[w]: the next of the new conditions to merge

vars == <<server, pc, req, snap, merged, idx>>
local == <<req, snap, merged, idx>>

Condition == [type : Types, payload : Payloads, ltt : Times \cup {Absent}]
Status == [fields : [Fields -> Values \cup {Absent}], conds : Seq(Condition)]
Request == [force : BOOLEAN, status : Status]
Object == [exists : BOOLEAN, rv : 0..MaxRv, status : Status]

TypesOf(cs) == {cs[i].type : i \in 1..Len(cs)}
Unique(cs) == \A i, j \in 1..Len(cs) : cs[i].type = cs[j].type => i = j

EmptyStatus == [fields |-> [f \in Fields |-> Absent], conds |-> <<>>]

(***************************************************************************)
(* A call names each type of condition at most once, and so does           *)
(* ansible-operator; every role passes one condition, or status fields.    *)
(***************************************************************************)
ASSUME ConstantsAssumption ==
  /\ MaxRv \in Nat
  /\ Absent \notin Times \cup Values \cup Condition
  /\ Requests \subseteq Request
  /\ \A r \in Requests : Unique(r.status.conds)
  /\ OperatorMarks \subseteq Condition

Active == {"get", "merge", "write"}
Ended == {"idle", "unchanged", "changed", "failed"}

TypeOK ==
  /\ server \in Object
  /\ pc \in [Writers -> Active \cup Ended]
  /\ req \in [Writers -> Request]
  /\ snap \in [Writers -> Object]
  /\ merged \in [Writers -> Seq(Condition)]
  /\ idx \in [Writers -> Nat \ {0}]

NoCall == [force |-> FALSE, status |-> EmptyStatus]
NewObject(rv) == [exists |-> TRUE, rv |-> rv, status |-> EmptyStatus]

Init ==
  /\ server = NewObject(0)
  /\ pc = [w \in Writers |-> "idle"]
  /\ req = [w \in Writers |-> NoCall]
  /\ snap = [w \in Writers |-> NewObject(0)]
  /\ merged = [w \in Writers |-> <<>>]
  /\ idx = [w \in Writers |-> 1]

--------------------------------------------------------------------------------
(* The module's own computations.                                          *)

\* clean_last_transition_time, on one condition.
Clean(c) == [c EXCEPT !.ltt = Absent]

\* get_condition_idx: the first entry of that type.
ConditionIdx(cs, t) ==
  CHOOSE i \in 1..Len(cs) : cs[i].type = t /\ \A j \in 1..(i-1) : cs[j].type # t

\* Mutant: the merge appends without looking for the type.
PutCondition_appends(cs, c) == Append(cs, c)

\* One turn of merge_status's loop.
PutCondition(cs, c) ==
  IF c.type \in TypesOf(cs) THEN [cs EXCEPT ![ConditionIdx(cs, c.type)] = c]
                            ELSE Append(cs, c)

\* Mutant: the comparison without clean_last_transition_time.
Contains_uncleaned(old, new) ==
  /\ \A f \in Fields : new.fields[f] # Absent => old.fields[f] = new.fields[f]
  /\ \A i \in 1..Len(new.conds) :
       \E j \in 1..Len(old.conds) : old.conds[j] = new.conds[i]

\* object_contains, on the status cleaned of its transition times: a dictionary
\* contains the keys that are asked for, a list contains the items.
Contains(old, new) ==
  /\ \A f \in Fields : new.fields[f] # Absent => old.fields[f] = new.fields[f]
  /\ \A i \in 1..Len(new.conds) :
       \E j \in 1..Len(old.conds) : Clean(old.conds[j]) = new.conds[i]

\* The test that ends a call with `changed: False'.
NothingToDo(old, r) ==
  IF r.force THEN r.status = old ELSE Contains(old, r.status)

\* Mutant: the wanted conditions are sent instead of the merged ones.
PatchedStatus_unmerged(old, r, conds) ==
  [fields |-> [f \in Fields |-> IF r.status.fields[f] # Absent
                                THEN r.status.fields[f] ELSE old.fields[f]],
   conds |-> IF r.status.conds = <<>> THEN old.conds ELSE r.status.conds]

\* Mutant: the status is replaced by the keys the patch names.
PatchedStatus_partial(old, r, conds) ==
  [fields |-> [f \in {g \in Fields : r.status.fields[g] # Absent} |->
                 r.status.fields[f]],
   conds |-> conds]

\* What the API server makes of the body: a merge patch leaves the keys it does
\* not name and replaces lists whole, a replace leaves nothing.
PatchedStatus(old, r, conds) ==
  IF r.force
  THEN r.status
  ELSE [fields |-> [f \in Fields |-> IF r.status.fields[f] # Absent
                                     THEN r.status.fields[f] ELSE old.fields[f]],
        conds |-> IF r.status.conds = <<>> THEN old.conds ELSE conds]

\* Mutant: the module strips metadata.resourceVersion from the body it sends.
ServerAccepts_unversioned(s, body) == s.exists

\* The API server takes a body only at the resourceVersion it carries.
ServerAccepts(s, body) == s.exists /\ body.rv = s.rv

\* A write that changes nothing leaves the resourceVersion alone.
Stored(s, status) ==
  IF status = s.status THEN s
  ELSE [s EXCEPT !.status = status, !.rv = s.rv + 1]

--------------------------------------------------------------------------------
(* The steps of one call.                                                  *)

\* The module's process ends with its answer, and its memory with it.
Exit(w, answer) ==
  /\ pc' = [pc EXCEPT ![w] = answer]
  /\ req' = [req EXCEPT ![w] = NoCall]
  /\ snap' = [snap EXCEPT ![w] = NewObject(0)]
  /\ merged' = [merged EXCEPT ![w] = <<>>]
  /\ idx' = [idx EXCEPT ![w] = 1]

Start(w, r) ==
  /\ pc[w] \in Ended
  /\ pc' = [pc EXCEPT ![w] = "get"]
  /\ req' = [req EXCEPT ![w] = r]
  /\ UNCHANGED <<server, snap, merged, idx>>

\* resource.get, and the comparison: nothing happens between the two but
\* computation in the module's own process.
GetInstance(w) ==
  /\ pc[w] = "get"
  /\ server.exists
  /\ ~NothingToDo(server.status, req[w])
  /\ pc' = [pc EXCEPT ![w] = IF req[w].force THEN "write" ELSE "merge"]
  /\ snap' = [snap EXCEPT ![w] = server]
  /\ IF server.status.conds = <<>> \/ req[w].status.conds = <<>>
     THEN /\ merged' = [merged EXCEPT ![w] = req[w].status.conds]
          /\ idx' = [idx EXCEPT ![w] = Len(req[w].status.conds) + 1]
     ELSE /\ merged' = [merged EXCEPT ![w] = server.status.conds]
          /\ idx' = [idx EXCEPT ![w] = 1]
  /\ UNCHANGED <<server, req>>

GetUnchanged(w) ==
  /\ pc[w] = "get"
  /\ server.exists
  /\ NothingToDo(server.status, req[w])
  /\ Exit(w, "unchanged")
  /\ UNCHANGED server

GetFails(w) ==
  /\ pc[w] = "get"
  /\ ~server.exists
  /\ Exit(w, "failed")
  /\ UNCHANGED server

MergeCondition(w) ==
  /\ pc[w] = "merge"
  /\ idx[w] <= Len(req[w].status.conds)
  /\ merged' = [merged EXCEPT ![w] = PutCondition(@, req[w].status.conds[idx[w]])]
  /\ idx' = [idx EXCEPT ![w] = @ + 1]
  /\ UNCHANGED <<server, pc, req, snap>>

MergeDone(w) ==
  /\ pc[w] = "merge"
  /\ idx[w] > Len(req[w].status.conds)
  /\ pc' = [pc EXCEPT ![w] = "write"]
  /\ UNCHANGED <<server, local>>

\* resource.status.patch, or .replace when the call is forced.
WriteStatus(w) ==
  /\ pc[w] = "write"
  /\ ServerAccepts(server, snap[w])
  /\ server.rv < MaxRv
  /\ server' = Stored(server, PatchedStatus(server.status, req[w], merged[w]))
  /\ Exit(w, "changed")

WriteFails(w) ==
  /\ pc[w] = "write"
  /\ ~ServerAccepts(server, snap[w])
  /\ Exit(w, "failed")
  /\ UNCHANGED server

\* The operator's pod, and the play in it, may be killed at any point.
Killed(w) ==
  /\ pc[w] \in Active
  /\ Exit(w, "failed")
  /\ UNCHANGED server

--------------------------------------------------------------------------------
(* The other clients of the CR.  Each of their writes is atomic for the    *)
(* API server and moves the resourceVersion.                               *)

EditCr ==
  /\ server.exists /\ server.rv < MaxRv
  /\ server' = [server EXCEPT !.rv = @ + 1]
  /\ UNCHANGED <<pc, local>>

OperatorMarksCr(c) ==
  /\ server.exists /\ server.rv < MaxRv
  /\ server' = [server EXCEPT !.rv = @ + 1,
                              !.status.conds = PutCondition(@, c)]
  /\ UNCHANGED <<pc, local>>

DeleteCr ==
  /\ server.exists
  /\ server' = [server EXCEPT !.exists = FALSE, !.status = EmptyStatus]
  /\ UNCHANGED <<pc, local>>

CreateCr ==
  /\ ~server.exists /\ server.rv < MaxRv
  /\ server' = NewObject(server.rv + 1)
  /\ UNCHANGED <<pc, local>>

Call(w) ==
  \/ \E r \in Requests : Start(w, r)
  \/ GetInstance(w)
  \/ GetUnchanged(w)
  \/ GetFails(w)
  \/ MergeCondition(w)
  \/ MergeDone(w)
  \/ WriteStatus(w)
  \/ WriteFails(w)
  \/ Killed(w)

Others ==
  \/ EditCr
  \/ \E c \in OperatorMarks : OperatorMarksCr(c)
  \/ DeleteCr
  \/ CreateCr

Next == (\E w \in Writers : Call(w)) \/ Others

Spec == Init /\ [][Next]_vars

--------------------------------------------------------------------------------
(* Properties.                                                             *)

\* The status never holds two conditions of one type (types.go declares the list
\* with patchMergeKey "type"): the merge replaces what it finds and appends only
\* what is new, and no interleaving of writers gets a duplicate past the server.
UniqueTypes == Unique(server.status.conds)

\* Between its read and its write a call owns no lock, so what it merges may be
\* stale; it may be written only while the server's status is still the one read.
FreshIfAccepted ==
  \A w \in Writers :
    (pc[w] \in {"merge", "write"} /\ ServerAccepts(server, snap[w]))
      => server.status = snap[w].status

Landed(w) == pc[w] = "write" /\ pc'[w] = "changed"

\* A call that is not forced changes nothing but what it was asked to change:
\* when its patch lands, the server's current conditions of all other types
\* (ansible-operator's Running, another task's Available), with their transition
\* times, and the fields it does not name, are still there.
PatchLosesNothing(w) ==
  (Landed(w) /\ ~req[w].force) =>
    /\ \A i \in 1..Len(server.status.conds) :
         server.status.conds[i].type \notin TypesOf(req[w].status.conds)
           => /\ i \in 1..Len(server'.status.conds)
              /\ server'.status.conds[i] = server.status.conds[i]
    /\ \A f \in Fields :
         req[w].status.fields[f] = Absent
           => server'.status.fields[f] = server.status.fields[f]

NoLostUpdate == [][\A w \in Writers : PatchLosesNothing(w)]_vars

\* A condition that a task sets again to what it says already keeps its
\* lastTransitionTime (the purpose of clean_last_transition_time): the time goes
\* only when the condition changes, or when the caller passes one.  A task sets one
\* condition and nothing else; with a field or another condition in the same call, one
\* that did not change would be written again, too.
StampKept(w) ==
  (/\ Landed(w)
   /\ ~req[w].force
   /\ \A f \in Fields : req[w].status.fields[f] = Absent
   /\ Len(req[w].status.conds) = 1
   /\ req[w].status.conds[1].ltt = Absent) =>
     \A i \in 1..Len(server.status.conds) :
       Clean(server.status.conds[i]) = Clean(server'.status.conds[i])
         => server'.status.conds[i] = server.status.conds[i]

KeepsTransitionTime == [][\A w \in Writers : StampKept(w)]_vars

--------------------------------------------------------------------------------
(* The refinement: the list of conditions read as a function of the type,  *)
(* a call that is still merging or writing as one that has not happened.   *)

ConditionOf(cs) ==
  [t \in Types |-> IF t \in TypesOf(cs) THEN cs[ConditionIdx(cs, t)] ELSE Absent]

AbstractCall(r) == [force |-> r.force,
                    fields |-> r.status.fields,
                    condition |-> ConditionOf(r.status.conds)]

Atomic == INSTANCE AtomicStatus WITH
  Calls <- {AbstractCall(r) : r \in Requests},
  Marks <- OperatorMarks,
  exists <- server.exists,
  fields <- server.status.fields,
  condition <- ConditionOf(server.status.conds),
  call <- [w \in Writers |-> AbstractCall(req[w])],
  NoCall <- AbstractCall(NoCall),
  phase <- [w \in Writers |-> IF pc[w] \in Active THEN "pending" ELSE pc[w]]

\* A call of the module is atomic although it reads, merges and writes in separate
\* steps: every behaviour, conflicts, deletions and kills included, is one in
\* which each call took effect at a single instant, or failed without effect.
Linearizable == Atomic!Spec

================================================================================
