------------------------------ MODULE BundleRoles ------------------------------
(***************************************************************************)
(* The plays of the other three CRs, each one a table of tasks over the    *)
(* same cluster: the roles KubevirtNodeLabeller, KubevirtMetricsAggregation *)
(* and KubevirtCommonTemplatesBundle, behind the circuit breaker.          *)
(*                                                                         *)
(* As in TemplateValidator a play goes by what it read: the CR it was      *)
(* started for (`params'), the CR it looked up (`info'), objects as its    *)
(* tasks returned or fetched them (`reg'), counts (`seen').  Upgrades of   *)
(* the operator and the pause are looked at there; here objects of an      *)
(* older operator and the CR of the old API group are what is there first. *)
(* Objects without owner (cluster roles, namespaces) are left out.         *)
(***************************************************************************)
EXTENDS Ownership, FiniteSets

CONSTANTS
  Kinds,      \* the kinds of CR that are looked at
  MaxUid,     \* bound: the CR has the uids 1..MaxUid, one after the other
  OldUids,    \* uids of CRs of the old API group
  InitialOld, \* which of them may be there at first, with their objects
  Nodes,      \* how many nodes the DaemonSet is for
  MaxEdits,   \* bound: what users do
  MaxFaults   \* bound: failing calls, killed plays, failing pods

ASSUME BundleAssumption ==
  /\ Kinds \subseteq {"NodeLabeller", "MetricsAggregation", "CommonTemplates"}
  /\ MaxUid \in Nat \ {0} /\ 1..MaxUid \subseteq Uids
  /\ OldUids \subseteq Uids /\ InitialOld \subseteq SUBSET OldUids
  /\ Nodes \in Nat

VARIABLES
  kind,       \* the CR's kind
  cr,         \* the CR: exists, uid
  status,     \* target and observed name the operator's version or not; cond
  obj,        \* obj[o]: an object of the CR: present, refs
  ds,         \* the DaemonSet: is its template this operator's; its status
  old,        \* the CRs of the old API group that exist
  pc,         \* the task the play is at, "idle" between plays
  params, info, reg, seen, \* see above
  fresh,      \* objects nobody else changed since the play registered them
  failed,     \* an item of a loop failed
  todo,       \* objects still to be adopted
  result,     \* how the latest play ended, and for which CR
  edits, faults

world == <<kind, cr, status, obj, ds, old>>
snapshots == <<params, info, reg, seen, fresh, failed, todo>>
budgets == <<edits, faults>>
vars == <<world, pc, snapshots, result, budgets>>

Templates == {"new1", "new2"}  \* the common templates of this version
Objects == {"sa", "cm", "ds", "rule", "older"} \cup Templates
ObjectsOf ==
  [NodeLabeller |-> {"sa", "cm", "ds"}, MetricsAggregation |-> {"rule"},
   CommonTemplates |-> Templates \cup {"older"}]
Mine == ObjectsOf[kind]
Installed == Mine \ {"older"}

ConditionTypes == {"Progressing", "Available", "Degraded"}

NodeLabellerTasks ==
  <<"lookup", "versions", "sa", "cm", "ds", "collect", "inject", "read", "write",
    "Progressing", "Available", "Degraded", "observed", "requeue">>
MetricsAggregationTasks ==
  <<"lookup", "versions", "rule", "collect", "inject",
    "Available", "Progressing", "Degraded", "observed", "requeue">>
CommonTemplatesTasks ==
  <<"lookup", "versions", "new1", "new2", "fetch", "old", "inject", "count",
    "Progressing", "Available", "Degraded", "observed", "requeue">>

Tasks ==
  CASE kind = "NodeLabeller" -> NodeLabellerTasks
    [] kind = "MetricsAggregation" -> MetricsAggregationTasks
    [] kind = "CommonTemplates" -> CommonTemplatesTasks

GoOn == pc' = Tasks[1 + CHOOSE i \in 1..(Len(Tasks) - 1) : Tasks[i] = pc]

--------------------------------------------------------------------------------

EmptyStatus ==
  [target |-> FALSE, observed |-> FALSE, cond |-> [t \in ConditionTypes |-> "Unset"]]
NoObject == [present |-> FALSE, refs |-> NoKey]
NoResults == [o \in Objects |-> NoKey]
NothingSeen == [want |-> 0, have |-> 0]
DaemonSetContent(current, phase, desired, ready) ==
  [current |-> current, phase |-> phase,
   desiredNumberScheduled |-> desired, numberReady |-> ready]

Init ==
  /\ kind \in Kinds
  /\ cr = [exists |-> TRUE, uid |-> 1] /\ status = EmptyStatus
  /\ old \in InitialOld
  /\ \E there \in {{}, Mine, Mine \ Installed}, u \in OldUids :
       /\ old = {} <=> there = {}
       /\ old # {} => u \in old
       /\ obj = [o \in Objects |-> IF o \in there THEN [present |-> TRUE, refs |-> <<OwnerRef(u)>>]
                                   ELSE NoObject]
  /\ ds = DaemonSetContent(FALSE, "done", Nodes, Nodes)
  /\ pc = "idle"
  /\ params = 1 /\ info = 1 /\ reg = NoResults /\ seen = NothingSeen
  /\ fresh = {} /\ failed = FALSE /\ todo = {}
  /\ result = [outcome |-> "None", uid |-> 1]
  /\ edits = MaxEdits /\ faults = MaxFaults

--------------------------------------------------------------------------------
(* The play.                                                               *)

EndPlay(outcome) ==
  /\ pc' = "idle"
  /\ params' = 1 /\ info' = 1 /\ reg' = NoResults /\ seen' = NothingSeen
  /\ fresh' = {} /\ failed' = FALSE /\ todo' = {}
  /\ result' = [outcome |-> outcome, uid |-> info]

\* ansible-operator starts a play.
StartPlay ==
  /\ pc = "idle" /\ cr.exists
  /\ pc' = "lookup" /\ params' = cr.uid
  /\ result' = [outcome |-> "None", uid |-> cr.uid]
  /\ UNCHANGED <<world, info, reg, seen, fresh, failed, todo, budgets>>

\* Extract the CR info
LookupCr ==
  /\ pc = "lookup" /\ cr.exists
  /\ info' = cr.uid /\ GoOn
  /\ UNCHANGED <<world, params, reg, seen, fresh, failed, todo, result, budgets>>

\* A status task: k8s_status with one condition or a version.
WriteStatus(new) ==
  /\ cr.exists
  /\ status' = new /\ GoOn
  /\ UNCHANGED <<kind, cr, obj, ds, old, snapshots, result, budgets>>

\* Set operatorVersion and targetVersion
SetVersions == pc = "versions" /\ WriteStatus([status EXCEPT !.target = TRUE])

\* Created or updated in place.  On creation ansible-operator's proxy makes the CR
\* that the play was started for the owner.
Applied(o) ==
  IF obj[o].present THEN obj[o] ELSE [present |-> TRUE, refs |-> <<OwnerRef(params)>>]

\* An item of Create the node labeller roles, of Install VMI count aggregation rule, of
\* Install VM templates; Create the node labeller daemon set, which a failed item of the
\* loop before keeps from running.
ApplyObject ==
  /\ pc \in Installed /\ (pc = "ds" => ~failed)
  /\ obj' = [obj EXCEPT ![pc] = Applied(pc)]
  /\ reg' = [reg EXCEPT ![pc] = Applied(pc).refs]
  /\ fresh' = fresh \cup {pc}
  /\ ds' = CASE pc # "ds" \/ (obj["ds"].present /\ ds.current) -> ds
             [] pc = "ds" /\ obj["ds"].present /\ ~ds.current ->
                  [ds EXCEPT !.current = TRUE, !.phase = "stale"]
             [] OTHER -> DaemonSetContent(TRUE, "stale", 0, 0)
  /\ GoOn
  /\ UNCHANGED <<kind, cr, status, old, params, info, seen, failed, todo, result, budgets>>

\* A loop goes on after an item that failed.
ItemFails ==
  /\ pc \in {"sa", "cm"} /\ faults > 0
  /\ faults' = faults - 1 /\ failed' = TRUE /\ GoOn
  /\ UNCHANGED <<world, params, info, reg, seen, fresh, todo, result, edits>>

\* collect all objects, and the filter that the next task's argument goes through.
Collect ==
  /\ pc = "collect"
  /\ \A o \in Installed : Injectable(reg[o])
  /\ todo' = Installed /\ GoOn
  /\ UNCHANGED <<world, params, info, reg, seen, fresh, failed, result, budgets>>

\* Fetching all templates
FetchTemplates ==
  /\ pc = "fetch"
  /\ reg' = [o \in Objects |-> obj[o].refs]
  /\ fresh' = {o \in Mine : obj[o].present} /\ GoOn
  /\ UNCHANGED <<world, params, info, seen, failed, todo, result, budgets>>

\* Fetch old CR: the lookup answers with the CR if there is one and with a list if
\* there are several, which has no metadata and so counts as none.
OldCrFound == Cardinality(old) = 1

\* Mutant: the filter asks for the new CR's templates.
FilterOwned_swapped ==
  /\ pc = "old"
  /\ todo' = IF OldCrFound THEN {o \in fresh : OwnedBy(reg[o], info)} ELSE {}
  /\ GoOn
  /\ UNCHANGED <<world, params, info, reg, seen, fresh, failed, result, budgets>>

\* Check if the old CR exists, Filter for templates owned by the old cr
FilterOwned ==
  /\ pc = "old"
  /\ todo' = IF OldCrFound
             THEN {o \in Mine : \E u \in old : OwnedBy(reg[o], u)} ELSE {}
  /\ GoOn
  /\ UNCHANGED <<world, params, info, reg, seen, fresh, failed, result, budgets>>

\* The patch carries the resourceVersion the object was registered with.
Unchanged(o) == obj[o].present /\ o \in fresh

\* Mutant: the objects are adopted for the CR that the play was started for.
InjectOwner_triggering ==
  /\ pc = "inject"
  /\ \E o \in todo :
       /\ Unchanged(o)
       /\ obj' = [obj EXCEPT ![o].refs = Inject(reg[o], params)]
       /\ todo' = todo \ {o}
  /\ UNCHANGED <<kind, cr, status, ds, old, pc, params, info, reg, seen, fresh, failed, result,
                 budgets>>

\* Inject owner references, one object after the other
InjectOwner ==
  /\ pc = "inject"
  /\ \E o \in todo :
       /\ Unchanged(o)
       /\ obj' = [obj EXCEPT ![o].refs = Inject(reg[o], info)]
       /\ todo' = todo \ {o}
  /\ UNCHANGED <<kind, cr, status, ds, old, pc, params, info, reg, seen, fresh, failed, result,
                 budgets>>

\* After the last one neither what was registered nor the parameters are read again.
AllInjected ==
  /\ pc = "inject" /\ todo = {} /\ GoOn
  /\ reg' = NoResults /\ fresh' = {} /\ params' = 1
  /\ UNCHANGED <<world, info, seen, failed, todo, result, budgets>>

\* Mutant: what the apply task returned is written back.
ReadDaemonSet_registered ==
  /\ pc = "read" /\ obj["ds"].present /\ GoOn
  /\ UNCHANGED <<world, snapshots, result, budgets>>

\* Refresh node-labeller var: the DaemonSet is looked up ...
ReadDaemonSet ==
  /\ pc = "read" /\ obj["ds"].present
  /\ fresh' = fresh \cup {"ds"} /\ GoOn
  /\ UNCHANGED <<world, params, info, reg, seen, failed, todo, result, budgets>>

\* ... and written back as it was, resourceVersion included; the answer is what counts.
WriteDaemonSet ==
  /\ pc = "write" /\ Unchanged("ds")
  /\ seen' = [want |-> ds.desiredNumberScheduled, have |-> ds.numberReady] /\ GoOn
  /\ UNCHANGED <<world, params, info, reg, fresh, failed, todo, result, budgets>>

\* Count all new templates in file, Get all templates: base templates of any version.
CountTemplates ==
  /\ pc = "count"
  /\ seen' = [want |-> Cardinality(Templates), have |-> Cardinality({o \in Mine : obj[o].present})]
  /\ GoOn
  /\ UNCHANGED <<world, params, info, reg, fresh, failed, todo, result, budgets>>

\* Available is computed for the node labeller only; what the common templates' play
\* computes goes into observedVersion, not into the condition.
Healthy == kind = "NodeLabeller" => seen.want = seen.have
Available == kind = "MetricsAggregation" \/ (Healthy /\ seen.want <= seen.have)

\* Mutant: Degraded is reported by the test for Available.
Fact_degraded_swapped(t) == Healthy = (t \in {"Available", "Degraded"})

Fact(t) == Healthy = (t = "Available")

\* Set progressing condition, Set available condition, Set degraded condition
SetCondition ==
  /\ pc \in ConditionTypes
  /\ WriteStatus([status EXCEPT !.cond[pc] = IF Fact(pc) THEN "True" ELSE "False"])

\* Set observedVersion
SetObserved == pc = "observed" /\ Available /\ WriteStatus([status EXCEPT !.observed = TRUE])
SkipObserved ==
  /\ pc = "observed" /\ ~Available /\ GoOn
  /\ UNCHANGED <<world, snapshots, result, budgets>>

\* Reque if KubevirtNodeLabellerBundle not available, and the end of the play
Finish ==
  /\ pc = "requeue"
  /\ EndPlay(IF Healthy THEN "Successful" ELSE "Requeued")
  /\ UNCHANGED <<world, budgets>>

TaskFailsWhen(condition) == condition /\ EndPlay("Failed") /\ UNCHANGED <<world, budgets>>

\* Tasks that fail for what they find: no CR, a failed loop or an object without the key,
\* an object that was changed or is gone.
TaskFails ==
  \/ TaskFailsWhen(/\ pc \in {"lookup", "versions", "observed"} \cup ConditionTypes
                   /\ ~cr.exists /\ (pc = "observed" => Available))
  \/ TaskFailsWhen(\/ pc = "ds" /\ failed
                   \/ pc = "collect" /\ \E o \in Installed : ~Injectable(reg[o]))
  \/ TaskFailsWhen(\/ pc = "inject" /\ \E o \in todo : ~Unchanged(o)
                   \/ pc = "read" /\ ~obj["ds"].present
                   \/ pc = "write" /\ ~Unchanged("ds"))

\* A call of the API server fails for another reason, or the operator is killed.
PlayBreaks ==
  /\ pc # "idle" /\ faults > 0
  /\ faults' = faults - 1 /\ EndPlay("Failed")
  /\ UNCHANGED <<world, edits>>

Play ==
  \/ LookupCr \/ SetVersions \/ ApplyObject \/ Collect \/ FetchTemplates \/ FilterOwned
  \/ InjectOwner \/ AllInjected \/ ReadDaemonSet \/ WriteDaemonSet \/ CountTemplates
  \/ SetCondition \/ SetObserved \/ SkipObserved \/ Finish \/ TaskFails

--------------------------------------------------------------------------------
(* Users, the garbage collector, the DaemonSet's controller.               *)

Edit ==
  /\ edits > 0 /\ edits' = edits - 1
  /\ UNCHANGED <<kind, pc, params, info, reg, seen, failed, todo, result, faults>>

DeleteCr ==
  /\ Edit /\ cr.exists
  /\ cr' = [cr EXCEPT !.exists = FALSE] /\ status' = EmptyStatus
  /\ UNCHANGED <<obj, ds, old, fresh>>
RecreateCr ==
  /\ Edit /\ ~cr.exists /\ cr.uid < MaxUid
  /\ cr' = [exists |-> TRUE, uid |-> cr.uid + 1]
  /\ UNCHANGED <<status, obj, ds, old, fresh>>
DeleteOldCr ==
  /\ Edit /\ \E u \in old : old' = old \ {u}
  /\ UNCHANGED <<cr, status, obj, ds, fresh>>
DeleteObject(o) ==
  /\ Edit /\ obj[o].present
  /\ obj' = [obj EXCEPT ![o] = NoObject] /\ fresh' = fresh \ {o}
  /\ UNCHANGED <<cr, status, ds, old>>

Alive(u) == u \in old \/ (u = cr.uid /\ cr.exists)

\* An object all of whose owners are gone is deleted; of some, their references.
CollectGarbage(o) ==
  /\ obj[o].present
  /\ LET owners == Owners(obj[o].refs)
         alive == {u \in owners : Alive(u)}
     IN /\ alive # owners
        /\ obj' = [obj EXCEPT ![o] = IF alive = {} THEN NoObject
                                     ELSE [present |-> TRUE, refs |-> Pruned(obj[o].refs, alive)]]
  /\ fresh' = fresh \ {o}
  /\ UNCHANGED <<kind, cr, status, ds, old, pc, params, info, reg, seen, failed, todo, result,
                 budgets>>

\* The status changes, and the object's resourceVersion with it.
SetDaemonSet(phase, desired, ready) ==
  /\ obj["ds"].present
  /\ ds' = DaemonSetContent(ds.current, phase, desired, ready) /\ fresh' = fresh \ {"ds"}
  /\ UNCHANGED <<kind, cr, status, obj, old, pc, params, info, reg, seen, failed, todo, result,
                 edits>>

\* It learns of a change later, and schedules a pod for each node, or replaces those there are ...
DaemonSetStarts ==
  /\ ds.phase = "stale"
  /\ \E ready \in 0..Nodes : SetDaemonSet("rolling", Nodes, ready)
  /\ UNCHANGED faults

\* ... until all are ready; pods fail and come back.
PodsGetReady ==
  /\ ds.phase = "rolling" \/ ds.numberReady < ds.desiredNumberScheduled
  /\ ds.phase # "stale"
  /\ SetDaemonSet("done", Nodes, Nodes)
  /\ UNCHANGED faults
PodFails ==
  /\ ds.phase = "done" /\ ds.numberReady > 0
  /\ faults > 0 /\ faults' = faults - 1
  /\ SetDaemonSet("done", Nodes, ds.numberReady - 1)

Users == DeleteCr \/ RecreateCr \/ DeleteOldCr \/ \E o \in Mine : DeleteObject(o)
DaemonSetController == DaemonSetStarts \/ PodsGetReady \/ PodFails

Next == \/ StartPlay \/ Play \/ ItemFails \/ PlayBreaks
        \/ Users \/ DaemonSetController \/ \E o \in Mine : CollectGarbage(o)

Spec == Init /\ [][Next]_vars

\* Plays are started and run on, the garbage collector collects; nothing is assumed of
\* users, of faults or of pods.
FairSpec ==
  /\ Spec /\ WF_vars(StartPlay) /\ WF_vars(Play)
  /\ WF_vars(\E o \in Mine : CollectGarbage(o))

--------------------------------------------------------------------------------

\* The latest play got to its end for the CR that is there now.
Reported ==
  result.outcome \in {"Successful", "Requeued"} /\ cr.exists /\ cr.uid = result.uid

Conditions(healthy) ==
  [t \in ConditionTypes |-> IF (t = "Available") = healthy THEN "True" ELSE "False"]

\* docs/dev/status-conditions.md has no Degraded for the common templates.
DocumentedTypes == IF kind = "CommonTemplates" THEN ConditionTypes \ {"Degraded"} ELSE ConditionTypes
Says(healthy) == \A t \in DocumentedTypes : status.cond[t] = Conditions(healthy)[t]

\* The conditions and versions are written by five separate calls.  When a play has
\* ended by itself they agree with one another and with how it ended, whatever CR was
\* deleted, made again or half reported before.
ReportCoherent ==
  Reported =>
    /\ status.target
    /\ Says(result.outcome = "Successful")
    /\ result.outcome = "Successful" /\ kind # "CommonTemplates" => status.observed

\* docs/dev/status-conditions.md:61: the common templates' CR "will NOT contain degraded
\* condition, because it makes no sense to put it there".  Its role sets one.
TemplatesHaveNoDegraded == kind = "CommonTemplates" => status.cond["Degraded"] = "Unset"

\* When a play has ended by itself, the node labeller's objects and the metrics rule are
\* owned by the CR; and so is each template that belongs to the one CR of the old API
\* group, as long as that one is there: deleting it takes no template away.
AdoptedWhenReported ==
  Reported =>
    \A o \in Mine :
      obj[o].present /\ (kind = "CommonTemplates" => \E u \in old : OwnedBy(obj[o].refs, u))
        => OwnedBy(obj[o].refs, cr.uid)

AllInstalled == \A o \in Installed : obj[o].present /\ \E u \in Owners(obj[o].refs) : Alive(u)
PodsReady == ds.numberReady = ds.desiredNumberScheduled

\* While a CR stays and its pods' state is settled, all that its role installs comes to
\* be there with a living owner, and the report follows the pods: whoever deleted what,
\* and whatever failed or got collected under a play before.
Settles ==
  <>[](cr.exists /\ (kind = "NodeLabeller" => ds.phase = "done"))
    => <>[](/\ AllInstalled
            /\ Says(kind = "NodeLabeller" => PodsReady)
            /\ status.observed \/ (kind = "NodeLabeller" /\ ~PodsReady))

================================================================================
