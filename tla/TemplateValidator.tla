--------------------------- MODULE TemplateValidator ---------------------------
(***************************************************************************)
(* The reconciliation of a KubevirtTemplateValidator CR: the plays of the  *)
(* playbook templatevalidator.yaml (the roles KubevirtCircuitBreaker and   *)
(* KubevirtTemplateValidator), task by task, and everything that may       *)
(* happen in the cluster between two of its tasks.                         *)
(*                                                                         *)
(* A play keeps four things it read at different moments and never reads   *)
(* again: the CR's parameters (`params', handed over when the play starts),*)
(* the CR it looked up (`info', the code's cr_info), the objects its apply *)
(* tasks returned (`reg', the code's tv.results) and the Deployment's      *)
(* status (`seen', the code's tv_status).                                  *)
(*                                                                         *)
(* A status write is one step here: K8sStatus shows that it may be.        *)
(*                                                                         *)
(* From outside src/: ansible-operator (starts plays, one at a time for a  *)
(* CR, again after a failure and periodically, and makes the CR it started *)
(* the play for the owner of what the play creates), the garbage collector *)
(* and the Deployment controller.                                          *)
(***************************************************************************)
EXTENDS CircuitBreaker, Ownership

CONSTANTS
  MaxVersion,      \* bound: operator versions are 1..MaxVersion; 0 is an older one
  Placements,      \* values of spec.affinity, nodeSelector and tolerations
  Replicas,        \* values of spec.templateValidatorReplicas
  CrAnnotations,   \* values of the pause annotation that occur
  MaxUid,          \* bound: the CR has the uids 1..MaxUid, one after the other
  OldUid,          \* uid of the CR of the old API group kubevirt.io
  Foreign,         \* uid of some other object that may own ours
  Plans            \* bounds: what there is at first, and what is then done and fails

Objects == {"sa", "svc", "dep"}
ConditionTypes == {"Progressing", "Available", "Degraded"}

DefaultReplicas == 2
CrUids == 1..MaxUid
Versions == 0..MaxVersion

\* The objects that are there at first, the CR's replicas, which edits are made and how
\* many (upgrades of the operator are not counted), and how many calls, plays and pods fail.
Edits == [kinds : SUBSET {"spec", "pause", "delete", "own", "upgrade"}, left : Nat]
Plan == [objects : {"none", "old", "orphan"}, replicas : SUBSET Replicas,
         edits : Edits, faults : Nat]

ASSUME ValidatorAssumption ==
  /\ MaxVersion \in Nat \ {0}
  /\ MaxUid \in Nat \ {0}
  /\ Replicas \subseteq Nat /\ Replicas # {}
  /\ Placements # {}
  /\ CrAnnotations \subseteq Annotations /\ "absent" \in CrAnnotations
  /\ Uids = CrUids \cup {OldUid, Foreign}
  /\ OldUid \notin CrUids /\ Foreign \notin CrUids /\ OldUid # Foreign
  /\ Plans \subseteq Plan

VARIABLES
  opver,       \* version of the operator that runs
  cr,          \* the CR: exists, uid, annotation, placement, replicas
  status,      \* its status: target (operatorVersion, targetVersion), observed, cond
  obj,         \* obj[o]: an owned object: present, refs
  dep,         \* the Deployment's content: its template, its wish, its status
  cluster,     \* the cluster-wide objects there are
  oldAlive,    \* the CR of the old API group still exists
  pc,          \* the task the play is at, "idle" between plays
  params,      \* the play's snapshots, see above
  info,
  reg,
  fresh,       \* objects nobody else changed since the play registered them
  loopFailed,  \* an item of the loop over the manifests failed
  seen,
  result,      \* how the latest play ended, and for which CR
  edits,       \* what is left of the bounds
  faults

world == <<opver, cr, status, obj, dep, cluster, oldAlive>>
snapshots == <<params, info, reg, fresh, loopFailed, seen>>
budgets == <<edits, faults>>
vars == <<world, pc, snapshots, result, budgets>>

Template == [version : Versions, placement : Placements]
Phases == {"stale", "rolling", "done"}
DeploymentContent ==
  [template : Template, want : Nat, phase : Phases, replicas : Nat, ready : Nat]

Tasks == <<"lookup", "check", "versions", "viewRole", "sa", "crb", "svc", "dep",
           "collect", "inject_sa", "inject_svc", "inject_dep", "webhook", "refresh",
           "Progressing", "Available", "Degraded", "observed", "requeue">>
TaskNames == {Tasks[i] : i \in DOMAIN Tasks}

Following(task) ==
  Tasks[1 + CHOOSE i \in 1..(Len(Tasks) - 1) : Tasks[i] = task]

Outcomes == {"None", "Successful", "Requeued", "Paused", "Failed", "Killed"}

Cr == [exists : BOOLEAN, uid : CrUids, annotation : CrAnnotations,
       placement : Placements, replicas : Replicas]
Unset == -1   \* a version the status does not have yet
CrStatus == [target : Versions \cup {Unset}, observed : Versions \cup {Unset},
             cond : [ConditionTypes -> {"Unset", "True", "False"}]]

TypeOK ==
  /\ opver \in 1..MaxVersion
  /\ cr \in Cr
  /\ status \in CrStatus
  /\ obj \in [Objects -> [present : BOOLEAN, refs : References]]
  /\ dep \in DeploymentContent
  /\ cluster \subseteq {"viewRole", "crb", "webhook"}
  /\ oldAlive \in BOOLEAN
  /\ pc \in TaskNames \cup {"idle"}
  /\ params \in [uid : CrUids, replicas : Replicas]
  /\ info \in [uid : CrUids, annotation : CrAnnotations, placement : Placements]
  /\ reg \in [Objects -> References]
  /\ fresh \subseteq Objects
  /\ loopFailed \in BOOLEAN
  /\ seen \in [replicas : Nat, ready : Nat]
  /\ result \in [outcome : Outcomes, uid : CrUids]
  /\ edits \in Edits
  /\ faults \in Nat

--------------------------------------------------------------------------------
(* Initial states.                                                         *)

EmptyStatus == [target |-> Unset, observed |-> Unset,
                cond |-> [t \in ConditionTypes |-> "Unset"]]

SomePlacement == CHOOSE p \in Placements : TRUE
SomeReplicas == CHOOSE n \in Replicas : TRUE

NoObject == [present |-> FALSE, refs |-> NoKey]
NoParams == [uid |-> 1, replicas |-> SomeReplicas]
NoInfo == [uid |-> 1, annotation |-> "absent", placement |-> SomePlacement]
NoResults == [o \in Objects |-> NoKey]
NothingSeen == [replicas |-> 0, ready |-> 0]

\* The Deployment an older operator left, running; also what `dep' says when there
\* is no Deployment.
OldDeployment ==
  [template |-> [version |-> 0, placement |-> SomePlacement],
   want |-> DefaultReplicas, phase |-> "done",
   replicas |-> DefaultReplicas, ready |-> DefaultReplicas]

Init ==
  /\ opver = 1
  /\ status = EmptyStatus
  /\ \E plan \in Plans :
       /\ cr \in [exists : {TRUE}, uid : {1}, annotation : {"absent"},
                  placement : {SomePlacement}, replicas : plan.replicas]
       /\ obj = [o \in Objects |->
                   CASE plan.objects = "none"   -> NoObject
                     [] plan.objects = "old"    -> [present |-> TRUE,
                                                    refs |-> <<OwnerRef(OldUid)>>]
                     [] plan.objects = "orphan" -> [present |-> TRUE, refs |-> NoKey]]
       /\ oldAlive = (plan.objects = "old")
       /\ edits = plan.edits /\ faults = plan.faults
  /\ dep = OldDeployment
  /\ cluster = {}
  /\ pc = "idle"
  /\ params = NoParams /\ info = NoInfo /\ reg = NoResults
  /\ fresh = {} /\ loopFailed = FALSE /\ seen = NothingSeen
  /\ result = [outcome |-> "None", uid |-> 1]

--------------------------------------------------------------------------------
(* The play.                                                               *)

GoOn == pc' = Following(pc)

\* A play's facts and registered results end with it.
EndPlay(outcome) ==
  /\ pc' = "idle"
  /\ params' = NoParams /\ info' = NoInfo /\ reg' = NoResults
  /\ fresh' = {} /\ loopFailed' = FALSE /\ seen' = NothingSeen
  /\ result' = [outcome |-> outcome, uid |-> info.uid]

TaskFailsWhen(condition) ==
  /\ condition
  /\ EndPlay("Failed")
  /\ UNCHANGED <<world, budgets>>

\* ansible-operator starts a play: for a change of the CR, after a failed play, or
\* because the reconcile period is over.
StartPlay ==
  /\ pc = "idle"
  /\ cr.exists
  /\ pc' = "lookup"
  /\ params' = [uid |-> cr.uid, replicas |-> cr.replicas]
  /\ result' = [outcome |-> "None", uid |-> cr.uid]
  /\ UNCHANGED <<world, info, reg, fresh, loopFailed, seen, budgets>>

\* Extract the CR info
LookupCr ==
  /\ pc = "lookup"
  /\ cr.exists
  /\ GoOn
  /\ info' = [uid |-> cr.uid, annotation |-> cr.annotation,
              placement |-> cr.placement]
  /\ UNCHANGED <<world, params, reg, fresh, loopFailed, seen, result, budgets>>

\* Extract the disable info, Emergency disable check
CheckPassed ==
  /\ pc = "check"
  /\ MayRun(info.annotation)
  /\ GoOn
  /\ UNCHANGED <<world, snapshots, result, budgets>>

CheckPaused ==
  /\ pc = "check"
  /\ IsPaused(info.annotation)
  /\ EndPlay("Paused")
  /\ UNCHANGED <<world, budgets>>

\* Set operatorVersion and targetVersion
SetVersions ==
  /\ pc = "versions"
  /\ cr.exists
  /\ status' = [status EXCEPT !.target = opver]
  /\ GoOn
  /\ UNCHANGED <<opver, cr, obj, dep, cluster, oldAlive, snapshots, result, budgets>>

\* Objects without owner: created or updated in place.
ApplyClusterWide(o) ==
  /\ pc = o
  /\ cluster' = cluster \cup {o}
  /\ GoOn
  /\ UNCHANGED <<opver, cr, status, obj, dep, oldAlive, snapshots, result, budgets>>

\* Set template:view role
SetViewRole == ApplyClusterWide("viewRole")

\* Create the service: the item ClusterRoleBinding
ApplyClusterRoleBinding == ApplyClusterWide("crb")

\* Mutant: the webhook is registered before the manifests are applied.
RegisterWebhook_early ==
  /\ pc \in {"viewRole", "webhook"}
  /\ cluster' = cluster \cup {"webhook", pc}
  /\ GoOn
  /\ UNCHANGED <<opver, cr, status, obj, dep, oldAlive, snapshots, result, budgets>>

\* Register the webhook
RegisterWebhook == ApplyClusterWide("webhook")

\* Mutant: ansible-operator's owner reference is not injected on creation.
Applied_unowned(o) ==
  IF obj[o].present THEN obj[o] ELSE [present |-> TRUE, refs |-> NoKey]

\* What an apply task leaves of the object and its owners: on creation (a POST)
\* ansible-operator's proxy adds the CR that the play was started for.
Applied(o) ==
  IF obj[o].present THEN obj[o]
  ELSE [present |-> TRUE, refs |-> <<OwnerRef(params.uid)>>]

Register(o) ==
  /\ obj' = [obj EXCEPT ![o] = Applied(o)]
  /\ reg' = [reg EXCEPT ![o] = Applied(o).refs]
  /\ fresh' = fresh \cup {o}

ApplyObject(o) ==
  /\ pc = o
  /\ Register(o)
  /\ GoOn
  /\ UNCHANGED <<opver, cr, status, cluster, oldAlive,
                 params, info, loopFailed, seen, result, budgets>>

\* Create the service: the item ServiceAccount
ApplyServiceAccount == ApplyObject("sa") /\ UNCHANGED dep

\* Create the service: the item Service
ApplyService == ApplyObject("svc") /\ UNCHANGED dep

\* Mutant: an existing Deployment is left as it is.
NewContent_existing_kept(template, want) ==
  IF obj["dep"].present THEN dep
  ELSE [template |-> template, want |-> want, phase |-> "stale",
        replicas |-> 0, ready |-> 0]

\* Mutant: the image carries no version.
NewContent_unversioned(template, want) ==
  [template |-> [template EXCEPT !.version = Unset], want |-> want,
   phase |-> "stale", replicas |-> 0, ready |-> 0]

\* What applying the manifest makes of the Deployment: a new one has no status, a
\* changed one still has the status of what ran before.
NewContent(template, want) ==
  CASE ~obj["dep"].present ->
         [template |-> template, want |-> want, phase |-> "stale",
          replicas |-> 0, ready |-> 0]
    [] obj["dep"].present /\ dep.template = template /\ dep.want = want -> dep
    [] OTHER ->
         [dep EXCEPT !.template = template, !.want = want, !.phase = "stale"]

\* Create the service: the item Deployment
ApplyDeployment ==
  /\ ApplyObject("dep")
  /\ dep' = NewContent([version |-> opver, placement |-> info.placement],
                       params.replicas)

\* A loop goes on after an item that failed; the task fails when the loop is over.
ItemFails ==
  /\ pc \in {"sa", "crb", "svc", "dep"}
  /\ faults > 0
  /\ faults' = faults - 1
  /\ loopFailed' = TRUE
  /\ GoOn
  /\ UNCHANGED <<world, params, info, reg, fresh, seen, result, edits>>

\* The end of the loop, Collect owned objects, and the filter that the arguments of
\* the next task go through.
Collect ==
  /\ pc = "collect"
  /\ ~loopFailed
  /\ AllInjectable(reg)
  /\ GoOn
  /\ UNCHANGED <<world, snapshots, result, budgets>>

Target(task) == CASE task = "inject_sa"  -> "sa"
                  [] task = "inject_svc" -> "svc"
                  [] OTHER -> "dep"

Injecting == pc \in {"inject_sa", "inject_svc", "inject_dep"}

\* Mutant: the patch carries no resourceVersion.
Unchanged_unversioned(o) == obj[o].present

\* The definition carries the resourceVersion of the registered object.
Unchanged(o) == obj[o].present /\ o \in fresh

\* Mutant: the step is left out.
InjectOwner_skipped == Injecting /\ GoOn /\ UNCHANGED <<world, snapshots, result, budgets>>

\* Mutant: the objects are adopted for the CR that the play was started for.
InjectOwner_triggering ==
  /\ Injecting
  /\ LET o == Target(pc)
     IN  /\ Unchanged(o)
         /\ obj' = [obj EXCEPT ![o].refs = Inject(reg[o], params.uid)]
  /\ GoOn
  /\ UNCHANGED <<opver, cr, status, dep, cluster, oldAlive,
                 snapshots, result, budgets>>

\* Inject owner references for KubevirtTemplateValidator, one object
InjectOwner ==
  /\ Injecting
  /\ LET o == Target(pc)
     IN  /\ Unchanged(o)
         /\ obj' = [obj EXCEPT ![o].refs = Inject(reg[o], info.uid)]
  /\ GoOn
  /\ UNCHANGED <<opver, cr, status, dep, cluster, oldAlive,
                 snapshots, result, budgets>>

\* Refresh template-validator var; without a Deployment the lookup finds nothing and
\* the defaults step in.
Refresh ==
  /\ pc = "refresh"
  /\ seen' = IF obj["dep"].present
             THEN [replicas |-> dep.replicas, ready |-> dep.ready]
             ELSE NothingSeen
  /\ GoOn
  /\ UNCHANGED <<world, params, info, reg, fresh, loopFailed, result, budgets>>

\* Mutant: the number of replicas is taken to be the default one.
Desired_constant(n) == DefaultReplicas

\* replicas|default(2): the API leaves a number of 0 out.
Desired(n) == IF n = 0 THEN DefaultReplicas ELSE n

\* Mutant: one ready pod will do.
AllReady_any == seen.ready > 0

AllReady == seen.ready = Desired(seen.replicas)

\* Mutant: Degraded is reported by the test for Available.
Fact_degraded_swapped(type) == AllReady = (type \in {"Available", "Degraded"})

\* Set Progressing status, Set Available status, Set Degraded status
Fact(type) == AllReady = (type = "Available")

\* Set progressing condition, Set available condition, Set degraded condition
SetCondition ==
  /\ pc \in ConditionTypes
  /\ cr.exists
  /\ status' = [status EXCEPT !.cond[pc] = IF Fact(pc) THEN "True" ELSE "False"]
  /\ GoOn
  /\ UNCHANGED <<opver, cr, obj, dep, cluster, oldAlive, snapshots, result, budgets>>

ObservedWhen == Fact("Available")

\* Set observedVersion, when available
SetObserved ==
  /\ pc = "observed"
  /\ ObservedWhen
  /\ cr.exists
  /\ status' = [status EXCEPT !.observed = opver]
  /\ GoOn
  /\ UNCHANGED <<opver, cr, obj, dep, cluster, oldAlive, snapshots, result, budgets>>

SkipObserved ==
  /\ pc = "observed"
  /\ ~ObservedWhen
  /\ GoOn
  /\ UNCHANGED <<world, snapshots, result, budgets>>

\* Reque if KubevirtTemplateValidator not available, and the end of the play
Finish ==
  /\ pc = "requeue"
  /\ EndPlay(IF AllReady THEN "Successful" ELSE "Requeued")
  /\ UNCHANGED <<world, budgets>>

StatusTasks == {"versions", "observed"} \cup ConditionTypes

\* Tasks that fail for what they find.
TaskFails ==
  \/ TaskFailsWhen(pc = "lookup" /\ ~cr.exists)
  \/ TaskFailsWhen(pc = "check" /\ Unparsable(info.annotation))
  \/ TaskFailsWhen(pc \in StatusTasks /\ ~cr.exists
                     /\ (pc = "observed" => ObservedWhen))
  \/ TaskFailsWhen(pc = "collect" /\ (loopFailed \/ ~AllInjectable(reg)))
  \/ TaskFailsWhen(Injecting /\ ~Unchanged(Target(pc)))

\* A call of the API server fails for another reason: it cannot be reached, it
\* refuses, or somebody else changed the CR during a status write.
CallFails ==
  /\ pc \in StatusTasks \cup {"lookup", "viewRole", "webhook", "refresh",
                              "inject_sa", "inject_svc", "inject_dep"}
  /\ faults > 0
  /\ faults' = faults - 1
  /\ EndPlay("Failed")
  /\ UNCHANGED <<world, edits>>

Play ==
  \/ LookupCr \/ CheckPassed \/ CheckPaused \/ SetVersions \/ SetViewRole
  \/ ApplyServiceAccount \/ ApplyClusterRoleBinding \/ ApplyService \/ ApplyDeployment
  \/ Collect \/ InjectOwner \/ RegisterWebhook \/ Refresh \/ SetCondition
  \/ SetObserved \/ SkipObserved \/ Finish \/ TaskFails

--------------------------------------------------------------------------------
(* The operator's pod.                                                     *)

OperatorKilled ==
  /\ pc # "idle"
  /\ faults > 0
  /\ faults' = faults - 1
  /\ EndPlay("Killed")
  /\ UNCHANGED <<world, edits>>

\* A new operator takes over; a play of the old one ends where it is.
OperatorUpgraded ==
  /\ "upgrade" \in edits.kinds /\ opver < MaxVersion
  /\ opver' = opver + 1
  /\ EndPlay("Killed")
  /\ UNCHANGED <<cr, status, obj, dep, cluster, oldAlive, budgets>>

(* Users and other controllers.                                            *)

Edit(kind) ==
  /\ kind \in edits.kinds /\ edits.left > 0
  /\ edits' = [edits EXCEPT !.left = @ - 1]
  /\ UNCHANGED <<opver, dep, cluster, pc, params, info, reg, loopFailed, seen,
                 result, faults>>

EditSpec ==
  /\ Edit("spec")
  /\ cr.exists
  /\ \E p \in Placements, n \in Replicas :
       cr' = [cr EXCEPT !.placement = p, !.replicas = n]
  /\ UNCHANGED <<status, obj, oldAlive, fresh>>

EditAnnotation ==
  /\ Edit("pause")
  /\ cr.exists
  /\ \E a \in CrAnnotations : cr' = [cr EXCEPT !.annotation = a]
  /\ UNCHANGED <<status, obj, oldAlive, fresh>>

DeleteCr ==
  /\ Edit("delete")
  /\ cr.exists
  /\ cr' = [cr EXCEPT !.exists = FALSE]
  /\ status' = EmptyStatus
  /\ UNCHANGED <<obj, oldAlive, fresh>>

\* With another spec, if specs are edited at all.
RecreateCr ==
  /\ Edit("delete")
  /\ ~cr.exists /\ cr.uid < MaxUid
  /\ \E p \in Placements, n \in Replicas :
       /\ "spec" \in edits.kinds \/ (p = cr.placement /\ n = cr.replicas)
       /\ cr' = [exists |-> TRUE, uid |-> cr.uid + 1, annotation |-> "absent",
                 placement |-> p, replicas |-> n]
  /\ UNCHANGED <<status, obj, oldAlive, fresh>>

DeleteOldCr ==
  /\ Edit("delete")
  /\ oldAlive
  /\ oldAlive' = FALSE
  /\ UNCHANGED <<cr, status, obj, fresh>>

AddForeignOwner(o) ==
  /\ Edit("own")
  /\ obj[o].present
  /\ ~OwnedBy(obj[o].refs, Foreign)
  /\ obj' = [obj EXCEPT ![o].refs =
               IF IsList(@) THEN Append(@, OwnerRef(Foreign))
                            ELSE <<OwnerRef(Foreign)>>]
  /\ fresh' = fresh \ {o}
  /\ UNCHANGED <<cr, status, oldAlive>>

Alive(u) == \/ u = Foreign
            \/ u = OldUid /\ oldAlive
            \/ u = cr.uid /\ cr.exists

\* The garbage collector deletes an object all of whose owners are gone.
CollectGarbage(o) ==
  /\ obj[o].present
  /\ Owners(obj[o].refs) # {}
  /\ \A u \in Owners(obj[o].refs) : ~Alive(u)
  /\ obj' = [obj EXCEPT ![o] = NoObject]
  /\ dep' = IF o = "dep" THEN OldDeployment ELSE dep
  /\ fresh' = fresh \ {o}
  /\ UNCHANGED <<opver, cr, status, cluster, oldAlive, pc, params, info, reg,
                 loopFailed, seen, result, budgets>>

\* It drops the references to owners that are gone while another one is there.
PruneReferences(o) ==
  /\ obj[o].present
  /\ \E u \in Owners(obj[o].refs) : ~Alive(u)
  /\ \E u \in Owners(obj[o].refs) : Alive(u)
  /\ obj' = [obj EXCEPT ![o].refs = Pruned(obj[o].refs, {u \in Uids : Alive(u)})]
  /\ fresh' = fresh \ {o}
  /\ UNCHANGED <<opver, cr, status, dep, cluster, oldAlive, pc, params, info, reg,
                 loopFailed, seen, result, budgets>>

(* The Deployment controller: it learns of a change some time after it was *)
(* made, counts old and new pods while it replaces them, and gets done.    *)

DeploymentStatus(phase, replicas, ready) ==
  /\ obj["dep"].present
  /\ dep' = [dep EXCEPT !.phase = phase, !.replicas = replicas, !.ready = ready]
  /\ fresh' = fresh \ {"dep"}
  /\ UNCHANGED <<opver, cr, status, obj, cluster, oldAlive, pc, params, info, reg,
                 loopFailed, seen, result, edits>>

RolloutStarts ==
  /\ dep.phase = "stale"
  /\ \E ready \in 0..(dep.want + 1) :
       DeploymentStatus("rolling", dep.want + 1, ready)
  /\ UNCHANGED faults

RolloutEnds ==
  /\ dep.phase = "rolling"
  /\ DeploymentStatus("done", dep.want, dep.want)
  /\ UNCHANGED faults

PodFails ==
  /\ dep.phase = "done" /\ dep.ready > 0
  /\ faults > 0
  /\ faults' = faults - 1
  /\ DeploymentStatus("done", dep.replicas, dep.ready - 1)

PodRecovers ==
  /\ dep.phase = "done" /\ dep.ready < dep.replicas
  /\ DeploymentStatus("done", dep.replicas, dep.ready + 1)
  /\ UNCHANGED faults

Users == EditSpec \/ EditAnnotation \/ DeleteCr \/ RecreateCr \/ DeleteOldCr
         \/ \E o \in Objects : AddForeignOwner(o)
GarbageCollector == \E o \in Objects : CollectGarbage(o) \/ PruneReferences(o)
DeploymentController == RolloutStarts \/ RolloutEnds \/ PodFails \/ PodRecovers
Operator == StartPlay \/ OperatorKilled \/ OperatorUpgraded

Next == \/ Play \/ ItemFails \/ CallFails \/ Operator
        \/ Users \/ GarbageCollector \/ DeploymentController

Spec == Init /\ [][Next]_vars

(***************************************************************************)
(* Fairness: ansible-operator keeps starting plays, a play keeps running   *)
(* its tasks, the garbage collector collects.  Nothing is assumed of users,*)
(* of faults or of the Deployment's pods.                                  *)
(***************************************************************************)
Fairness == /\ WF_vars(StartPlay)
            /\ WF_vars(Play)
            /\ \A o \in Objects : /\ WF_vars(CollectGarbage(o))
                                  /\ WF_vars(PruneReferences(o))

FairSpec == Spec /\ Fairness

--------------------------------------------------------------------------------
(* Safety.                                                                 *)

\* The latest play got to its end for the CR that is there now.
Reported == /\ result.outcome \in {"Successful", "Requeued"}
            /\ cr.exists /\ cr.uid = result.uid

Conditions(available) ==
  [t \in ConditionTypes |-> IF (t = "Available") = available THEN "True" ELSE "False"]

\* The three conditions and the two versions are written by five separate patches.
\* When a play has ended by itself they agree: after a success the CR is available,
\* not progressing, not degraded, and observed at the running operator's version;
\* after a requeue it is the opposite.  A play that fails half-way, a CR deleted and
\* created again under a running play, or an upgrade must not leave a mixture that
\* passes for a report.
ReportCoherent ==
  Reported => /\ status.target = opver
              /\ status.cond = Conditions(result.outcome = "Successful")
              /\ result.outcome = "Successful" => status.observed = opver

\* When a play has ended by itself, each of the three objects is there and is owned
\* by the CR, whoever created it and under whatever uid: the CR of the old API group
\* can be deleted without taking them along.
AdoptedWhenReported ==
  Reported => \A o \in Objects : obj[o].present /\ OwnedBy(obj[o].refs, cr.uid)

\* observedVersion never names a version that the Deployment was not yet changed to:
\* not after an upgrade in the middle of a play, not with facts of an earlier play.
ObservedNotAhead ==
  obj["dep"].present => dep.template.version >= status.observed

\* The play patches ownerReferences as a list it read some tasks ago.  No living
\* owner that was added meanwhile is ever dropped from an object.
OwnersKept ==
  [][\A o \in Objects : (obj[o].present /\ obj'[o].present) =>
       \A u \in Owners(obj[o].refs) : Alive(u) => u \in Owners(obj'[o].refs)]_vars

\* The webhook's failurePolicy is Fail: from its registration on, no virtual machine
\* can be created without the validator.  It is registered only when everything the
\* validator needs is there, unless its CR was deleted under the running play.
WebhookBacked ==
  [][("webhook" \in cluster' \ cluster /\ cr.exists /\ cr.uid = info.uid)
       => /\ {"viewRole", "crb"} \subseteq cluster
          /\ \A o \in Objects : obj[o].present]_vars

--------------------------------------------------------------------------------
(* Liveness, under FairSpec.                                               *)

Running == cr.exists /\ cr.annotation \in {"absent", "empty", "false"}

Deployed == /\ obj["dep"].present
            /\ dep.template = [version |-> opver, placement |-> cr.placement]
            /\ dep.want = cr.replicas

PodsReady == obj["dep"].present /\ dep.phase = "done" /\ dep.ready = dep.replicas
PodsMissing == obj["dep"].present /\ dep.phase = "done" /\ dep.ready < dep.replicas

\* The emergency disable: once the annotation stays, no play gets past its check, and
\* the operator no longer touches the operand.
PauseStopsPlays ==
  <>[](cr.exists /\ cr.annotation = "true") => <>[](pc \in {"idle", "lookup", "check"})

\* While a CR stays and is not paused, its Deployment gets to the operator's version,
\* the CR's placement and number of replicas, and stays there; whatever failed, was
\* edited, restarted or upgraded before.
EventuallyDeployed == <>[]Running => <>[]Deployed

\* When the pods stay ready, the CR is reported available at the running version, and
\* goes on being so.
ReportsAvailable ==
  <>[](Running /\ PodsReady /\ dep.replicas > 0)
    => <>[](status.cond = Conditions(TRUE) /\ status.observed = opver)

\* When pods stay away, the CR is reported degraded (docs/dev/status-conditions.md).
ReportsDegraded ==
  <>[](Running /\ PodsMissing) => <>[](status.cond = Conditions(FALSE))

\* When the CR is deleted for good, what the operator created for it in its namespace
\* goes too, also what a play still running created afterwards.
LeavesNothing ==
  <>[](~cr.exists /\ ~oldAlive) => <>[](\A o \in Objects : ~obj[o].present)

--------------------------------------------------------------------------------
(* What the repository says and the code does not do.                      *)

\* ObservedVersion is documented as the version of the deployed operands: it changes
\* only when the Deployment's pods have been replaced.
ObservedMeansDeployed ==
  [][(status'.observed # status.observed /\ status'.observed # Unset)
       => dep.phase = "done"]_vars

\* Existing resources are adopted: an object gets the CR as an owner sooner or later.
ExistingAdopted ==
  <>[]Running => <>(\A o \in Objects : obj[o].present /\ OwnedBy(obj[o].refs, cr.uid))

================================================================================
