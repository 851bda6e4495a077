------------------------ MODULE TemplateValidatorProofs ------------------------
(***************************************************************************)
(* The safety of the KubevirtTemplateValidator plays, for any number of    *)
(* versions, CRs, edits and faults: the invariants and the action          *)
(* properties of TemplateValidator, from one inductive invariant.          *)
(*                                                                         *)
(* The invariant follows the play: each of its parts says what is true of  *)
(* the cluster from the task that establishes it to the end, whatever the  *)
(* others do in between.  First comes what kinds of steps change and leave *)
(* alone, then one lemma for each part, then the theorems.                 *)
(***************************************************************************)
EXTENDS TemplateValidator, OwnershipLemmas

--------------------------------------------------------------------------------
(* The inductive invariant: what holds from which task of a play on.        *)

AfterInject == {"webhook", "refresh", "Progressing", "Available", "Degraded",
                "observed", "requeue"}
AfterCollect == AfterInject \cup {"inject_sa", "inject_svc", "inject_dep"}
AfterLoop == AfterCollect \cup {"collect"}
AfterVersions == AfterLoop \cup {"viewRole", "sa", "crb", "svc", "dep"}

\* The tasks after the one that applies o, after the one that injects its owner.
AfterApply(o) ==
  AfterLoop \cup (CASE o = "sa"  -> {"crb", "svc", "dep"}
                    [] o = "svc" -> {"dep"}
                    [] OTHER     -> {})

AfterInjection(o) ==
  AfterInject \cup (CASE o = "sa"  -> {"inject_svc", "inject_dep"}
                      [] o = "svc" -> {"inject_dep"}
                      [] OTHER     -> {})

AfterCondition(type) ==
  {"observed", "requeue"} \cup (CASE type = "Progressing" -> {"Available", "Degraded"}
                                [] type = "Available"   -> {"Degraded"}
                                [] OTHER                -> {})

\* The CR that the play looked up is still there.
Mine == cr.exists /\ cr.uid = info.uid

Truth(fact) == IF fact THEN "True" ELSE "False"

\* No owner is named twice; past Collect, every object has the key.
RefsSound ==
  /\ \A o \in Objects : Distinct(obj[o].refs) /\ Distinct(reg[o])
  /\ pc \in AfterCollect => \A o \in Objects : Injectable(reg[o])

\* What the play registered of an object is what there is, until it is patched.
FreshSound ==
  \A o \in fresh : /\ pc \in AfterApply(o)
                   /\ \/ pc \in AfterInjection(o)
                      \/ obj[o].present /\ obj[o].refs = reg[o]

\* uids grow.
UidsSound == info.uid <= cr.uid /\ result.uid <= cr.uid

\* A regular end stays until the next play starts.
EndedSound == result.outcome \in {"Successful", "Requeued"} => pc = "idle"

\* Objects that have been adopted are there, and stay adopted.
AdoptedSound ==
  Mine => \A o \in Objects :
            pc \in AfterInjection(o) =>
              obj[o].present /\ OwnedBy(obj[o].refs, info.uid)

\* What the play applied cluster-wide, and that it gets past Collect only in full.
ClusterSound ==
  /\ pc \in AfterCollect => ~loopFailed
  /\ pc \in AfterVersions \ {"viewRole"} => "viewRole" \in cluster
  /\ pc \in AfterApply("sa") \ {"crb"} => loopFailed \/ "crb" \in cluster

\* Past the loop, the Deployment is at the operator's version.
DeploymentSound ==
  /\ status.observed <= opver
  /\ (pc \in AfterLoop /\ ~loopFailed /\ obj["dep"].present)
       => dep.template.version = opver

\* The status agrees with what the play has seen, as far as it has written it.
StatusSound ==
  Mine => /\ pc \in AfterVersions => status.target = opver
          /\ \A type \in ConditionTypes :
               pc \in AfterCondition(type) => status.cond[type] = Truth(Fact(type))
          /\ (pc = "requeue" /\ ObservedWhen) => status.observed = opver

IInv ==
  /\ TypeOK /\ RefsSound /\ FreshSound /\ UidsSound /\ EndedSound
  /\ AdoptedSound /\ AdoptedWhenReported
  /\ ClusterSound
  /\ DeploymentSound /\ ObservedNotAhead
  /\ StatusSound /\ ReportCoherent

--------------------------------------------------------------------------------
(* The order of the tasks.                                                  *)

\* No task is listed twice.
LEMMA TasksDiffer ==
  /\ Len(Tasks) = 19
  /\ \A i, j \in 1..19 : Tasks[i] = Tasks[j] => i = j
BY DEF Tasks

\* Following is the next one of the list.
LEMMA NextTask == ASSUME NEW i \in 1..18 PROVE Following(Tasks[i]) = Tasks[i + 1]
<1> DEFINE k == CHOOSE j \in 1..(Len(Tasks) - 1) : Tasks[j] = Tasks[i]
<1>1. k \in 1..18 /\ Tasks[k] = Tasks[i]
  BY TasksDiffer
<1>2. Following(Tasks[i]) = Tasks[1 + k]
  BY DEF Following
<1> HIDE DEF k
<1>3. k = i
  BY <1>1, TasksDiffer
<1> QED
  BY <1>2, <1>3

\* The order of the tasks, spelled out.
LEMMA Order ==
  /\ Following("lookup") = "check"
  /\ Following("check") = "versions"
  /\ Following("versions") = "viewRole"
  /\ Following("viewRole") = "sa"
  /\ Following("sa") = "crb"
  /\ Following("crb") = "svc"
  /\ Following("svc") = "dep"
  /\ Following("dep") = "collect"
  /\ Following("collect") = "inject_sa"
  /\ Following("inject_sa") = "inject_svc"
  /\ Following("inject_svc") = "inject_dep"
  /\ Following("inject_dep") = "webhook"
  /\ Following("webhook") = "refresh"
  /\ Following("refresh") = "Progressing"
  /\ Following("Progressing") = "Available"
  /\ Following("Available") = "Degraded"
  /\ Following("Degraded") = "observed"
  /\ Following("observed") = "requeue"
<1>1. /\ Following(Tasks[1]) = Tasks[2] /\ Following(Tasks[2]) = Tasks[3]
      /\ Following(Tasks[3]) = Tasks[4] /\ Following(Tasks[4]) = Tasks[5]
      /\ Following(Tasks[5]) = Tasks[6] /\ Following(Tasks[6]) = Tasks[7]
      /\ Following(Tasks[7]) = Tasks[8] /\ Following(Tasks[8]) = Tasks[9]
      /\ Following(Tasks[9]) = Tasks[10] /\ Following(Tasks[10]) = Tasks[11]
      /\ Following(Tasks[11]) = Tasks[12] /\ Following(Tasks[12]) = Tasks[13]
      /\ Following(Tasks[13]) = Tasks[14] /\ Following(Tasks[14]) = Tasks[15]
      /\ Following(Tasks[15]) = Tasks[16] /\ Following(Tasks[16]) = Tasks[17]
      /\ Following(Tasks[17]) = Tasks[18] /\ Following(Tasks[18]) = Tasks[19]
  BY NextTask
<1> QED
  BY <1>1 DEF Tasks

\* The names of the tasks, spelled out.
LEMMA TaskList ==
  TaskNames = {"lookup", "check", "versions", "viewRole", "sa", "crb", "svc", "dep",
               "collect", "inject_sa", "inject_svc", "inject_dep", "webhook",
               "refresh", "Progressing", "Available", "Degraded", "observed", "requeue"}
<1>1. DOMAIN Tasks = 1..19
  BY DEF Tasks
<1>2. TaskNames = {Tasks[i] : i \in 1..19}
  BY <1>1 DEF TaskNames
<1> QED
  BY <1>2 DEF Tasks

\* A task that is not the last is followed by another.
LEMMA GoesOn ==
  ASSUME pc \in TaskNames \ {"requeue"}, GoOn
  PROVE  pc' \in TaskNames /\ pc' = Following(pc)
BY TaskList, Order DEF GoOn

\* What the assumptions say of the values taken from the constants.
LEMMA ConstantsTyped ==
  /\ SomePlacement \in Placements /\ SomeReplicas \in Replicas
  /\ Replicas \subseteq Nat /\ 1 \in CrUids
  /\ CrUids \subseteq Uids /\ OldUid \in Uids /\ Foreign \in Uids
  /\ CrUids \subseteq Nat
BY ValidatorAssumption DEF SomePlacement, SomeReplicas, CrUids

\* A list of one owner is a value of ownerReferences.
LEMMA OneOwnerTyped ==
  ASSUME NEW u \in Uids
  PROVE  <<OwnerRef(u)>> \in Seq(Ref) /\ <<OwnerRef(u)>> \in References
BY OwnerRefTyped DEF References

\* The initial and reset values have the types of TypeOK.
LEMMA NoneTyped ==
  /\ NoParams \in [uid : CrUids, replicas : Replicas]
  /\ NoInfo \in [uid : CrUids, annotation : CrAnnotations, placement : Placements]
  /\ NoResults \in [Objects -> References]
  /\ NothingSeen \in [replicas : Nat, ready : Nat]
  /\ NoObject \in [present : BOOLEAN, refs : References]
  /\ OldDeployment \in DeploymentContent
  /\ EmptyStatus \in CrStatus
<1>1. NoParams \in [uid : CrUids, replicas : Replicas]
  BY ConstantsTyped DEF NoParams
<1>2. NoInfo \in [uid : CrUids, annotation : CrAnnotations, placement : Placements]
  BY ConstantsTyped, ValidatorAssumption DEF NoInfo
<1>3. NoResults \in [Objects -> References]
  BY DEF NoResults, References
<1>4. NothingSeen \in [replicas : Nat, ready : Nat]
  BY DEF NothingSeen
<1>5. NoObject \in [present : BOOLEAN, refs : References]
  BY DEF NoObject, References
<1>6. OldDeployment \in DeploymentContent
  BY ConstantsTyped, ValidatorAssumption
     DEF OldDeployment, DeploymentContent, Template, Versions, DefaultReplicas, Phases
<1>7. EmptyStatus \in CrStatus
  BY DEF EmptyStatus, CrStatus
<1> QED
  BY <1>1, <1>2, <1>3, <1>4, <1>5, <1>6, <1>7

\* Ending a play resets its snapshots to values of their types.
LEMMA EndPlayTyped ==
  ASSUME TypeOK, NEW outcome \in Outcomes, EndPlay(outcome)
  PROVE  /\ pc' = "idle"
         /\ params' \in [uid : CrUids, replicas : Replicas]
         /\ info' \in [uid : CrUids, annotation : CrAnnotations, placement : Placements]
         /\ reg' \in [Objects -> References]
         /\ fresh' \subseteq Objects
         /\ loopFailed' \in BOOLEAN
         /\ seen' \in [replicas : Nat, ready : Nat]
         /\ result' \in [outcome : Outcomes, uid : CrUids]
         /\ result'.outcome = outcome /\ result'.uid = info.uid
         /\ info' = NoInfo /\ fresh' = {}
BY NoneTyped DEF EndPlay, TypeOK

\* The initial states are typed.
LEMMA InitTypeOK == Init => TypeOK
<1> SUFFICES ASSUME Init PROVE TypeOK
  OBVIOUS
<1>1. PICK plan \in Plans :
        /\ cr \in [exists : {TRUE}, uid : {1}, annotation : {"absent"},
                   placement : {SomePlacement}, replicas : plan.replicas]
        /\ obj = [o \in Objects |->
                    CASE plan.objects = "none"   -> NoObject
                      [] plan.objects = "old"    -> [present |-> TRUE,
                                                     refs |-> <<OwnerRef(OldUid)>>]
                      [] plan.objects = "orphan" -> [present |-> TRUE, refs |-> NoKey]]
        /\ edits = plan.edits /\ faults = plan.faults
  BY DEF Init
<1>2. /\ plan.objects \in {"none", "old", "orphan"} /\ plan.replicas \subseteq Replicas
      /\ plan.edits \in Edits /\ plan.faults \in Nat
  BY ValidatorAssumption DEF Plan
<1>3. obj \in [Objects -> [present : BOOLEAN, refs : References]]
  <2>1. NoKey \in References /\ <<OwnerRef(OldUid)>> \in References
    BY ConstantsTyped, OneOwnerTyped DEF References
  <2> QED
    BY <1>1, <1>2, <2>1, NoneTyped
<1>4. oldAlive \in BOOLEAN
  BY DEF Init
<1>5. cr \in Cr
  BY <1>1, <1>2, ConstantsTyped, ValidatorAssumption DEF Cr
<1>6. /\ opver \in 1..MaxVersion /\ edits \in Edits /\ faults \in Nat
      /\ result \in [outcome : Outcomes, uid : CrUids]
  BY <1>1, <1>2, ConstantsTyped, ValidatorAssumption DEF Init, Outcomes
<1> QED
  BY <1>3, <1>4, <1>5, <1>6, NoneTyped DEF Init, TypeOK

\* An edit uses up one of the edits that are left.
LEMMA EditTyped ==
  ASSUME TypeOK, NEW kind, Edit(kind)
  PROVE  edits' \in Edits
BY DEF TypeOK, Edit, Edits

\* Steps keep the types; to inject an owner takes a list that can be injected into.
LEMMA NextTypeOK == TypeOK /\ RefsSound /\ [Next]_vars => TypeOK'
<1> SUFFICES ASSUME TypeOK, RefsSound, [Next]_vars PROVE TypeOK'
  OBVIOUS
<1> USE DEF TypeOK
<1>1. CASE StartPlay
  BY <1>1, TaskList DEF StartPlay, world, budgets, Cr, Outcomes
<1>2. CASE LookupCr
  BY <1>2, GoesOn, TaskList DEF LookupCr, world, budgets, Cr
<1>3. CASE CheckPassed
  BY <1>3, GoesOn, TaskList DEF CheckPassed, world, budgets, snapshots
<1>4. CASE CheckPaused
  BY <1>4, EndPlayTyped DEF CheckPaused, world, budgets, Outcomes
<1>5. CASE SetVersions
  <2>1. status' \in CrStatus
    BY <1>5, ValidatorAssumption DEF SetVersions, CrStatus, Versions
  <2> QED
    BY <1>5, <2>1, GoesOn, TaskList DEF SetVersions, budgets, snapshots
<1>6. CASE SetViewRole \/ ApplyClusterRoleBinding \/ RegisterWebhook
  BY <1>6, GoesOn, TaskList
     DEF SetViewRole, ApplyClusterRoleBinding, RegisterWebhook, ApplyClusterWide,
         budgets, snapshots
<1>7. ASSUME NEW o \in Objects, ApplyObject(o)
      PROVE  /\ pc' \in TaskNames
             /\ obj' \in [Objects -> [present : BOOLEAN, refs : References]]
             /\ reg' \in [Objects -> References]
             /\ fresh' \subseteq Objects
  <2>1. Applied(o) \in [present : BOOLEAN, refs : References]
    BY OneOwnerTyped, ConstantsTyped DEF Applied
  <2>2. pc' \in TaskNames
    BY <1>7, GoesOn, TaskList DEF ApplyObject, Objects
  <2> QED
    BY <1>7, <2>1, <2>2 DEF ApplyObject, Register
<1>8. CASE ApplyServiceAccount \/ ApplyService
  BY <1>7, <1>8 DEF ApplyServiceAccount, ApplyService, ApplyObject, budgets, Objects
<1>9. CASE ApplyDeployment
  <2> DEFINE t == [version |-> opver, placement |-> info.placement]
  <2>1. t \in Template /\ params.replicas \in Nat
    <3>1. opver \in Versions
      BY ValidatorAssumption DEF Versions
    <3>2. info.placement \in Placements /\ params.replicas \in Replicas
      OBVIOUS
    <3> QED
      BY <3>1, <3>2, ConstantsTyped DEF Template
  <2>2. NewContent(t, params.replicas) \in DeploymentContent
    BY <2>1 DEF NewContent, DeploymentContent, Phases
  <2>3. dep' \in DeploymentContent
    BY <1>9, <2>2 DEF ApplyDeployment
  <2> QED
    BY <1>7, <1>9, <2>3 DEF ApplyDeployment, ApplyObject, budgets, Objects
<1>10. CASE Collect
  BY <1>10, GoesOn, TaskList DEF Collect, world, budgets, snapshots
<1>11. CASE InjectOwner
  <2>1. Target(pc) \in Objects
    BY DEF Target, Objects
  <2>2. Inject(reg[Target(pc)], info.uid) \in References
    <3>1. Injectable(reg[Target(pc)]) /\ Distinct(reg[Target(pc)])
      BY <1>11, <2>1 DEF RefsSound, InjectOwner, Injecting, AfterCollect
    <3>2. reg[Target(pc)] \in References /\ info.uid \in Uids
      BY <2>1, ConstantsTyped
    <3> QED
      BY <3>1, <3>2, InjectAdopts DEF References
  <2>3. obj' \in [Objects -> [present : BOOLEAN, refs : References]]
    BY <1>11, <2>1, <2>2 DEF InjectOwner
  <2> QED
    BY <1>11, <2>3, GoesOn, TaskList DEF InjectOwner, Injecting, budgets, snapshots
<1>12. CASE Refresh
  BY <1>12, GoesOn, TaskList, NoneTyped DEF Refresh, world, budgets, DeploymentContent
<1>13. CASE SetCondition
  <2>1. status' \in CrStatus
    BY <1>13 DEF SetCondition, CrStatus
  <2> QED
    BY <1>13, <2>1, GoesOn, TaskList DEF SetCondition, budgets, snapshots, ConditionTypes
<1>14. CASE SetObserved
  <2>1. status' \in CrStatus
    BY <1>14, ValidatorAssumption DEF SetObserved, CrStatus, Versions
  <2> QED
    BY <1>14, <2>1, GoesOn, TaskList DEF SetObserved, budgets, snapshots
<1>15. CASE SkipObserved
  BY <1>15, GoesOn, TaskList DEF SkipObserved, world, budgets, snapshots
<1>16. CASE Finish
  BY <1>16, EndPlayTyped DEF Finish, world, budgets, Outcomes
<1>17. CASE TaskFails
  <2>1. EndPlay("Failed") /\ UNCHANGED <<world, budgets>>
    BY <1>17 DEF TaskFails, TaskFailsWhen
  <2> QED
    BY <2>1, EndPlayTyped DEF world, budgets, Outcomes
<1>18. CASE ItemFails
  BY <1>18, GoesOn, TaskList, ValidatorAssumption DEF ItemFails, world
<1>19. CASE CallFails
  BY <1>19, EndPlayTyped, ValidatorAssumption DEF CallFails, world, Outcomes
<1>20. CASE OperatorKilled
  BY <1>20, EndPlayTyped, ValidatorAssumption DEF OperatorKilled, world, Outcomes
<1>21. CASE OperatorUpgraded
  BY <1>21, EndPlayTyped, ValidatorAssumption DEF OperatorUpgraded, budgets, Outcomes
<1>22. CASE EditSpec
  <2>1. cr' \in Cr
    BY <1>22 DEF EditSpec, Cr
  <2> QED
    BY <1>22, <2>1, EditTyped DEF EditSpec, Edit
<1>23. CASE EditAnnotation
  <2>1. cr' \in Cr
    BY <1>23 DEF EditAnnotation, Cr
  <2> QED
    BY <1>23, <2>1, EditTyped DEF EditAnnotation, Edit
<1>24. CASE DeleteCr
  <2>1. cr' \in Cr
    BY <1>24 DEF DeleteCr, Cr
  <2> QED
    BY <1>24, <2>1, EditTyped, NoneTyped DEF DeleteCr, Edit
<1>25. CASE RecreateCr
  <2>1. cr' \in Cr
    BY <1>25, ValidatorAssumption DEF RecreateCr, Cr, CrUids
  <2> QED
    BY <1>25, <2>1, EditTyped DEF RecreateCr, Edit
<1>26. CASE DeleteOldCr
  BY <1>26, EditTyped DEF DeleteOldCr, Edit
<1>27. ASSUME NEW o \in Objects, AddForeignOwner(o) PROVE TypeOK'
  <2> DEFINE new == IF IsList(obj[o].refs) THEN Append(obj[o].refs, OwnerRef(Foreign))
                    ELSE <<OwnerRef(Foreign)>>
  <2>1. new \in References
    BY ListTyped, OwnerRefTyped, OneOwnerTyped, ConstantsTyped DEF References
  <2>2. obj' = [obj EXCEPT ![o].refs = new]
    BY <1>27 DEF AddForeignOwner
  <2> HIDE DEF new
  <2>3. obj' \in [Objects -> [present : BOOLEAN, refs : References]]
    BY <2>1, <2>2
  <2> QED
    BY <1>27, <2>3, EditTyped DEF AddForeignOwner, Edit
<1>28. ASSUME NEW o \in Objects, CollectGarbage(o) PROVE TypeOK'
  BY <1>28, NoneTyped DEF CollectGarbage, budgets
<1>29. ASSUME NEW o \in Objects, PruneReferences(o) PROVE TypeOK'
  <2>1. obj[o].refs \in Seq(Ref)
    BY <1>29, ListTyped DEF PruneReferences, Owners
  <2>2. Distinct(obj[o].refs)
    BY DEF RefsSound
  <2> DEFINE rest == Pruned(obj[o].refs, {u \in Uids : Alive(u)})
  <2>3. obj' = [obj EXCEPT ![o].refs = rest]
    BY <1>29 DEF PruneReferences
  <2>4. rest \in References
    BY <2>1, <2>2, PruneKeeps DEF References
  <2> HIDE DEF rest
  <2>5. obj' \in [Objects -> [present : BOOLEAN, refs : References]]
    BY <2>3, <2>4
  <2> QED
    BY <1>29, <2>5 DEF PruneReferences, budgets
<1>30. CASE DeploymentController
  <2>1. ASSUME NEW phase \in Phases, NEW replicas \in Nat, NEW ready \in Nat,
               DeploymentStatus(phase, replicas, ready)
        PROVE  /\ dep' \in DeploymentContent
               /\ fresh' \subseteq Objects
               /\ UNCHANGED <<opver, cr, status, obj, cluster, oldAlive, pc, params,
                              info, reg, loopFailed, seen, result, edits>>
    BY <2>1 DEF DeploymentStatus, DeploymentContent
  <2>2. CASE RolloutStarts
    <3>1. PICK ready \in 0..(dep.want + 1) : DeploymentStatus("rolling", dep.want + 1, ready)
      BY <2>2 DEF RolloutStarts
    <3>2. ready \in Nat /\ dep.want + 1 \in Nat
      BY DEF DeploymentContent
    <3> QED
      BY <2>1, <2>2, <3>1, <3>2 DEF RolloutStarts, Phases
  <2>3. CASE RolloutEnds
    BY <2>1, <2>3 DEF RolloutEnds, Phases, DeploymentContent
  <2>4. CASE PodFails
    <3>1. dep.ready - 1 \in Nat /\ dep.replicas \in Nat
      BY <2>4 DEF PodFails, DeploymentContent
    <3>2. faults' \in Nat
      BY <2>4, ValidatorAssumption DEF PodFails
    <3>3. DeploymentStatus("done", dep.replicas, dep.ready - 1) /\ "done" \in Phases
      BY <2>4 DEF PodFails, Phases
    <3>4. /\ dep' \in DeploymentContent
          /\ fresh' \subseteq Objects
          /\ UNCHANGED <<opver, cr, status, obj, cluster, oldAlive, pc, params,
                         info, reg, loopFailed, seen, result, edits>>
      BY <2>1, <3>1, <3>3
    <3> QED
      BY <3>2, <3>4
  <2>5. CASE PodRecovers
    <3>1. dep.ready + 1 \in Nat /\ dep.replicas \in Nat
      BY DEF DeploymentContent
    <3>2. DeploymentStatus("done", dep.replicas, dep.ready + 1) /\ "done" \in Phases
      BY <2>5 DEF PodRecovers, Phases
    <3> QED
      BY <2>1, <2>5, <3>1, <3>2 DEF PodRecovers
  <2> QED
    BY <1>30, <2>2, <2>3, <2>4, <2>5 DEF DeploymentController
<1>31. CASE UNCHANGED vars
  BY <1>31 DEF vars, world, snapshots, budgets
<1> QED
  BY <1>1, <1>2, <1>3, <1>4, <1>5, <1>6, <1>8, <1>9, <1>10, <1>11, <1>12, <1>13, <1>14,
     <1>15, <1>16, <1>17, <1>18, <1>19, <1>20, <1>21, <1>22, <1>23, <1>24, <1>25, <1>26,
     <1>27, <1>28, <1>29, <1>30, <1>31
     DEF Next, Play, Operator, Users, GarbageCollector

--------------------------------------------------------------------------------
(* What the kinds of steps leave alone.                                     *)

\* The steps that end a play.
Ending == CheckPaused \/ Finish \/ TaskFails \/ CallFails
          \/ OperatorKilled \/ OperatorUpgraded

\* What the end of a play changes, and what a regular end says of it.
LEMMA EndingEffect ==
  ASSUME TypeOK, Ending
  PROVE  /\ pc' = "idle" /\ info' = NoInfo /\ reg' = NoResults
         /\ fresh' = {} /\ loopFailed' = FALSE
         /\ result'.uid = info.uid
         /\ UNCHANGED <<cr, status, obj, dep, cluster, oldAlive>>
         /\ opver \in Nat /\ opver' \in Nat /\ opver <= opver'
         /\ result'.outcome \in {"Successful", "Requeued"} =>
              /\ pc = "requeue" /\ opver' = opver
              /\ (result'.outcome = "Successful") = AllReady
<1> USE DEF EndPlay, TypeOK
<1>0. opver \in Nat
  BY ValidatorAssumption
<1>1. CASE CheckPaused
  BY <1>0, <1>1 DEF CheckPaused, world
<1>2. CASE Finish
  <2>1. /\ EndPlay(IF AllReady THEN "Successful" ELSE "Requeued")
        /\ pc = "requeue" /\ UNCHANGED world
    BY <1>2 DEF Finish
  <2>2. result'.outcome = IF AllReady THEN "Successful" ELSE "Requeued"
    BY <2>1
  <2>3. AllReady \in BOOLEAN
    BY DEF AllReady
  <2>4. (result'.outcome = "Successful") = AllReady
    BY <2>2, <2>3
  <2> QED
    BY <1>0, <2>1, <2>4 DEF world
<1>3. CASE TaskFails
  <2>1. EndPlay("Failed") /\ UNCHANGED <<world, budgets>>
    BY <1>3 DEF TaskFails, TaskFailsWhen
  <2> QED
    BY <1>0, <2>1 DEF world
<1>4. CASE CallFails
  BY <1>0, <1>4 DEF CallFails, world
<1>5. CASE OperatorKilled
  BY <1>0, <1>5 DEF OperatorKilled, world
<1>6. CASE OperatorUpgraded
  BY <1>0, <1>6 DEF OperatorUpgraded
<1> QED
  BY <1>1, <1>2, <1>3, <1>4, <1>5, <1>6 DEF Ending

\* The Deployment controller changes nothing but the Deployment's status.
LEMMA DeploymentControllerEffect ==
  ASSUME TypeOK, DeploymentController
  PROVE  /\ dep'.template = dep.template
         /\ fresh' \subseteq fresh
         /\ UNCHANGED <<opver, cr, status, obj, cluster, oldAlive, pc, params, info,
                        reg, loopFailed, seen, result>>
<1>1. ASSUME NEW phase, NEW replicas, NEW ready, DeploymentStatus(phase, replicas, ready)
      PROVE  /\ dep'.template = dep.template
             /\ fresh' \subseteq fresh
             /\ UNCHANGED <<opver, cr, status, obj, cluster, oldAlive, pc, params, info,
                            reg, loopFailed, seen, result>>
  BY <1>1 DEF DeploymentStatus, TypeOK, DeploymentContent
<1> QED
  BY <1>1 DEF DeploymentController, RolloutStarts, RolloutEnds, PodFails, PodRecovers

\* The steps of users on the CRs.
CrEdited == EditSpec \/ EditAnnotation \/ DeleteCr \/ RecreateCr \/ DeleteOldCr

\* A CR that appears has a uid of its own; one that goes takes its status along.
LEMMA CrEditedEffect ==
  ASSUME TypeOK, CrEdited
  PROVE  /\ UNCHANGED <<opver, dep, cluster, obj, fresh, pc, params, info, reg,
                        loopFailed, seen, result>>
         /\ \/ /\ cr'.exists /\ cr'.uid = cr.uid + 1
               /\ status' = status
            \/ /\ ~cr'.exists /\ cr'.uid = cr.uid
               /\ status' = EmptyStatus
            \/ /\ cr'.exists = cr.exists /\ cr'.uid = cr.uid
               /\ status' = status
<1> USE DEF Edit, TypeOK, Cr
<1>1. CASE EditSpec
  BY <1>1 DEF EditSpec
<1>2. CASE EditAnnotation
  BY <1>2 DEF EditAnnotation
<1>3. CASE DeleteCr
  BY <1>3 DEF DeleteCr
<1>4. CASE RecreateCr
  BY <1>4 DEF RecreateCr
<1>5. CASE DeleteOldCr
  BY <1>5 DEF DeleteOldCr
<1> QED
  BY <1>1, <1>2, <1>3, <1>4, <1>5 DEF CrEdited

\* The steps on the references of one object from outside the play.
LEMMA OwnerAdded ==
  ASSUME TypeOK, RefsSound, NEW o \in Objects, AddForeignOwner(o)
  PROVE  /\ UNCHANGED <<opver, cr, status, dep, cluster, oldAlive, pc, params, info,
                        reg, loopFailed, seen, result>>
         /\ fresh' = fresh \ {o}
         /\ obj'[o].present /\ obj[o].present /\ Distinct(obj'[o].refs)
         /\ Owners(obj'[o].refs) = Owners(obj[o].refs) \cup {Foreign}
         /\ \A q \in Objects \ {o} : obj'[q] = obj[q]
<1> DEFINE refs == obj[o].refs
           own == OwnerRef(Foreign)
           new == IF IsList(refs) THEN Append(refs, own) ELSE <<own>>
<1>1. refs \in References /\ Distinct(refs) /\ Foreign \notin Owners(refs)
  BY DEF TypeOK, RefsSound, AddForeignOwner, OwnedBy
<1>2. own \in Ref /\ own.uid = Foreign
  BY ConstantsTyped, OwnerRefTyped
<1>3. obj' = [obj EXCEPT ![o].refs = new]
  BY DEF AddForeignOwner
<1> HIDE DEF own, refs, new
<1>4. Distinct(new) /\ Owners(new) = Owners(refs) \cup {Foreign}
  <2>1. CASE IsList(refs)
    <3>1. refs \in Seq(Ref)
      BY <1>1, <2>1, ListTyped
    <3>2. /\ new \in Seq(Ref) /\ Len(new) = Len(refs) + 1 /\ Len(refs) \in Nat
          /\ \A k \in 1..Len(refs) : new[k] = refs[k]
          /\ new[Len(refs) + 1] = own
      BY <1>2, <2>1, <3>1 DEF new
    <3>3. IsList(new)
      BY <3>2, ListTyped DEF References
    <3>4. \A k \in 1..Len(refs) : refs[k].uid # Foreign
      BY <1>1, <2>1 DEF Owners
    <3>5. Distinct(new)
      BY <1>1, <1>2, <2>1, <3>2, <3>4 DEF Distinct
    <3>6. \A v : v \in Owners(new) <=> \E k \in 1..(Len(refs) + 1) : v = new[k].uid
      BY <3>2, <3>3 DEF Owners
    <3>7. \A v : v \in Owners(refs) <=> \E k \in 1..Len(refs) : v = refs[k].uid
      BY <2>1 DEF Owners
    <3>8. \A v : v \in Owners(new) <=> v \in Owners(refs) \/ v = Foreign
      BY <1>2, <3>2, <3>6, <3>7
    <3> QED
      BY <3>5, <3>8
  <2>2. CASE ~IsList(refs)
    <3>1. new = <<own>> /\ Owners(refs) = {}
      BY <2>2 DEF new, Owners
    <3>2. new \in Seq(Ref) /\ Len(new) = 1 /\ new[1] = own
      BY <1>2, <3>1
    <3>3. IsList(new)
      BY <3>2, ListTyped DEF References
    <3>4. Distinct(new) /\ Owners(new) = {Foreign}
      BY <1>2, <3>2, <3>3 DEF Distinct, Owners
    <3> QED
      BY <3>1, <3>4
  <2> QED
    BY <2>1, <2>2
<1>5. /\ obj'[o].present = obj[o].present /\ obj'[o].refs = new
      /\ \A q \in Objects \ {o} : obj'[q] = obj[q]
  BY <1>3 DEF TypeOK
<1>6. obj[o].present
  BY DEF AddForeignOwner
<1>7. /\ UNCHANGED <<opver, cr, status, dep, cluster, oldAlive, pc, params, info,
                     reg, loopFailed, seen, result>>
      /\ fresh' = fresh \ {o}
  BY DEF AddForeignOwner, Edit
<1> QED
  BY <1>4, <1>5, <1>6, <1>7 DEF refs

\* The garbage collector keeps the living owners, and no reference twice.
LEMMA ReferencesPruned ==
  ASSUME TypeOK, RefsSound, NEW o \in Objects, PruneReferences(o)
  PROVE  /\ UNCHANGED <<opver, cr, status, dep, cluster, oldAlive, pc, params, info,
                        reg, loopFailed, seen, result>>
         /\ fresh' = fresh \ {o}
         /\ obj'[o].present /\ obj[o].present /\ Distinct(obj'[o].refs)
         /\ \A u \in Owners(obj[o].refs) : Alive(u) => u \in Owners(obj'[o].refs)
         /\ \A q \in Objects \ {o} : obj'[q] = obj[q]
<1> DEFINE refs == obj[o].refs
<1>1. refs \in Seq(Ref) /\ IsList(refs) /\ Distinct(refs)
  BY ListTyped DEF TypeOK, RefsSound, PruneReferences, Owners
<1> DEFINE rest == Pruned(refs, {u \in Uids : Alive(u)})
<1>2. obj' = [obj EXCEPT ![o].refs = rest]
  BY DEF PruneReferences
<1> HIDE DEF refs
<1>3. Owners(refs) \subseteq Uids
  <2>1. \A i \in 1..Len(refs) : refs[i] \in Ref
    BY <1>1
  <2>2. \A i \in 1..Len(refs) : refs[i].uid \in Uids
    BY <2>1 DEF Ref
  <2> QED
    BY <1>1, <2>2 DEF Owners
<1>4. Distinct(rest) /\ Owners(rest) = Owners(refs) \cap {u \in Uids : Alive(u)}
  BY <1>1, PruneKeeps
<1> HIDE DEF rest
<1>5. \A u \in Owners(refs) : Alive(u) => u \in Owners(rest)
  BY <1>3, <1>4
<1>6. /\ obj'[o].present = obj[o].present /\ obj'[o].refs = rest
      /\ \A q \in Objects \ {o} : obj'[q] = obj[q]
  BY <1>2 DEF TypeOK
<1>7. /\ UNCHANGED <<opver, cr, status, dep, cluster, oldAlive, pc, params, info,
                     reg, loopFailed, seen, result>>
      /\ fresh' = fresh \ {o} /\ obj[o].present
  BY DEF PruneReferences, budgets
<1> QED
  BY <1>4, <1>5, <1>6, <1>7 DEF refs

\* The tasks of a play that leave the owned objects alone, a failed one included.
Walking == LookupCr \/ CheckPassed \/ SetVersions \/ SetViewRole
           \/ ApplyClusterRoleBinding \/ RegisterWebhook \/ Collect \/ Refresh
           \/ SetCondition \/ SetObserved \/ SkipObserved \/ ItemFails

\* What these tasks change, and what is true when the play goes on.
LEMMA WalkingEffect ==
  ASSUME TypeOK, Walking
  PROVE  /\ UNCHANGED <<opver, cr, obj, dep, oldAlive, params, reg, fresh, result>>
         /\ pc \in TaskNames \ {"requeue", "inject_sa", "inject_svc", "inject_dep"}
         /\ pc' = Following(pc)
         /\ pc = "collect" => AllInjectable(reg) /\ ~loopFailed
         /\ pc \in {"sa", "svc", "dep"} => loopFailed'
         /\ pc \notin {"sa", "crb", "svc", "dep"} => loopFailed' = loopFailed
         /\ loopFailed => loopFailed'
         /\ cluster \subseteq cluster'
         /\ pc = "viewRole" => "viewRole" \in cluster'
         /\ pc = "crb" => "crb" \in cluster' \/ loopFailed'
         /\ pc = "lookup" => info'.uid = cr.uid
         /\ pc # "lookup" => info' = info
         /\ pc # "refresh" => seen' = seen
<1> USE TaskList DEF TypeOK, GoOn, world, snapshots
<1>1. CASE LookupCr
  BY <1>1 DEF LookupCr
<1>2. CASE CheckPassed
  BY <1>2 DEF CheckPassed
<1>3. CASE SetVersions
  BY <1>3 DEF SetVersions
<1>4. CASE SetViewRole
  BY <1>4 DEF SetViewRole, ApplyClusterWide
<1>5. CASE ApplyClusterRoleBinding
  BY <1>5 DEF ApplyClusterRoleBinding, ApplyClusterWide
<1>6. CASE RegisterWebhook
  BY <1>6 DEF RegisterWebhook, ApplyClusterWide
<1>7. CASE Collect
  BY <1>7 DEF Collect
<1>8. CASE Refresh
  BY <1>8 DEF Refresh
<1>9. CASE SetCondition
  BY <1>9 DEF SetCondition, ConditionTypes
<1>10. CASE SetObserved
  BY <1>10 DEF SetObserved
<1>11. CASE SkipObserved
  BY <1>11 DEF SkipObserved
<1>12. CASE ItemFails
  BY <1>12 DEF ItemFails
<1> QED
  BY <1>1, <1>2, <1>3, <1>4, <1>5, <1>6, <1>7, <1>8, <1>9, <1>10, <1>11, <1>12 DEF Walking

Applying == ApplyServiceAccount \/ ApplyService \/ ApplyDeployment

\* An apply task leaves an existing object's owners as they are and registers them.
LEMMA ApplyingEffect ==
  ASSUME TypeOK, RefsSound, Applying
  PROVE  /\ pc \in Objects /\ pc' = Following(pc)
         /\ obj'[pc].present /\ Distinct(obj'[pc].refs)
         /\ obj[pc].present => obj'[pc] = obj[pc]
         /\ reg'[pc] = obj'[pc].refs
         /\ \A o \in Objects \ {pc} : obj'[o] = obj[o] /\ reg'[o] = reg[o]
         /\ fresh' = fresh \cup {pc}
         /\ UNCHANGED <<opver, cr, status, cluster, oldAlive, info, params, loopFailed,
                        seen, result>>
         /\ pc # "dep" => dep' = dep
<1>1. pc \in Objects /\ ApplyObject(pc) /\ (pc # "dep" => dep' = dep)
  BY DEF Applying, ApplyServiceAccount, ApplyService, ApplyDeployment, ApplyObject, Objects
<1>2. /\ Applied(pc).present /\ Distinct(Applied(pc).refs)
      /\ obj[pc].present => Applied(pc) = obj[pc]
  <2>1. CASE obj[pc].present
    BY <1>1, <2>1 DEF Applied, RefsSound
  <2>2. CASE ~obj[pc].present
    BY <2>2 DEF Applied, Distinct
  <2> QED
    BY <2>1, <2>2
<1>3. /\ obj' = [obj EXCEPT ![pc] = Applied(pc)]
      /\ reg' = [reg EXCEPT ![pc] = Applied(pc).refs]
      /\ fresh' = fresh \cup {pc}
  BY <1>1 DEF ApplyObject, Register
<1>4. /\ obj'[pc] = Applied(pc) /\ reg'[pc] = Applied(pc).refs
      /\ \A o \in Objects \ {pc} : obj'[o] = obj[o] /\ reg'[o] = reg[o]
  BY <1>1, <1>3 DEF TypeOK
<1>5. /\ pc' = Following(pc)
      /\ UNCHANGED <<opver, cr, status, cluster, oldAlive, info, params, loopFailed,
                     seen, result>>
  BY <1>1 DEF ApplyObject, GoOn
<1> QED
  BY <1>1, <1>2, <1>3, <1>4, <1>5

\* Injecting adds the CR to the owners the object has now: what the play registered is
\* still what is there, or the patch would have been refused.
LEMMA InjectOwnerEffect ==
  ASSUME TypeOK, RefsSound, FreshSound, InjectOwner
  PROVE  LET o == Target(pc)
         IN  /\ Injecting /\ o \in Objects /\ pc' = Following(pc)
             /\ obj[o].present /\ obj'[o].present /\ Distinct(obj'[o].refs)
             /\ Owners(obj'[o].refs) = Owners(obj[o].refs) \cup {info.uid}
             /\ \A q \in Objects \ {o} : obj'[q] = obj[q]
             /\ UNCHANGED <<opver, cr, status, dep, cluster, oldAlive, info, params,
                            reg, fresh, loopFailed, seen, result>>
<1> DEFINE o == Target(pc)
<1>1. o \in Objects
  BY DEF Target, Objects
<1>2. pc \notin AfterInjection(o)
  BY DEF Target, AfterInjection, AfterInject, InjectOwner, Injecting
<1>3. o \in fresh /\ obj[o].present
  BY DEF InjectOwner, Unchanged
<1>4. obj[o].refs = reg[o]
  BY <1>2, <1>3 DEF FreshSound
<1>5. /\ reg[o] \in References /\ Injectable(reg[o]) /\ Distinct(reg[o])
      /\ info.uid \in Uids
  BY <1>1, ConstantsTyped DEF TypeOK, RefsSound, InjectOwner, Injecting, AfterCollect
<1>6. /\ Distinct(Inject(reg[o], info.uid))
      /\ Owners(Inject(reg[o], info.uid)) = Owners(reg[o]) \cup {info.uid}
  BY <1>5, InjectAdopts
<1>7. obj' = [obj EXCEPT ![o].refs = Inject(reg[o], info.uid)]
  BY DEF InjectOwner
<1>8. /\ obj'[o].refs = Inject(reg[o], info.uid) /\ obj'[o].present = obj[o].present
      /\ \A q \in Objects \ {o} : obj'[q] = obj[q]
  BY <1>1, <1>7 DEF TypeOK
<1>9. /\ Injecting /\ pc' = Following(pc)
      /\ UNCHANGED <<opver, cr, status, dep, cluster, oldAlive, info, params,
                     reg, fresh, loopFailed, seen, result>>
  BY DEF InjectOwner, snapshots, GoOn
<1> QED
  BY <1>1, <1>3, <1>4, <1>6, <1>8, <1>9

\* The garbage collector takes only objects without a living owner.
LEMMA CollectGarbageEffect ==
  ASSUME TypeOK, NEW o \in Objects, CollectGarbage(o)
  PROVE  /\ UNCHANGED <<opver, cr, status, cluster, oldAlive, pc, params, info,
                        reg, loopFailed, seen, result>>
         /\ fresh' = fresh \ {o}
         /\ ~obj'[o].present /\ Distinct(obj'[o].refs)
         /\ \A u \in Owners(obj[o].refs) : ~Alive(u)
         /\ \A q \in Objects \ {o} : obj'[q] = obj[q]
         /\ o # "dep" => dep' = dep
BY DEF CollectGarbage, TypeOK, NoObject, Distinct, IsList

\* Every step is of one of these kinds.
LEMMA Steps ==
  ASSUME [Next]_vars
  PROVE  \/ StartPlay \/ Walking \/ Applying \/ InjectOwner \/ Ending
         \/ CrEdited \/ DeploymentController
         \/ \E o \in Objects : \/ AddForeignOwner(o)
                               \/ CollectGarbage(o)
                               \/ PruneReferences(o)
         \/ UNCHANGED vars
BY DEF Next, Play, Walking, Applying, Ending, Operator, Users, CrEdited, GarbageCollector

--------------------------------------------------------------------------------
(* Each part of the invariant is kept.                                      *)

\* References stay distinct, and what was collected stays injectable.
LEMMA NextRefsSound ==
  ASSUME TypeOK, RefsSound, FreshSound, [Next]_vars
  PROVE  RefsSound'
<1>1. CASE StartPlay
  BY <1>1 DEF StartPlay, world, RefsSound, AfterCollect, AfterInject
<1>2. CASE Walking
  <2>1. /\ UNCHANGED <<obj, reg>> /\ pc' = Following(pc) /\ pc \in TaskNames
        /\ pc = "collect" => AllInjectable(reg)
        /\ reg \in [Objects -> References]
    BY <1>2, WalkingEffect DEF TypeOK
  <2>2. pc' \in AfterCollect => pc \in AfterCollect \/ pc = "collect"
    BY <1>2, <2>1, WalkingEffect, Order, TaskList DEF AfterCollect, AfterInject
  <2> QED
    BY <2>1, <2>2 DEF RefsSound, AllInjectable
<1>3. CASE Applying
  <2>1. pc' \notin AfterCollect
    BY <1>3, ApplyingEffect, Order DEF Objects, AfterCollect, AfterInject
  <2> QED
    BY <1>3, <2>1, ApplyingEffect DEF RefsSound
<1>4. CASE InjectOwner
  <2>1. pc \in AfterCollect
    BY <1>4 DEF InjectOwner, Injecting, AfterCollect
  <2> QED
    BY <1>4, <2>1, InjectOwnerEffect DEF RefsSound
<1>5. CASE Ending
  BY <1>5, EndingEffect DEF RefsSound, NoResults, Distinct, IsList, AfterCollect,
                            AfterInject
<1>6. CASE CrEdited \/ DeploymentController \/ UNCHANGED vars
  BY <1>6, CrEditedEffect, DeploymentControllerEffect
     DEF vars, world, snapshots, RefsSound
<1>7. ASSUME NEW o \in Objects, AddForeignOwner(o) PROVE RefsSound'
  BY <1>7, OwnerAdded DEF RefsSound
<1>8. ASSUME NEW o \in Objects, CollectGarbage(o) PROVE RefsSound'
  BY <1>8, CollectGarbageEffect DEF RefsSound
<1>9. ASSUME NEW o \in Objects, PruneReferences(o) PROVE RefsSound'
  BY <1>9, ReferencesPruned DEF RefsSound
<1> QED
  BY <1>1, <1>2, <1>3, <1>4, <1>5, <1>6, <1>7, <1>8, <1>9, Steps

\* An object that nobody touched is as the play registered it.
LEMMA NextFreshSound ==
  ASSUME TypeOK, RefsSound, FreshSound, [Next]_vars
  PROVE  FreshSound'
<1>1. CASE StartPlay
  <2>1. fresh = {}
    BY <1>1 DEF StartPlay, FreshSound, AfterApply, AfterLoop, AfterCollect, AfterInject,
                TypeOK, Objects
  <2> QED
    BY <1>1, <2>1 DEF StartPlay, FreshSound
<1>2. CASE Walking
  <2>1. ASSUME NEW o \in fresh
        PROVE  pc' \in AfterApply(o) /\ (pc \in AfterInjection(o) => pc' \in AfterInjection(o))
    <3>1. pc \in AfterApply(o) /\ pc' = Following(pc) /\ o \in Objects /\ pc # "requeue"
      BY <1>2, WalkingEffect DEF FreshSound, TypeOK
    <3> QED
      BY <3>1, Order
         DEF Objects, AfterApply, AfterInjection, AfterLoop, AfterCollect, AfterInject
  <2>2. UNCHANGED <<obj, reg, fresh>>
    BY <1>2, WalkingEffect
  <2> QED
    BY <2>1, <2>2 DEF FreshSound
<1>3. CASE Applying
  <2>1. pc' \in AfterApply(pc)
    BY <1>3, ApplyingEffect, Order DEF Objects, AfterApply, AfterLoop
  <2>2. ASSUME NEW o \in fresh, o # pc
        PROVE  /\ pc' \in AfterApply(o)
               /\ pc' \in AfterInjection(o) \/ (obj'[o].present /\ obj'[o].refs = reg'[o])
    <3>1. pc \in AfterApply(o) /\ pc' = Following(pc) /\ o \in Objects /\ pc \in Objects
      BY <1>3, <2>2, ApplyingEffect DEF FreshSound, TypeOK
    <3>2. pc' \in AfterApply(o) /\ (pc \in AfterInjection(o) => pc' \in AfterInjection(o))
      BY <3>1, Order
         DEF Objects, AfterApply, AfterInjection, AfterLoop, AfterCollect, AfterInject
    <3> QED
      BY <1>3, <2>2, <3>1, <3>2, ApplyingEffect DEF FreshSound
  <2> QED
    BY <1>3, <2>1, <2>2, ApplyingEffect DEF FreshSound
<1>4. CASE InjectOwner
  <2>1. ASSUME NEW o \in fresh
        PROVE  /\ pc' \in AfterApply(o)
               /\ (pc \in AfterInjection(o) \/ o = Target(pc)) => pc' \in AfterInjection(o)
    <3>1. Injecting /\ pc' = Following(pc) /\ o \in Objects
      BY <1>4, InjectOwnerEffect DEF TypeOK
    <3> QED
      BY <3>1, Order DEF Injecting, Target, Objects, AfterApply, AfterInjection, AfterLoop,
                         AfterCollect, AfterInject
  <2>2. ASSUME NEW o \in fresh, o # Target(pc)
        PROVE  obj'[o] = obj[o] /\ reg' = reg
    BY <1>4, <2>2, InjectOwnerEffect DEF TypeOK
  <2>3. fresh' = fresh
    BY <1>4, InjectOwnerEffect
  <2> QED
    BY <2>1, <2>2, <2>3 DEF FreshSound
<1>5. CASE Ending
  BY <1>5, EndingEffect DEF FreshSound
<1>6. CASE CrEdited \/ DeploymentController \/ UNCHANGED vars
  BY <1>6, CrEditedEffect, DeploymentControllerEffect
     DEF vars, world, snapshots, FreshSound
<1>7. ASSUME NEW o \in Objects,
             AddForeignOwner(o) \/ CollectGarbage(o) \/ PruneReferences(o)
      PROVE  FreshSound'
  <2>1. /\ UNCHANGED <<pc, reg>> /\ fresh' = fresh \ {o}
        /\ \A q \in Objects \ {o} : obj'[q] = obj[q]
    BY <1>7, OwnerAdded, CollectGarbageEffect, ReferencesPruned
  <2> QED
    BY <2>1 DEF FreshSound, TypeOK
<1> QED
  BY <1>1, <1>2, <1>3, <1>4, <1>5, <1>6, <1>7, Steps

\* A play's CR is never newer than the one there is; only an ended play has ended well.
LEMMA NextUidsSound ==
  ASSUME TypeOK, UidsSound, EndedSound, RefsSound, FreshSound, [Next]_vars
  PROVE  UidsSound' /\ EndedSound'
<1> USE DEF UidsSound, EndedSound
<1>0. info.uid \in Nat /\ cr.uid \in Nat /\ result.uid \in Nat /\ 1 <= cr.uid
  BY ConstantsTyped DEF TypeOK, Cr, CrUids
<1>1. CASE StartPlay
  BY <1>0, <1>1 DEF StartPlay, world
<1>2. CASE Walking
  <2>1. pc # "idle" /\ cr' = cr /\ result' = result
    BY <1>2, WalkingEffect, TaskList
  <2>2. info'.uid = info.uid \/ info'.uid = cr.uid
    BY <1>2, WalkingEffect
  <2> QED
    BY <1>0, <2>1, <2>2
<1>3. CASE Applying
  BY <1>0, <1>3, ApplyingEffect DEF Objects
<1>4. CASE InjectOwner
  BY <1>0, <1>4, InjectOwnerEffect DEF Injecting
<1>5. CASE Ending
  BY <1>0, <1>5, EndingEffect DEF NoInfo
<1>6. CASE CrEdited
  BY <1>0, <1>6, CrEditedEffect
<1>7. CASE DeploymentController \/ UNCHANGED vars
  BY <1>7, DeploymentControllerEffect DEF vars, world, snapshots
<1>8. ASSUME NEW o \in Objects,
             AddForeignOwner(o) \/ CollectGarbage(o) \/ PruneReferences(o)
      PROVE  UNCHANGED <<pc, cr, info, result>>
  BY <1>8, OwnerAdded, CollectGarbageEffect, ReferencesPruned
<1> QED
  BY <1>1, <1>2, <1>3, <1>4, <1>5, <1>6, <1>7, <1>8, Steps

\* What has been adopted stays there and stays adopted, while its CR lives.
LEMMA NextAdopted ==
  ASSUME TypeOK, RefsSound, FreshSound, UidsSound, EndedSound,
         AdoptedSound, AdoptedWhenReported, [Next]_vars
  PROVE  AdoptedSound' /\ AdoptedWhenReported'
<1> USE DEF OwnedBy, Mine, Reported
<1>0. info.uid \in Nat /\ cr.uid \in Nat /\ result.uid \in Nat
  BY ConstantsTyped DEF TypeOK, Cr, CrUids
<1>1. CASE StartPlay
  <2>1. pc' = "lookup" /\ result'.outcome = "None"
    BY <1>1 DEF StartPlay
  <2> QED
    BY <2>1 DEF AdoptedSound, AdoptedWhenReported, AfterInjection, AfterInject, Objects
<1>2. CASE Walking
  <2>1. ASSUME NEW o \in Objects, pc' \in AfterInjection(o)
        PROVE  pc \in AfterInjection(o) /\ info' = info
    <3>1. /\ pc' = Following(pc)
          /\ pc # "lookup" => info' = info
          /\ pc \in TaskNames \ {"requeue", "inject_sa", "inject_svc", "inject_dep"}
      BY <1>2, WalkingEffect
    <3> QED
      BY <2>1, <3>1, Order, TaskList DEF AfterInjection, AfterInject, Objects
  <2>2. UNCHANGED <<cr, obj, result>> /\ pc # "idle"
    BY <1>2, WalkingEffect, TaskList
  <2> QED
    BY <2>1, <2>2 DEF AdoptedSound, AdoptedWhenReported, EndedSound
<1>3. CASE Applying
  <2>1. ASSUME NEW o \in Objects PROVE pc' \notin AfterInjection(o)
    BY <1>3, ApplyingEffect, Order DEF Objects, AfterInjection, AfterInject
  <2>2. result' = result /\ pc # "idle"
    BY <1>3, ApplyingEffect DEF Objects
  <2> QED
    BY <2>1, <2>2 DEF AdoptedSound, AdoptedWhenReported, EndedSound
<1>4. CASE InjectOwner
  <2> DEFINE t == Target(pc)
  <2>1. ASSUME NEW o \in Objects, pc' \in AfterInjection(o)
        PROVE  pc \in AfterInjection(o) \/ o = t
    <3>1. Injecting /\ pc' = Following(pc)
      BY <1>4, InjectOwnerEffect
    <3> QED
      BY <2>1, <3>1, Order DEF Injecting, Target, Objects, AfterInjection, AfterInject
  <2>2. /\ UNCHANGED <<cr, info, result>> /\ pc # "idle"
        /\ \A o \in Objects \ {t} : obj'[o] = obj[o]
        /\ obj'[t].present /\ info.uid \in Owners(obj'[t].refs)
    BY <1>4, InjectOwnerEffect DEF Injecting
  <2> QED
    BY <2>1, <2>2 DEF AdoptedSound, AdoptedWhenReported, EndedSound
<1>5. CASE Ending
  <2>1. AdoptedSound'
    BY <1>5, EndingEffect DEF AdoptedSound, AfterInjection, AfterInject, Objects
  <2>2. AdoptedWhenReported'
    <3> SUFFICES ASSUME Reported', NEW o \in Objects
                 PROVE  obj'[o].present /\ OwnedBy(obj'[o].refs, cr'.uid)
      BY DEF AdoptedWhenReported
    <3>1. pc = "requeue" /\ cr' = cr /\ obj' = obj /\ cr.exists /\ cr.uid = info.uid
      BY <1>5, EndingEffect
    <3> QED
      BY <3>1 DEF AdoptedSound, AfterInjection, AfterInject
  <2> QED
    BY <2>1, <2>2
<1>6. CASE CrEdited
  <2>1. /\ UNCHANGED <<obj, pc, info, result>>
        /\ cr'.exists => (cr.exists /\ cr'.uid = cr.uid) \/ cr'.uid = cr.uid + 1
    BY <1>6, CrEditedEffect
  <2>2. ASSUME cr'.exists, cr'.uid = info.uid \/ cr'.uid = result.uid
        PROVE  cr.exists /\ cr'.uid = cr.uid
    BY <1>0, <2>1, <2>2 DEF UidsSound
  <2> QED
    BY <2>1, <2>2 DEF AdoptedSound, AdoptedWhenReported
<1>7. CASE DeploymentController \/ UNCHANGED vars
  BY <1>7, DeploymentControllerEffect
     DEF vars, world, snapshots, AdoptedSound, AdoptedWhenReported
<1>8. ASSUME NEW o \in Objects,
             AddForeignOwner(o) \/ CollectGarbage(o) \/ PruneReferences(o)
      PROVE  AdoptedSound' /\ AdoptedWhenReported'
  <2>1. /\ UNCHANGED <<cr, pc, info, result>>
        /\ \A q \in Objects \ {o} : obj'[q] = obj[q]
    BY <1>8, OwnerAdded, CollectGarbageEffect, ReferencesPruned
  <2>2. ASSUME cr.exists, obj[o].present, cr.uid \in Owners(obj[o].refs)
        PROVE  obj'[o].present /\ cr.uid \in Owners(obj'[o].refs)
    <3>1. Alive(cr.uid)
      BY <2>2 DEF Alive
    <3> QED
      BY <1>8, <2>2, <3>1, OwnerAdded, CollectGarbageEffect, ReferencesPruned
  <2> QED
    BY <2>1, <2>2 DEF AdoptedSound, AdoptedWhenReported
<1> QED
  BY <1>1, <1>2, <1>3, <1>4, <1>5, <1>6, <1>7, <1>8, Steps

\* What was applied cluster-wide stays, and a failed loop ends the play.
LEMMA NextClusterSound ==
  ASSUME TypeOK, RefsSound, FreshSound, ClusterSound, [Next]_vars
  PROVE  ClusterSound'
<1> USE DEF ClusterSound
<1>1. CASE StartPlay
  BY <1>1 DEF StartPlay, AfterVersions, AfterApply, AfterLoop, AfterCollect, AfterInject
<1>2. CASE Walking
  <2>1. /\ pc' = Following(pc) /\ pc \in TaskNames \ {"requeue"}
        /\ pc = "collect" => ~loopFailed
        /\ pc \notin {"sa", "crb", "svc", "dep"} => loopFailed' = loopFailed
        /\ loopFailed => loopFailed'
        /\ cluster \subseteq cluster'
        /\ pc = "viewRole" => "viewRole" \in cluster'
        /\ pc = "crb" => "crb" \in cluster' \/ loopFailed'
    BY <1>2, WalkingEffect
  <2>2. pc' \in AfterCollect => pc \in AfterCollect \/ pc = "collect"
    BY <2>1, Order, TaskList DEF AfterCollect, AfterInject
  <2>3. pc' \in AfterVersions \ {"viewRole"} => pc \in AfterVersions
    BY <2>1, Order, TaskList DEF AfterVersions, AfterLoop, AfterCollect, AfterInject
  <2>4. pc' \in AfterApply("sa") \ {"crb"} => pc \in AfterApply("sa")
    BY <2>1, Order, TaskList DEF AfterApply, AfterLoop, AfterCollect, AfterInject
  <2>5. pc' \in AfterCollect => ~loopFailed'
    BY <2>1, <2>2 DEF AfterCollect, AfterInject
  <2>6. pc' \in AfterVersions \ {"viewRole"} => "viewRole" \in cluster'
    BY <2>1, <2>3
  <2>7. pc' \in AfterApply("sa") \ {"crb"} => loopFailed' \/ "crb" \in cluster'
    BY <2>1, <2>4
  <2> QED
    BY <2>5, <2>6, <2>7
<1>3. CASE Applying
  <2>1. /\ pc \in Objects /\ pc' = Following(pc)
        /\ UNCHANGED <<cluster, loopFailed>>
    BY <1>3, ApplyingEffect
  <2> QED
    BY <2>1, Order DEF Objects, AfterVersions, AfterApply, AfterLoop, AfterCollect, AfterInject
<1>4. CASE InjectOwner
  <2>1. /\ Injecting /\ pc' = Following(pc)
        /\ UNCHANGED <<cluster, loopFailed>>
    BY <1>4, InjectOwnerEffect
  <2> QED
    BY <2>1, Order DEF Injecting, AfterVersions, AfterApply, AfterLoop, AfterCollect, AfterInject
<1>5. CASE Ending
  BY <1>5, EndingEffect DEF AfterVersions, AfterApply, AfterLoop, AfterCollect, AfterInject
<1>6. CASE CrEdited \/ DeploymentController \/ UNCHANGED vars
  BY <1>6, CrEditedEffect, DeploymentControllerEffect DEF vars, world, snapshots
<1>7. ASSUME NEW o \in Objects,
             AddForeignOwner(o) \/ CollectGarbage(o) \/ PruneReferences(o)
      PROVE  UNCHANGED <<pc, cluster, loopFailed>>
  BY <1>7, OwnerAdded, CollectGarbageEffect, ReferencesPruned
<1> QED
  BY <1>1, <1>2, <1>3, <1>4, <1>5, <1>6, <1>7, Steps

\* The play's writes to the CR's status, each one field at a time.
LEMMA StatusWrites ==
  ASSUME TypeOK, Walking
  PROVE  /\ \/ status' = status
            \/ pc = "versions" /\ status' = [status EXCEPT !.target = opver]
            \/ /\ pc \in ConditionTypes
               /\ status' = [status EXCEPT !.cond[pc] = Truth(Fact(pc))]
            \/ pc = "observed" /\ status' = [status EXCEPT !.observed = opver]
         /\ pc = "versions" => status'.target = opver
         /\ pc \in ConditionTypes => status'.cond[pc] = Truth(Fact(pc))
         /\ (pc = "observed" /\ ObservedWhen) => status'.observed = opver
<1> USE DEF TypeOK, CrStatus
<1>1. CASE SetVersions
  BY <1>1 DEF SetVersions, ConditionTypes
<1>2. CASE SetCondition
  BY <1>2 DEF SetCondition, ConditionTypes, Truth
<1>3. CASE SetObserved
  BY <1>3 DEF SetObserved, ConditionTypes
<1>4. CASE LookupCr \/ CheckPassed \/ SkipObserved \/ Collect \/ Refresh \/ ItemFails
  BY <1>4 DEF LookupCr, CheckPassed, SkipObserved, Collect, Refresh, ItemFails, world,
              ConditionTypes
<1>5. CASE SetViewRole \/ ApplyClusterRoleBinding \/ RegisterWebhook
  BY <1>5 DEF SetViewRole, ApplyClusterRoleBinding, RegisterWebhook, ApplyClusterWide,
              ConditionTypes
<1> QED
  BY <1>1, <1>2, <1>3, <1>4, <1>5 DEF Walking

\* Past the loop, an existing Deployment is at the operator's version.
LEMMA NextDeployment ==
  ASSUME TypeOK, RefsSound, FreshSound, ClusterSound, DeploymentSound, ObservedNotAhead,
         [Next]_vars
  PROVE  DeploymentSound' /\ ObservedNotAhead'
<1> USE DEF DeploymentSound, ObservedNotAhead
<1>0. /\ opver \in Nat /\ status.observed \in Int /\ dep.template.version \in Nat
      /\ status.observed >= -1
  BY ValidatorAssumption
     DEF TypeOK, CrStatus, Versions, Unset, DeploymentContent, Template
<1>1. CASE StartPlay
  BY <1>1 DEF StartPlay, world, AfterLoop, AfterCollect, AfterInject
<1>2. CASE Walking
  <2>1. /\ UNCHANGED <<opver, obj, dep>> /\ pc' = Following(pc)
        /\ pc \in TaskNames \ {"requeue"}
        /\ pc = "dep" => loopFailed'
        /\ loopFailed => loopFailed'
    BY <1>2, WalkingEffect
  <2>2. pc' \in AfterLoop => pc \in AfterLoop \/ pc = "dep"
    BY <2>1, Order, TaskList DEF AfterLoop, AfterCollect, AfterInject
  <2>3. (pc' \in AfterLoop /\ ~loopFailed' /\ obj'["dep"].present)
          => dep'.template.version = opver'
    BY <2>1, <2>2
  <2>4. \/ status'.observed = status.observed
        \/ pc = "observed" /\ status'.observed = opver
    BY <1>2, StatusWrites DEF TypeOK, CrStatus
  <2>5. pc = "observed" => pc \in AfterLoop /\ ~loopFailed
    BY DEF AfterLoop, AfterCollect, AfterInject, ClusterSound
  <2> QED
    BY <1>0, <2>1, <2>3, <2>4, <2>5
<1>3. CASE Applying
  <2>1. /\ pc \in Objects /\ pc' = Following(pc)
        /\ UNCHANGED <<opver, status, loopFailed>>
        /\ pc # "dep" => dep' = dep /\ obj'["dep"] = obj["dep"]
    BY <1>3, ApplyingEffect DEF Objects
  <2>2. CASE pc = "dep"
    <3>1. ApplyDeployment
      BY <1>3, <2>2
         DEF Applying, ApplyServiceAccount, ApplyService, ApplyObject
    <3>2. dep' = NewContent([version |-> opver, placement |-> info.placement],
                            params.replicas)
      BY <3>1 DEF ApplyDeployment
    <3>3. dep'.template.version = opver
      BY <3>2 DEF NewContent, TypeOK, DeploymentContent
    <3> QED
      BY <1>0, <2>1, <3>3
  <2>3. CASE pc # "dep"
    <3>1. pc' \notin AfterLoop
      BY <2>1, <2>3, Order DEF Objects, AfterLoop, AfterCollect, AfterInject
    <3> QED
      BY <2>1, <2>3, <3>1
  <2> QED
    BY <2>2, <2>3
<1>4. CASE InjectOwner
  <2>1. /\ UNCHANGED <<opver, status, dep, loopFailed>>
        /\ Injecting /\ Target(pc) \in Objects
        /\ obj[Target(pc)].present
        /\ \A q \in Objects \ {Target(pc)} : obj'[q] = obj[q]
    BY <1>4, InjectOwnerEffect
  <2>2. pc \in AfterLoop
    BY <2>1 DEF Injecting, AfterLoop, AfterCollect
  <2>3. obj'["dep"].present => obj["dep"].present
    BY <2>1 DEF Objects
  <2> QED
    BY <2>1, <2>2, <2>3
<1>5. CASE Ending
  BY <1>0, <1>5, EndingEffect DEF AfterLoop, AfterCollect, AfterInject
<1>6. CASE CrEdited
  BY <1>0, <1>6, CrEditedEffect DEF EmptyStatus, Unset
<1>7. CASE DeploymentController \/ UNCHANGED vars
  BY <1>7, DeploymentControllerEffect DEF vars, world, snapshots
<1>8. ASSUME NEW o \in Objects,
             AddForeignOwner(o) \/ CollectGarbage(o) \/ PruneReferences(o)
      PROVE  /\ UNCHANGED <<pc, opver, status, loopFailed>>
             /\ obj'["dep"].present => obj["dep"].present /\ dep' = dep
  BY <1>8, OwnerAdded, CollectGarbageEffect, ReferencesPruned DEF Objects
<1> QED
  BY <1>1, <1>2, <1>3, <1>4, <1>5, <1>6, <1>7, <1>8, Steps

\* The fields of the status agree with what the play has seen, as far as it has got.
LEMMA NextReport ==
  ASSUME TypeOK, RefsSound, FreshSound, UidsSound, EndedSound,
         StatusSound, ReportCoherent, [Next]_vars
  PROVE  StatusSound' /\ ReportCoherent'
<1> USE DEF Mine, Reported
<1>0. info.uid \in Nat /\ cr.uid \in Nat /\ result.uid \in Nat
  BY ConstantsTyped DEF TypeOK, Cr, CrUids
<1>00. ASSUME pc' \notin AfterVersions PROVE StatusSound'
  BY <1>00 DEF StatusSound, AfterVersions, AfterLoop, AfterCollect, AfterInject,
              AfterCondition, ConditionTypes
<1>1. CASE StartPlay
  <2>1. pc' = "lookup" /\ result'.outcome = "None"
    BY <1>1 DEF StartPlay
  <2> QED
    BY <1>00, <2>1
       DEF ReportCoherent, AfterVersions, AfterLoop, AfterCollect, AfterInject
<1>2. CASE Walking
  <2>0. /\ UNCHANGED <<opver, cr, result>> /\ pc' = Following(pc)
        /\ pc \in TaskNames \ {"requeue"}
        /\ pc # "lookup" => info' = info
        /\ pc # "refresh" => seen' = seen
    BY <1>2, WalkingEffect
  <2>1. ReportCoherent'
    BY <2>0, TaskList DEF ReportCoherent, EndedSound
  <2>2. StatusSound'
    <3> SUFFICES ASSUME pc' \in AfterVersions, Mine' PROVE StatusSound'
      BY <1>00 DEF StatusSound
    <3>1. pc \in AfterVersions \/ pc = "versions"
      BY <2>0, Order, TaskList DEF AfterVersions, AfterLoop, AfterCollect, AfterInject
    <3>2. Mine /\ info' = info
      BY <2>0, <3>1 DEF AfterVersions, AfterLoop, AfterCollect, AfterInject
    <3>3. status'.target = opver'
      BY <1>2, <2>0, <3>1, <3>2, StatusWrites DEF StatusSound, TypeOK, CrStatus
    <3>4. ASSUME NEW type \in ConditionTypes, pc' \in AfterCondition(type)
          PROVE  status'.cond[type] = Truth(Fact(type)')
      <4>1. /\ pc \in AfterCondition(type) \/ pc = type
            /\ pc # "refresh" /\ pc # "versions"
        BY <2>0, <3>4, Order, TaskList DEF AfterCondition, ConditionTypes
      <4>2. Fact(type)' = Fact(type)
        BY <2>0, <4>1 DEF Fact, AllReady
      <4>3. CASE pc = type
        BY <1>2, <4>2, <4>3, StatusWrites
      <4>4. CASE pc # type
        <5>1. status.cond[type] = Truth(Fact(type))
          BY <3>2, <4>1, <4>4 DEF StatusSound
        <5>2. status'.cond[type] = status.cond[type]
          BY <1>2, <4>4, StatusWrites DEF TypeOK, CrStatus
        <5> QED
          BY <4>2, <5>1, <5>2
      <4> QED
        BY <4>3, <4>4
    <3>5. (pc' = "requeue" /\ ObservedWhen') => status'.observed = opver'
      <4>1. pc' = "requeue" => pc = "observed"
        BY <2>0, Order, TaskList
      <4>2. pc = "observed" => (ObservedWhen' <=> ObservedWhen)
        BY <2>0 DEF ObservedWhen, Fact, AllReady
      <4> QED
        BY <1>2, <2>0, <4>1, <4>2, StatusWrites
    <3> QED
      BY <3>3, <3>4, <3>5 DEF StatusSound, Truth
  <2> QED
    BY <2>1, <2>2
<1>3. CASE Applying
  <2>1. /\ pc \in Objects /\ pc' = Following(pc)
        /\ UNCHANGED <<opver, cr, status, info, result, seen>>
    BY <1>3, ApplyingEffect
  <2>2. pc \in AfterVersions /\ pc # "idle"
    BY <2>1 DEF Objects, AfterVersions
  <2>3. pc' # "requeue" /\ \A type \in ConditionTypes : pc' \notin AfterCondition(type)
    BY <2>1, Order DEF Objects, AfterCondition, ConditionTypes
  <2> QED
    BY <2>1, <2>2, <2>3 DEF StatusSound, ReportCoherent, EndedSound
<1>4. CASE InjectOwner
  <2>1. /\ Injecting /\ pc' = Following(pc)
        /\ UNCHANGED <<opver, cr, status, info, result, seen>>
    BY <1>4, InjectOwnerEffect
  <2>2. pc \in AfterVersions /\ pc # "idle"
    BY <2>1 DEF Injecting, AfterVersions, AfterLoop, AfterCollect
  <2>3. pc' # "requeue" /\ \A type \in ConditionTypes : pc' \notin AfterCondition(type)
    BY <2>1, Order DEF Injecting, AfterCondition, ConditionTypes
  <2> QED
    BY <2>1, <2>2, <2>3 DEF StatusSound, ReportCoherent, EndedSound
<1>5. CASE Ending
  <2>1. StatusSound'
    BY <1>00, <1>5, EndingEffect DEF AfterVersions, AfterLoop, AfterCollect, AfterInject
  <2>2. ReportCoherent'
    <3> SUFFICES ASSUME Reported'
                 PROVE  /\ status'.target = opver'
                        /\ status'.cond = Conditions(result'.outcome = "Successful")
                        /\ result'.outcome = "Successful" => status'.observed = opver'
      BY DEF ReportCoherent, Conditions
    <3>1. /\ pc = "requeue" /\ Mine /\ UNCHANGED <<opver, status>>
          /\ (result'.outcome = "Successful") = AllReady
      BY <1>5, EndingEffect
    <3>2. /\ status.target = opver
          /\ \A type \in ConditionTypes : status.cond[type] = Truth(Fact(type))
          /\ ObservedWhen => status.observed = opver
      BY <3>1 DEF StatusSound, AfterVersions, AfterLoop, AfterCollect, AfterInject,
                  AfterCondition
    <3>3. status.cond = [type \in ConditionTypes |-> Truth(Fact(type))]
      BY <3>2 DEF TypeOK, CrStatus
    <3>4. \A type \in ConditionTypes : Fact(type) <=> ((type = "Available") = AllReady)
      BY DEF Fact, AllReady
    <3>5. status.cond = Conditions(AllReady)
      BY <3>3, <3>4 DEF Conditions, Truth
    <3>6. ObservedWhen <=> AllReady
      BY DEF ObservedWhen, Fact, AllReady
    <3> QED
      BY <3>1, <3>2, <3>5, <3>6
  <2> QED
    BY <2>1, <2>2
<1>6. CASE CrEdited
  <2>1. /\ UNCHANGED <<opver, pc, info, result, seen>>
        /\ cr'.exists => \/ cr'.uid = cr.uid + 1
                         \/ cr.exists /\ cr'.uid = cr.uid /\ status' = status
    BY <1>6, CrEditedEffect
  <2>2. ASSUME cr'.exists, cr'.uid = info.uid \/ cr'.uid = result.uid
        PROVE  cr.exists /\ cr'.uid = cr.uid /\ status' = status
    BY <1>0, <2>1, <2>2 DEF UidsSound
  <2> QED
    BY <2>1, <2>2 DEF StatusSound, ReportCoherent, ObservedWhen, Fact, AllReady
<1>7. ASSUME NEW o \in Objects,
             DeploymentController \/ UNCHANGED vars
               \/ AddForeignOwner(o) \/ CollectGarbage(o) \/ PruneReferences(o)
      PROVE  StatusSound' /\ ReportCoherent'
  <2>1. UNCHANGED <<opver, cr, status, pc, info, result, seen>>
    BY <1>7, DeploymentControllerEffect, OwnerAdded, CollectGarbageEffect,
       ReferencesPruned DEF vars, world, snapshots
  <2> QED
    BY <2>1 DEF StatusSound, ReportCoherent, ObservedWhen, Fact, AllReady
<1> QED
  BY <1>1, <1>2, <1>3, <1>4, <1>5, <1>6, <1>7, Steps DEF Objects

--------------------------------------------------------------------------------
(* The theorems.                                                            *)

\* The invariant holds initially.
LEMMA InitIInv == Init => IInv
<1> SUFFICES ASSUME Init PROVE IInv
  OBVIOUS
<1>1. TypeOK
  BY InitTypeOK
<1>2. RefsSound
  <2>1. ASSUME NEW o \in Objects PROVE Distinct(obj[o].refs)
    <3>1. obj[o].refs \in {NoKey, <<OwnerRef(OldUid)>>}
      <4>1. PICK plan \in Plans :
              obj = [q \in Objects |->
                       CASE plan.objects = "none"   -> NoObject
                         [] plan.objects = "old"    -> [present |-> TRUE,
                                                        refs |-> <<OwnerRef(OldUid)>>]
                         [] plan.objects = "orphan" -> [present |-> TRUE, refs |-> NoKey]]
        BY DEF Init
      <4>2. plan.objects \in {"none", "old", "orphan"}
        BY ValidatorAssumption DEF Plan
      <4> QED
        BY <4>1, <4>2 DEF NoObject
    <3> QED
      BY <3>1 DEF Distinct, IsList
  <2>2. pc = "idle" /\ \A o \in Objects : reg[o] = NoKey
    BY DEF Init, NoResults
  <2> QED
    BY <2>1, <2>2 DEF RefsSound, Distinct, IsList, AfterCollect, AfterInject
<1>3. FreshSound /\ UidsSound /\ EndedSound /\ AdoptedWhenReported /\ ReportCoherent
  BY DEF Init, FreshSound, UidsSound, EndedSound, AdoptedWhenReported, ReportCoherent,
         Reported, NoInfo
<1>4. AdoptedSound /\ ClusterSound /\ StatusSound
  BY DEF Init, AdoptedSound, ClusterSound, StatusSound, Objects, ConditionTypes,
         AfterInjection, AfterApply, AfterCondition, AfterVersions, AfterLoop,
         AfterCollect, AfterInject
<1>5. DeploymentSound /\ ObservedNotAhead
  BY DEF Init, DeploymentSound, ObservedNotAhead, EmptyStatus, Unset, OldDeployment,
         AfterLoop, AfterCollect, AfterInject
<1> QED
  BY <1>1, <1>2, <1>3, <1>4, <1>5 DEF IInv

\* Every step keeps the invariant.
LEMMA NextIInv == IInv /\ [Next]_vars => IInv'
<1> SUFFICES ASSUME IInv, [Next]_vars PROVE IInv'
  OBVIOUS
<1>1. TypeOK' /\ RefsSound'
  BY NextTypeOK, NextRefsSound DEF IInv
<1>2. FreshSound' /\ UidsSound' /\ EndedSound'
  BY NextFreshSound, NextUidsSound DEF IInv
<1>3. AdoptedSound' /\ AdoptedWhenReported' /\ ClusterSound'
  BY NextAdopted, NextClusterSound DEF IInv
<1>4. DeploymentSound' /\ ObservedNotAhead' /\ StatusSound' /\ ReportCoherent'
  BY NextDeployment, NextReport DEF IInv
<1> QED
  BY <1>1, <1>2, <1>3, <1>4 DEF IInv

\* The invariant is inductive, so it holds in every state a cluster gets to.
THEOREM Invariance == Spec => []IInv
<1>1. Init => IInv
  BY InitIInv
<1>2. IInv /\ [Next]_vars => IInv'
  BY NextIInv
<1> QED
  BY <1>1, <1>2, PTL DEF Spec

\* The state of the play and of the cluster keeps its types; an owner is never injected
\* into metadata that has no key for it.
THEOREM TypeCorrect == Spec => []TypeOK
<1>1. IInv => TypeOK
  BY DEF IInv
<1> QED
  BY <1>1, Invariance, PTL

\* However plays fail, CRs are deleted and created again, and operators are upgraded:
\* versions and conditions of a CR whose latest play ended by itself agree.
THEOREM ReportsCohere == Spec => []ReportCoherent
<1>1. IInv => ReportCoherent
  BY DEF IInv
<1> QED
  BY <1>1, Invariance, PTL

\* When a play ended by itself, all three objects are there and owned by its CR.
THEOREM ReportsAdopted == Spec => []AdoptedWhenReported
<1>1. IInv => AdoptedWhenReported
  BY DEF IInv
<1> QED
  BY <1>1, Invariance, PTL

\* observedVersion is never newer than what the Deployment was changed to.
THEOREM NeverAhead == Spec => []ObservedNotAhead
<1>1. IInv => ObservedNotAhead
  BY DEF IInv
<1> QED
  BY <1>1, Invariance, PTL

\* One step never drops a living owner.
LEMMA StepKeepsOwners ==
  ASSUME IInv, [Next]_vars, NEW o \in Objects, obj[o].present, obj'[o].present,
         NEW u \in Owners(obj[o].refs), Alive(u)
  PROVE  u \in Owners(obj'[o].refs)
<1> USE DEF IInv
<1>1. CASE StartPlay \/ UNCHANGED vars
  BY <1>1 DEF StartPlay, vars, world
<1>2. CASE Walking \/ Ending \/ CrEdited \/ DeploymentController
  BY <1>2, WalkingEffect, EndingEffect, CrEditedEffect, DeploymentControllerEffect
<1>3. CASE Applying
  BY <1>3, ApplyingEffect
<1>4. CASE InjectOwner
  BY <1>4, InjectOwnerEffect
<1>5. ASSUME NEW q \in Objects,
             AddForeignOwner(q) \/ CollectGarbage(q) \/ PruneReferences(q)
      PROVE  u \in Owners(obj'[o].refs)
  BY <1>5, OwnerAdded, CollectGarbageEffect, ReferencesPruned
<1> QED
  BY <1>1, <1>2, <1>3, <1>4, <1>5, Steps

\* No patch of ownerReferences, though computed from an earlier read, drops an owner
\* that is still there.
THEOREM LivingOwnersKept == Spec => OwnersKept
<1>1. IInv /\ [Next]_vars =>
        [\A o \in Objects : (obj[o].present /\ obj'[o].present) =>
           \A u \in Owners(obj[o].refs) : Alive(u) => u \in Owners(obj'[o].refs)]_vars
  BY StepKeepsOwners
<1> QED
  BY <1>1, Invariance, PTL DEF Spec, OwnersKept

\* The webhook is registered only after everything it needs, all of it still there.
THEOREM WebhookHasBacking == Spec => WebhookBacked
<1>1. ASSUME IInv, [Next]_vars, "webhook" \in cluster' \ cluster, Mine
      PROVE  /\ {"viewRole", "crb"} \subseteq cluster
             /\ \A o \in Objects : obj[o].present
  <2> USE DEF IInv
  <2>1. cluster' # cluster
    BY <1>1
  <2>2. Walking
    BY <1>1, <2>1, ApplyingEffect, InjectOwnerEffect, EndingEffect, CrEditedEffect,
       DeploymentControllerEffect, OwnerAdded, CollectGarbageEffect, ReferencesPruned,
       Steps DEF StartPlay, vars, world
  <2>3. pc = "webhook"
    BY <1>1, <2>1, <2>2
       DEF Walking, LookupCr, CheckPassed, SetVersions, SetViewRole,
           ApplyClusterRoleBinding, RegisterWebhook, ApplyClusterWide, Collect, Refresh,
           SetCondition, SetObserved, SkipObserved, ItemFails, world
  <2>4. {"viewRole", "crb"} \subseteq cluster
    BY <1>1, <2>3 DEF ClusterSound, AfterVersions, AfterApply, AfterLoop, AfterCollect,
                      AfterInject
  <2>5. \A o \in Objects : obj[o].present
    BY <1>1, <2>3 DEF AdoptedSound, AfterInjection, AfterInject
  <2> QED
    BY <2>4, <2>5
<1>2. IInv /\ [Next]_vars =>
        [("webhook" \in cluster' \ cluster /\ cr.exists /\ cr.uid = info.uid)
           => /\ {"viewRole", "crb"} \subseteq cluster
              /\ \A o \in Objects : obj[o].present]_vars
  BY <1>1 DEF Mine
<1> QED
  BY <1>2, Invariance, PTL DEF Spec, WebhookBacked

================================================================================
