--------------------------- MODULE BundleRolesProofs ---------------------------
(***************************************************************************)
(* The safety of the plays of the three other CRs, for any number of uids, *)
(* nodes, edits and faults.  One invariant follows a play of any of the    *)
(* three kinds; the lists of tasks enter through the lemma TasksInOrder.   *)
(***************************************************************************)
EXTENDS BundleRoles, OwnershipLemmas

AllKinds == {"NodeLabeller", "MetricsAggregation", "CommonTemplates"}
AllTasks ==
  {"lookup", "versions", "sa", "cm", "ds", "rule", "new1", "new2", "collect", "fetch", "old",
   "inject", "read", "write", "count", "Progressing", "Available", "Degraded", "observed",
   "requeue"}

\* Where a play is when it has set the versions, adopted the objects, set a condition.
AfterInject ==
  {"read", "write", "count", "Progressing", "Available", "Degraded", "observed", "requeue"}
AfterVersions == AllTasks \ {"lookup", "versions"}
AfterCondition(t) ==
  {"observed", "requeue"} \cup
  (CASE t = "Progressing" -> IF kind = "MetricsAggregation" THEN {"Degraded"}
                             ELSE {"Available", "Degraded"}
     [] t = "Available" -> IF kind = "MetricsAggregation" THEN {"Progressing", "Degraded"}
                           ELSE {"Degraded"}
     [] OTHER -> {})

\* pc may be here in a play of this kind, and the next task is that one.
Step(k, here, next) ==
  CASE k = "NodeLabeller" ->
         <<here, next>> \in {<<"lookup", "versions">>, <<"versions", "sa">>, <<"sa", "cm">>,
           <<"cm", "ds">>, <<"ds", "collect">>, <<"collect", "inject">>, <<"inject", "read">>,
           <<"read", "write">>, <<"write", "Progressing">>, <<"Progressing", "Available">>,
           <<"Available", "Degraded">>, <<"Degraded", "observed">>, <<"observed", "requeue">>}
    [] k = "MetricsAggregation" ->
         <<here, next>> \in {<<"lookup", "versions">>, <<"versions", "rule">>,
           <<"rule", "collect">>, <<"collect", "inject">>, <<"inject", "Available">>,
           <<"Available", "Progressing">>, <<"Progressing", "Degraded">>,
           <<"Degraded", "observed">>, <<"observed", "requeue">>}
    [] k = "CommonTemplates" ->
         <<here, next>> \in {<<"lookup", "versions">>, <<"versions", "new1">>, <<"new1", "new2">>,
           <<"new2", "fetch">>, <<"fetch", "old">>, <<"old", "inject">>, <<"inject", "count">>,
           <<"count", "Progressing">>, <<"Progressing", "Available">>,
           <<"Available", "Degraded">>, <<"Degraded", "observed">>, <<"observed", "requeue">>}

TaskNames == {Tasks[i] : i \in 1..Len(Tasks)}

LEMMA TasksDiffer ==
  ASSUME kind \in AllKinds
  PROVE  /\ Len(Tasks) \in 10..14
         /\ \A i, j \in 1..Len(Tasks) : Tasks[i] = Tasks[j] => i = j
         /\ Tasks[Len(Tasks)] = "requeue"
         /\ TaskNames \subseteq AllTasks
         /\ \A i \in 1..(Len(Tasks) - 1) : Step(kind, Tasks[i], Tasks[i + 1])
<1>1. CASE kind = "NodeLabeller"
  <2>1. Tasks = NodeLabellerTasks /\ Len(NodeLabellerTasks) = 14
    BY <1>1 DEF Tasks, NodeLabellerTasks
  <2>2. \A i, j \in 1..14 : NodeLabellerTasks[i] = NodeLabellerTasks[j] => i = j
    BY DEF NodeLabellerTasks
  <2>3. NodeLabellerTasks[14] = "requeue" /\ \A i \in 1..14 : NodeLabellerTasks[i] \in AllTasks
    BY DEF NodeLabellerTasks, AllTasks
  <2>4. \A i \in 1..13 : Step(kind, NodeLabellerTasks[i], NodeLabellerTasks[i + 1])
    BY <1>1 DEF NodeLabellerTasks, Step
  <2> QED
    BY <2>1, <2>2, <2>3, <2>4 DEF TaskNames
<1>2. CASE kind = "MetricsAggregation"
  <2>1. Tasks = MetricsAggregationTasks /\ Len(MetricsAggregationTasks) = 10
    BY <1>2 DEF Tasks, MetricsAggregationTasks
  <2>2. \A i, j \in 1..10 : MetricsAggregationTasks[i] = MetricsAggregationTasks[j] => i = j
    BY DEF MetricsAggregationTasks
  <2>3. /\ MetricsAggregationTasks[10] = "requeue"
        /\ \A i \in 1..10 : MetricsAggregationTasks[i] \in AllTasks
    BY DEF MetricsAggregationTasks, AllTasks
  <2>4. \A i \in 1..9 : Step(kind, MetricsAggregationTasks[i], MetricsAggregationTasks[i + 1])
    BY <1>2 DEF MetricsAggregationTasks, Step
  <2> QED
    BY <2>1, <2>2, <2>3, <2>4 DEF TaskNames
<1>3. CASE kind = "CommonTemplates"
  <2>1. Tasks = CommonTemplatesTasks /\ Len(CommonTemplatesTasks) = 13
    BY <1>3 DEF Tasks, CommonTemplatesTasks
  <2>2. \A i, j \in 1..13 : CommonTemplatesTasks[i] = CommonTemplatesTasks[j] => i = j
    BY DEF CommonTemplatesTasks
  <2>3. /\ CommonTemplatesTasks[13] = "requeue"
        /\ \A i \in 1..13 : CommonTemplatesTasks[i] \in AllTasks
    BY DEF CommonTemplatesTasks, AllTasks
  <2>4. \A i \in 1..12 : Step(kind, CommonTemplatesTasks[i], CommonTemplatesTasks[i + 1])
    BY <1>3 DEF CommonTemplatesTasks, Step
  <2> QED
    BY <2>1, <2>2, <2>3, <2>4 DEF TaskNames
<1> QED
  BY <1>1, <1>2, <1>3 DEF AllKinds

\* A play goes from a task to the next one of its kind's list.
LEMMA TasksInOrder ==
  ASSUME kind \in AllKinds, pc \in TaskNames, pc # "requeue", GoOn
  PROVE  /\ pc' \in TaskNames /\ pc \in AllTasks /\ pc' \in AllTasks
         /\ Step(kind, pc, pc')
<1>1. PICK i \in 1..Len(Tasks) : pc = Tasks[i]
  BY DEF TaskNames
<1>2. i \in 1..(Len(Tasks) - 1)
  BY <1>1, TasksDiffer
<1> DEFINE k == CHOOSE j \in 1..(Len(Tasks) - 1) : Tasks[j] = pc
<1>3. k \in 1..(Len(Tasks) - 1) /\ Tasks[k] = pc
  BY <1>1, <1>2
<1>4. pc' = Tasks[1 + k]
  BY DEF GoOn
<1> HIDE DEF k
<1>5. k = i
  BY <1>1, <1>2, <1>3, TasksDiffer
<1>6. i + 1 \in 1..Len(Tasks) /\ 1 + i = i + 1
  BY <1>2, TasksDiffer
<1> QED
  BY <1>1, <1>2, <1>4, <1>5, <1>6, TasksDiffer DEF TaskNames

--------------------------------------------------------------------------------
(* The inductive invariant.                                                 *)

Typed ==
  /\ kind \in AllKinds
  /\ cr \in [exists : BOOLEAN, uid : 1..MaxUid]
  /\ status \in [target : BOOLEAN, observed : BOOLEAN,
                 cond : [ConditionTypes -> {"Unset", "True", "False"}]]
  /\ obj \in [Objects -> [present : BOOLEAN, refs : References]]
  /\ ds.desiredNumberScheduled \in Nat /\ ds.numberReady \in Nat
  /\ old \subseteq OldUids
  /\ pc \in TaskNames \cup {"idle"}
  /\ params \in 1..MaxUid /\ info \in 1..MaxUid
  /\ reg \in [Objects -> References]
  /\ kind = "NodeLabeller" => seen.want \in Nat /\ seen.have \in Nat
  /\ fresh \subseteq Objects /\ todo \subseteq Mine
  /\ result \in [outcome : {"None", "Successful", "Requeued", "Failed"}, uid : 1..MaxUid]

\* No owner is named twice; what is to be adopted has the key.
RefsSound ==
  /\ \A o \in Objects : Distinct(obj[o].refs) /\ Distinct(reg[o])
  /\ pc = "inject" => \A o \in todo : Injectable(reg[o])

\* uids grow.
UidsSound == info <= cr.uid /\ result.uid <= cr.uid

\* A regular end stays until the next play starts.
EndedSound == result.outcome \in {"Successful", "Requeued"} => pc = "idle"

\* The CR that the play looked up is still there.
OfPlay == cr.exists /\ cr.uid = info

\* The status agrees with what the play has seen, as far as it has written it.
StatusSound ==
  OfPlay =>
    /\ pc \in AfterVersions => status.target
    /\ \A t \in ConditionTypes :
         pc \in AfterCondition(t) => status.cond[t] = IF Fact(t) THEN "True" ELSE "False"
    /\ pc = "requeue" /\ Available => status.observed

\* What the play registered of an object is what there is, until it is patched.
FreshSound ==
  \A o \in fresh : obj[o].present /\ (\/ pc \in AfterInject
                                      \/ pc = "inject" /\ o \notin todo
                                      \/ obj[o].refs = reg[o])

\* After the templates were fetched owners may have gone, but none has come.
FetchedSound ==
  pc = "old" =>
    \A o \in Mine : obj[o].present => Owners(obj[o].refs) \subseteq Owners(reg[o])

\* The CR must own o: always, or, a common template, if one of the old CRs owns it.
Due(o) == kind = "CommonTemplates" => \E u \in old : OwnedBy(obj[o].refs, u)

\* What has been adopted stays so.
AdoptedSound ==
  OfPlay /\ pc \in AfterInject \cup {"inject"} =>
    \A o \in Mine : obj[o].present /\ Due(o) /\ (pc = "inject" => o \notin todo)
                     => OwnedBy(obj[o].refs, info)

--------------------------------------------------------------------------------
(* Types.                                                                    *)

LEMMA UidsTyped == 1..MaxUid \subseteq Uids /\ 1 \in 1..MaxUid /\ OldUids \subseteq Uids
BY BundleAssumption

LEMMA OneOwnerTyped ==
  ASSUME NEW u \in Uids
  PROVE  /\ <<OwnerRef(u)>> \in References
         /\ Distinct(<<OwnerRef(u)>>)
         /\ Owners(<<OwnerRef(u)>>) = {u}
<1>1. <<OwnerRef(u)>> \in Seq(Ref) /\ OwnerRef(u).uid = u
  BY OwnerRefTyped
<1>2. IsList(<<OwnerRef(u)>>)
  BY <1>1, ListTyped DEF References
<1> HIDE DEF OwnerRef
<1> QED
  BY <1>1, <1>2 DEF References, Distinct, Owners

LEMMA NoKeyTyped ==
  NoKey \in References /\ Distinct(NoKey) /\ Owners(NoKey) = {} /\ ~Injectable(NoKey)
BY DEF References, Distinct, IsList, Owners, Injectable

LEMMA AppliedTyped ==
  ASSUME Typed, RefsSound, NEW o \in Objects
  PROVE  /\ Applied(o) \in [present : BOOLEAN, refs : References]
         /\ Applied(o).present /\ Distinct(Applied(o).refs)
<1>1. CASE obj[o].present
  BY <1>1 DEF Applied, Typed, RefsSound
<1>2. CASE ~obj[o].present
  BY <1>2, OneOwnerTyped, UidsTyped DEF Applied, Typed
<1> QED
  BY <1>1, <1>2

\* The objects of a kind.
LEMMA MineTyped ==
  ASSUME kind \in AllKinds
  PROVE  Mine \subseteq Objects /\ Installed \subseteq Mine
BY DEF Mine, ObjectsOf, AllKinds, Objects, Templates, Installed

\* The end of a play resets all that belongs to it.
LEMMA EndTyped ==
  ASSUME Typed, NEW outcome \in {"None", "Successful", "Requeued", "Failed"}, EndPlay(outcome),
         UNCHANGED world
  PROVE  Typed' /\ (RefsSound => RefsSound')
<1>1. NoResults \in [Objects -> References] /\ \A o \in Objects : NoResults[o] = NoKey
  BY NoKeyTyped DEF NoResults
<1>2. /\ reg' = NoResults /\ pc' = "idle" /\ fresh' = {} /\ todo' = {}
      /\ params' = 1 /\ info' = 1 /\ seen' = NothingSeen
      /\ result' = [outcome |-> outcome, uid |-> info]
      /\ UNCHANGED <<kind, cr, status, obj, ds, old>>
  BY DEF EndPlay, world
<1>3. RefsSound => RefsSound'
  BY <1>1, <1>2, NoKeyTyped DEF RefsSound
<1>4. TaskNames' = TaskNames
  BY <1>2 DEF TaskNames, Tasks
<1>5. Typed'
  BY <1>1, <1>2, <1>4, UidsTyped DEF Typed, NothingSeen
<1> QED
  BY <1>3, <1>5

LEMMA InitTyped == Init => Typed /\ RefsSound
<1> SUFFICES ASSUME Init PROVE Typed /\ RefsSound
  OBVIOUS
<1>1. kind \in AllKinds
  BY BundleAssumption DEF Init, AllKinds
<1>2. PICK there \in {{}, Mine, Mine \ Installed}, u \in OldUids :
        obj = [o \in Objects |-> IF o \in there THEN [present |-> TRUE, refs |-> <<OwnerRef(u)>>]
                               ELSE NoObject]
  BY DEF Init
<1>3. /\ <<OwnerRef(u)>> \in References /\ Distinct(<<OwnerRef(u)>>)
      /\ NoObject.refs \in References /\ Distinct(NoObject.refs)
      /\ NoObject \in [present : BOOLEAN, refs : References]
  BY OneOwnerTyped, UidsTyped, NoKeyTyped DEF NoObject
<1> HIDE DEF OwnerRef, NoObject, Distinct
<1>4. \A o \in Objects : /\ obj[o] \in [present : BOOLEAN, refs : References]
                         /\ Distinct(obj[o].refs)
  BY <1>2, <1>3
<1>5. obj \in [Objects -> [present : BOOLEAN, refs : References]]
  BY <1>2, <1>4
<1>6. reg \in [Objects -> References] /\ \A o \in Objects : Distinct(reg[o])
  BY NoKeyTyped DEF Init, NoResults
<1>7. ds.desiredNumberScheduled \in Nat /\ ds.numberReady \in Nat
  BY BundleAssumption DEF Init, DaemonSetContent
<1>8. RefsSound
  BY <1>4, <1>6 DEF Init, RefsSound
<1>9. status \in [target : BOOLEAN, observed : BOOLEAN,
                 cond : [ConditionTypes -> {"Unset", "True", "False"}]]
  BY DEF Init, EmptyStatus
<1>10. seen.want \in Nat /\ seen.have \in Nat
  BY DEF Init, NothingSeen
<1>11. old \subseteq OldUids
  BY BundleAssumption DEF Init
<1> QED
  BY <1>1, <1>5, <1>6, <1>7, <1>8, <1>9, <1>10, <1>11, UidsTyped DEF Typed, Init

LEMMA NextTyped == ASSUME Typed, RefsSound, [Next]_vars PROVE Typed' /\ RefsSound'
<1>1. UNCHANGED kind
  BY DEF Next, Play, Users, DaemonSetController, StartPlay, LookupCr, SetVersions, WriteStatus,
     ApplyObject, Collect, FetchTemplates, FilterOwned, InjectOwner, AllInjected, ReadDaemonSet,
     WriteDaemonSet, CountTemplates, SetCondition, SetObserved, SkipObserved, Finish, TaskFails,
     TaskFailsWhen, ItemFails, PlayBreaks, Edit, DeleteCr, RecreateCr, DeleteOldCr, DeleteObject,
     CollectGarbage, DaemonSetStarts, PodsGetReady, PodFails, SetDaemonSet, vars, world
<1>2. /\ TaskNames' = TaskNames /\ Mine' = Mine /\ kind \in AllKinds
      /\ Mine \subseteq Objects /\ Installed \subseteq Mine
      /\ "lookup" \in TaskNames
  <2>1. kind \in AllKinds
    BY DEF Typed
  <2>2. "lookup" \in TaskNames
    BY <2>1 DEF TaskNames, Tasks, AllKinds, NodeLabellerTasks, MetricsAggregationTasks,
       CommonTemplatesTasks
  <2> QED
    BY <1>1, <2>1, <2>2, MineTyped DEF TaskNames, Tasks, Mine
<1>3. ASSUME GoOn, pc \in TaskNames, pc # "requeue" PROVE pc' \in TaskNames /\ Step(kind, pc, pc')
  BY <1>2, <1>3, TasksInOrder
<1>4. pc # "idle" => pc \in TaskNames
  BY DEF Typed
<1>5. CASE StartPlay
  BY <1>2, <1>5 DEF StartPlay, world, budgets, Typed, RefsSound
<1>6. CASE LookupCr
  BY <1>2, <1>3, <1>4, <1>6 DEF LookupCr, world, Typed, RefsSound, Step, AllKinds
<1>7. ASSUME NEW new \in [target : BOOLEAN, observed : BOOLEAN,
                         cond : [ConditionTypes -> {"Unset", "True", "False"}]],
             WriteStatus(new), pc \in {"versions", "observed"} \cup ConditionTypes
      PROVE  Typed' /\ RefsSound'
  <2>1. pc' \in TaskNames /\ pc' # "inject"
    BY <1>2, <1>3, <1>4, <1>7 DEF WriteStatus, Step, AllKinds, ConditionTypes
  <2> QED
    BY <1>2, <1>7, <2>1 DEF WriteStatus, snapshots, Typed, RefsSound
<1>8. CASE SetVersions \/ SetCondition \/ SetObserved
  <2> DEFINE Statuses == [target : BOOLEAN, observed : BOOLEAN,
                          cond : [ConditionTypes -> {"Unset", "True", "False"}]]
  <2>1. CASE SetVersions
    <3>1. [status EXCEPT !.target = TRUE] \in Statuses
      BY DEF Typed
    <3> QED
      BY <1>7, <2>1, <3>1 DEF SetVersions
  <2>2. CASE SetCondition
    <3> DEFINE new == [status EXCEPT !.cond[pc] = IF Fact(pc) THEN "True" ELSE "False"]
    <3>1. new \in Statuses
      BY <2>2 DEF SetCondition, Typed
    <3>2. WriteStatus(new) /\ pc \in ConditionTypes
      BY <2>2 DEF SetCondition
    <3> HIDE DEF new
    <3> QED
      BY <1>7, <3>1, <3>2
  <2>3. CASE SetObserved
    <3>1. [status EXCEPT !.observed = TRUE] \in Statuses
      BY DEF Typed
    <3> QED
      BY <1>7, <2>3, <3>1 DEF SetObserved
  <2> QED
    BY <1>8, <2>1, <2>2, <2>3
<1>9. CASE ApplyObject
  <2>1. pc \in Objects /\ pc \in Installed
    BY <1>2, <1>9 DEF ApplyObject
  <2>2. /\ Applied(pc) \in [present : BOOLEAN, refs : References]
        /\ Distinct(Applied(pc).refs)
    BY <2>1, AppliedTyped
  <2>3. pc' \in TaskNames /\ pc' # "inject"
    BY <1>2, <1>3, <1>4, <1>9, <2>1 DEF ApplyObject, Step, AllKinds, Objects, Templates
  <2>4. ds'.desiredNumberScheduled \in Nat /\ ds'.numberReady \in Nat
    <3>1. \/ ds' = ds \/ ds' = [ds EXCEPT !.current = TRUE, !.phase = "stale"]
          \/ ds' = DaemonSetContent(TRUE, "stale", 0, 0)
      BY <1>9 DEF ApplyObject
    <3>2. CASE ds' = [ds EXCEPT !.current = TRUE, !.phase = "stale"]
      BY <3>2 DEF Typed
    <3> QED
      BY <3>1, <3>2 DEF Typed, DaemonSetContent
  <2>5. /\ obj' = [obj EXCEPT ![pc] = Applied(pc)] /\ reg' = [reg EXCEPT ![pc] = Applied(pc).refs]
        /\ fresh' = fresh \cup {pc}
        /\ UNCHANGED <<kind, cr, status, old, params, info, seen, failed, todo, result>>
    BY <1>9 DEF ApplyObject
  <2> HIDE DEF Applied
  <2> QED
    BY <1>2, <2>1, <2>2, <2>3, <2>4, <2>5 DEF Typed, RefsSound
<1>10. CASE ItemFails
  BY <1>2, <1>3, <1>4, <1>10 DEF ItemFails, world, Typed, RefsSound, Step, AllKinds
<1>11. CASE Collect
  BY <1>2, <1>3, <1>4, <1>11 DEF Collect, world, Typed, RefsSound
<1>12. CASE FetchTemplates
  <2>1. pc' \in TaskNames /\ pc' # "inject"
    BY <1>2, <1>3, <1>4, <1>12 DEF FetchTemplates, Step, AllKinds
  <2>2. reg' = [o \in Objects |-> obj[o].refs] /\ fresh' \subseteq Objects
    BY <1>2, <1>12 DEF FetchTemplates
  <2> QED
    BY <1>2, <1>12, <2>1, <2>2 DEF FetchTemplates, world, Typed, RefsSound
<1>13. CASE FilterOwned
  <2>1. pc' \in TaskNames
    BY <1>3, <1>4, <1>13 DEF FilterOwned
  <2>2. todo' \subseteq Mine /\ \A o \in todo' : \E u \in old : OwnedBy(reg[o], u)
    BY <1>13 DEF FilterOwned
  <2>3. \A o \in todo' : Injectable(reg[o])
    BY <2>2, NoKeyTyped DEF OwnedBy, Injectable
  <2> QED
    BY <1>2, <1>13, <2>1, <2>2, <2>3 DEF FilterOwned, world, Typed, RefsSound
<1>14. CASE InjectOwner
  <2>1. PICK o \in todo : /\ obj' = [obj EXCEPT ![o].refs = Inject(reg[o], info)]
                         /\ todo' = todo \ {o}
    BY <1>14 DEF InjectOwner
  <2>2. /\ o \in Objects /\ reg[o] \in References /\ Injectable(reg[o]) /\ Distinct(reg[o])
        /\ info \in Uids
    BY <1>2, <1>14, UidsTyped DEF Typed, RefsSound, InjectOwner
  <2>3. Inject(reg[o], info) \in References /\ Distinct(Inject(reg[o], info))
    BY <2>2, InjectAdopts DEF References
  <2>4. UNCHANGED <<kind, cr, status, ds, old, pc, params, info, reg, seen, fresh, failed, result>>
    BY <1>14 DEF InjectOwner
  <2> QED
    BY <1>2, <2>1, <2>2, <2>3, <2>4 DEF Typed, RefsSound
<1>15. CASE AllInjected
  <2>1. pc' \in TaskNames /\ pc' # "inject"
    BY <1>2, <1>3, <1>4, <1>15 DEF AllInjected, Step, AllKinds
  <2>2. reg' = NoResults /\ NoResults \in [Objects -> References]
        /\ \A o \in Objects : Distinct(NoResults[o])
    BY <1>15, NoKeyTyped DEF AllInjected, NoResults
  <2> QED
    BY <1>2, <1>15, <2>1, <2>2, UidsTyped DEF AllInjected, world, Typed, RefsSound
<1>16. CASE ReadDaemonSet
  BY <1>2, <1>3, <1>4, <1>16 DEF ReadDaemonSet, world, Typed, RefsSound, Step, AllKinds, Objects
<1>17. CASE WriteDaemonSet
  BY <1>2, <1>3, <1>4, <1>17 DEF WriteDaemonSet, world, Typed, RefsSound, Step, AllKinds
<1>18. CASE CountTemplates
  <2>1. pc' \in TaskNames /\ pc' # "inject" /\ kind = "CommonTemplates"
    BY <1>2, <1>3, <1>4, <1>18 DEF CountTemplates, Step, AllKinds
  <2> QED
    BY <1>2, <1>18, <2>1 DEF CountTemplates, world, Typed, RefsSound
<1>19. CASE SkipObserved
  BY <1>2, <1>3, <1>4, <1>19 DEF SkipObserved, world, snapshots, Typed, RefsSound, Step, AllKinds
<1>20. CASE Finish \/ TaskFails \/ PlayBreaks
  BY <1>20, EndTyped DEF Finish, TaskFails, TaskFailsWhen, PlayBreaks
<1>21. CASE DeleteCr
  BY <1>2, <1>21 DEF DeleteCr, Edit, EmptyStatus, Typed, RefsSound
<1>22. CASE RecreateCr
  <2>1. cr'.uid \in 1..MaxUid
    BY <1>22, BundleAssumption DEF RecreateCr, Typed
  <2> QED
    BY <1>2, <1>22, <2>1 DEF RecreateCr, Edit, Typed, RefsSound
<1>23. CASE DeleteOldCr
  BY <1>2, <1>23 DEF DeleteOldCr, Edit, Typed, RefsSound
<1>24. ASSUME NEW o \in Mine, DeleteObject(o) PROVE Typed' /\ RefsSound'
  <2>1. NoObject \in [present : BOOLEAN, refs : References] /\ Distinct(NoObject.refs)
    BY NoKeyTyped DEF NoObject
  <2> QED
    BY <1>2, <1>24, <2>1 DEF DeleteObject, Edit, Typed, RefsSound
<1>25. ASSUME NEW o \in Mine, CollectGarbage(o) PROVE Typed' /\ RefsSound'
  <2> DEFINE refs == obj[o].refs
             alive == {u \in Owners(refs) : Alive(u)}
             new == IF alive = {} THEN NoObject
                    ELSE [present |-> TRUE, refs |-> Pruned(refs, alive)]
  <2>1. obj' = [obj EXCEPT ![o] = new]
    BY <1>25 DEF CollectGarbage
  <2>3. new \in [present : BOOLEAN, refs : References] /\ Distinct(new.refs)
    <3>1. refs \in Seq(Ref) /\ Distinct(refs)
      <4>1. Owners(refs) # {}
        BY <1>25 DEF CollectGarbage
      <4> QED
        BY <1>2, <4>1, ListTyped DEF Owners, Typed, RefsSound
    <3>2. Pruned(refs, alive) \in References /\ Distinct(Pruned(refs, alive))
      BY <3>1, PruneKeeps DEF References
    <3>3. NoObject \in [present : BOOLEAN, refs : References] /\ Distinct(NoObject.refs)
      BY NoKeyTyped DEF NoObject
    <3> HIDE DEF refs, alive
    <3> QED
      BY <3>2, <3>3
  <2> HIDE DEF new
  <2>2. /\ fresh' \subseteq fresh
        /\ UNCHANGED <<kind, cr, status, ds, old, pc, params, info, reg, seen, failed, todo, result>>
    BY <1>25 DEF CollectGarbage
  <2> QED
    BY <1>2, <2>1, <2>2, <2>3 DEF Typed, RefsSound
<1>26. CASE DaemonSetController
  <2>1. ASSUME NEW phase, NEW desired \in Nat, NEW ready \in Nat, SetDaemonSet(phase, desired, ready)
        PROVE  Typed' /\ RefsSound'
    BY <1>2, <2>1 DEF SetDaemonSet, DaemonSetContent, Typed, RefsSound
  <2>2. CASE DaemonSetStarts
    <3>1. PICK ready \in 0..Nodes : SetDaemonSet("rolling", Nodes, ready)
      BY <2>2 DEF DaemonSetStarts
    <3>2. ready \in Nat /\ Nodes \in Nat
      BY BundleAssumption
    <3> QED
      BY <2>1, <3>1, <3>2
  <2>3. CASE PodsGetReady
    BY <2>1, <2>3, BundleAssumption DEF PodsGetReady
  <2>4. CASE PodFails
    <3>1. ds.numberReady - 1 \in Nat
      BY <2>4 DEF PodFails, Typed
    <3> QED
      BY <2>1, <2>4, <3>1, BundleAssumption DEF PodFails
  <2> QED
    BY <1>26, <2>2, <2>3, <2>4 DEF DaemonSetController
<1>27. CASE UNCHANGED vars
  BY <1>2, <1>27 DEF vars, world, snapshots, budgets, Typed, RefsSound
<1> QED
  BY <1>5, <1>6, <1>8, <1>9, <1>10, <1>11, <1>12, <1>13, <1>14, <1>15, <1>16, <1>17, <1>18,
     <1>19, <1>20, <1>21, <1>22, <1>23, <1>24, <1>25, <1>26, <1>27 DEF Next, Play, Users

--------------------------------------------------------------------------------
(* The report.                                                               *)

LEMMA OrderOfReport ==
  ASSUME kind \in AllKinds, NEW here, NEW next, Step(kind, here, next)
  PROVE  /\ next \in AfterVersions => here = "versions" \/ here \in AfterVersions
         /\ \A t \in ConditionTypes :
              next \in AfterCondition(t) => here = t \/ here \in AfterCondition(t)
         /\ next = "requeue" => here = "observed"
         /\ here \in {"count", "write"} => next = "Progressing"
         /\ here = "lookup" => next = "versions"
<1> USE DEF AfterVersions, AllTasks, AfterCondition, ConditionTypes
<1>1. CASE kind = "NodeLabeller"
  BY <1>1 DEF Step
<1>2. CASE kind = "MetricsAggregation"
  BY <1>2 DEF Step
<1>3. CASE kind = "CommonTemplates"
  BY <1>3 DEF Step
<1> QED
  BY <1>1, <1>2, <1>3 DEF AllKinds

\* What is reported when the last task of a play is reached agrees with how it ends.
LEMMA ReportComplete ==
  ASSUME Typed, StatusSound, OfPlay, pc = "requeue"
  PROVE  /\ status.target
         /\ status.cond = Conditions(Healthy)
         /\ Healthy /\ kind # "CommonTemplates" => status.observed
<1>1. status.target
  BY DEF StatusSound, AfterVersions, AllTasks
<1>2. \A t \in ConditionTypes : status.cond[t] = IF Fact(t) THEN "True" ELSE "False"
  BY DEF StatusSound, AfterCondition
<1>3. \A t \in ConditionTypes :
        Conditions(Healthy)[t] = IF Fact(t) THEN "True" ELSE "False"
  <2> SUFFICES ASSUME NEW t \in ConditionTypes
               PROVE  Conditions(Healthy)[t] = IF Fact(t) THEN "True" ELSE "False"
    OBVIOUS
  <2>1. Conditions(Healthy)[t] = IF (t = "Available") = Healthy THEN "True" ELSE "False"
    BY DEF Conditions
  <2> HIDE DEF Healthy
  <2>2. Fact(t) <=> (t = "Available") = Healthy
    BY DEF Fact
  <2> QED
    BY <2>1, <2>2
<1>4. status.cond = Conditions(Healthy)
  BY <1>2, <1>3 DEF Typed, Conditions
<1>5. Healthy /\ kind # "CommonTemplates" => Available
  BY DEF Typed, Healthy, Available, AllKinds
<1> QED
  BY <1>1, <1>4, <1>5 DEF StatusSound

\* What is kept: all three conditions of a kind agree, the undocumented one as well.
WholeReport ==
  Reported =>
    /\ status.target
    /\ status.cond = Conditions(result.outcome = "Successful")
    /\ result.outcome = "Successful" /\ kind # "CommonTemplates" => status.observed

LEMMA NextReport ==
  ASSUME Typed, UidsSound, EndedSound, StatusSound, WholeReport, [Next]_vars
  PROVE  UidsSound' /\ EndedSound' /\ StatusSound' /\ WholeReport'
<1>1. kind \in AllKinds /\ cr.uid \in Nat /\ info \in Nat /\ result.uid \in Nat
  BY BundleAssumption DEF Typed
<1>2. ASSUME GoOn, pc \in AllTasks \ {"requeue"}
      PROVE  pc' # "idle" /\ Step(kind, pc, pc')
  <2>1. pc \in TaskNames
    BY <1>2 DEF Typed, AllTasks
  <2>2. pc' \in AllTasks
    BY <1>1, <1>2, <2>1, TasksInOrder
  <2> QED
    BY <1>1, <1>2, <2>1, <2>2, TasksInOrder DEF AllTasks
<1> DEFINE Kept == UNCHANGED <<kind, cr, info, result>>
           Running == result.outcome \notin {"Successful", "Requeued"}
<1>3. ASSUME pc # "idle" PROVE Running
  BY <1>3 DEF EndedSound
\* A task that neither reports nor counts.
<1>4. ASSUME Kept, UNCHANGED <<status, seen>>, GoOn,
             pc \in AllTasks \ ({"requeue", "versions"} \cup ConditionTypes),
             pc = "observed" => ~Available
      PROVE  UidsSound' /\ EndedSound' /\ StatusSound' /\ WholeReport'
  <2>1. pc # "idle" /\ Step(kind, pc, pc')
    BY <1>2, <1>4 DEF AllTasks
  <2>2. Available' = Available /\ \A t \in ConditionTypes : Fact(t)' = Fact(t)
    BY <1>4 DEF Available, Healthy, Fact
  <2>3. StatusSound'
    <3> HIDE DEF Available, Fact
    <3>1. \A t \in ConditionTypes : AfterCondition(t)' = AfterCondition(t)
      BY <1>4 DEF AfterCondition
    <3>2. OfPlay' => OfPlay
      BY <1>4 DEF OfPlay
    <3> QED
      BY <1>1, <1>4, <2>1, <2>2, <3>1, <3>2, OrderOfReport DEF StatusSound
  <2> QED
    BY <1>3, <1>4, <2>1, <2>3 DEF UidsSound, EndedSound, WholeReport, Reported
\* A task that counts: nothing is reported yet.
<1>5. ASSUME Kept, UNCHANGED status, GoOn, pc \in {"count", "write"}
      PROVE  UidsSound' /\ EndedSound' /\ StatusSound' /\ WholeReport'
  <2>1. pc' = "Progressing" /\ pc # "idle"
    BY <1>1, <1>2, <1>5, OrderOfReport DEF AllTasks
  <2>2. \A t \in ConditionTypes : "Progressing" \notin AfterCondition(t)' \/ kind = "MetricsAggregation"
    BY <1>5 DEF AfterCondition, ConditionTypes
  <2>3. kind # "MetricsAggregation"
    BY <1>2, <1>5 DEF AllTasks, Step
  <2>4. StatusSound'
    BY <1>5, <2>1, <2>2, <2>3 DEF StatusSound, OfPlay, AfterVersions, AllTasks
  <2> QED
    BY <1>3, <1>5, <2>1, <2>4 DEF UidsSound, EndedSound, WholeReport, Reported
\* A task that reports.
<1>6. ASSUME NEW new, WriteStatus(new), pc \in {"versions", "observed"} \cup ConditionTypes,
             pc # "versions" => new.target = status.target,
             pc = "versions" => new.target,
             pc = "observed" => new.observed,
             \A t \in ConditionTypes :
               new.cond[t] = IF pc = t THEN IF Fact(t) THEN "True" ELSE "False" ELSE status.cond[t]
      PROVE  UidsSound' /\ EndedSound' /\ StatusSound' /\ WholeReport'
  <2>1. Kept /\ UNCHANGED seen /\ status' = new /\ GoOn
    BY <1>6 DEF WriteStatus, snapshots
  <2>2. pc # "idle" /\ pc' # "idle" /\ Step(kind, pc, pc')
    BY <1>2, <1>6, <2>1 DEF AllTasks, ConditionTypes
  <2>3. Available' = Available /\ \A t \in ConditionTypes : Fact(t)' = Fact(t)
    BY <2>1 DEF Available, Healthy, Fact
  <2>4. StatusSound'
    <3> HIDE DEF Available, Fact
    <3>1. \A t \in ConditionTypes : AfterCondition(t)' = AfterCondition(t)
      BY <2>1 DEF AfterCondition
    <3>2. OfPlay' => OfPlay
      BY <2>1 DEF OfPlay
    <3>3. ASSUME OfPlay', pc' \in AfterVersions PROVE status'.target
      BY <1>1, <1>6, <2>1, <2>2, <3>2, <3>3, OrderOfReport
         DEF StatusSound, AfterVersions, AllTasks, ConditionTypes
    <3>4. ASSUME OfPlay', NEW t \in ConditionTypes, pc' \in AfterCondition(t)
          PROVE  status'.cond[t] = IF Fact(t)' THEN "True" ELSE "False"
      BY <1>1, <1>6, <2>1, <2>2, <2>3, <3>2, <3>4, OrderOfReport DEF StatusSound
    <3>5. ASSUME OfPlay', pc' = "requeue", Available' PROVE status'.observed
      BY <1>1, <1>6, <2>1, <2>2, <3>5, OrderOfReport
    <3> QED
      BY <3>1, <3>3, <3>4, <3>5 DEF StatusSound, AfterVersions, AllTasks
  <2> QED
    BY <1>3, <2>1, <2>2, <2>4 DEF UidsSound, EndedSound, WholeReport, Reported
\* The end of a play.
<1>7. ASSUME NEW outcome, EndPlay(outcome), UNCHANGED world, pc # "idle",
             outcome \in {"Successful", "Requeued"} =>
               pc = "requeue" /\ (outcome = "Successful" <=> Healthy)
      PROVE  UidsSound' /\ EndedSound' /\ StatusSound' /\ WholeReport'
  <2>1. /\ pc' = "idle" /\ info' = 1 /\ result' = [outcome |-> outcome, uid |-> info]
        /\ UNCHANGED <<kind, cr, status>>
    BY <1>7 DEF EndPlay, world
  <2>2. UidsSound' /\ EndedSound'
    BY <1>1, <2>1, BundleAssumption DEF UidsSound, EndedSound, Typed
  <2>3. StatusSound'
    BY <2>1 DEF StatusSound, AfterVersions, AfterCondition, AllTasks, ConditionTypes
  <2>4. WholeReport'
    <3> SUFFICES ASSUME Reported' PROVE
          /\ status'.target
          /\ status'.cond = Conditions(result'.outcome = "Successful")
          /\ result'.outcome = "Successful" /\ kind # "CommonTemplates" => status'.observed
      BY <2>1 DEF WholeReport, Conditions
    <3>1. outcome \in {"Successful", "Requeued"} /\ OfPlay
      BY <2>1 DEF Reported, OfPlay
    <3>2. Conditions(result'.outcome = "Successful") = Conditions(Healthy)
      <4> HIDE DEF Healthy
      <4>1. CASE Healthy
        <5>1. result'.outcome = "Successful"
          BY <1>7, <2>1, <3>1, <4>1
        <5> QED
          BY <4>1, <5>1 DEF Conditions
      <4>2. CASE ~Healthy
        <5>1. (result'.outcome = "Successful") = FALSE
          BY <1>7, <2>1, <3>1, <4>2
        <5>2. Healthy = FALSE
          BY <4>2
        <5> QED
          BY <5>1, <5>2
      <4> QED
        BY <4>1, <4>2
    <3> QED
      BY <1>7, <2>1, <3>1, <3>2, ReportComplete
  <2> QED
    BY <2>2, <2>3, <2>4
\* Steps of others.
<1>8. ASSUME UNCHANGED <<kind, status, seen, pc, info, result, cr>>
      PROVE  UidsSound' /\ EndedSound' /\ StatusSound' /\ WholeReport'
  BY <1>8 DEF UidsSound, EndedSound, StatusSound, WholeReport, OfPlay, Available, Healthy,
     Fact, AfterCondition, AfterVersions, AllTasks, Reported, Conditions
<1>9. CASE StartPlay
  <2>1. /\ pc' = "lookup" /\ result' = [outcome |-> "None", uid |-> cr.uid]
        /\ UNCHANGED <<kind, cr, status, info>>
    BY <1>9 DEF StartPlay, world
  <2> QED
    BY <1>1, <2>1 DEF UidsSound, EndedSound, StatusSound, WholeReport, Reported,
       AfterVersions, AfterCondition, ConditionTypes
<1>10. CASE LookupCr
  <2>1. /\ pc = "lookup" /\ pc' = "versions" /\ info' = cr.uid
        /\ UNCHANGED <<kind, cr, status, result>>
    BY <1>1, <1>2, <1>10, OrderOfReport DEF LookupCr, world, AllTasks
  <2> QED
    BY <1>1, <1>3, <2>1 DEF UidsSound, EndedSound, StatusSound, WholeReport, Reported,
       AfterVersions, AfterCondition, ConditionTypes
<1>11. CASE SetVersions
  BY <1>6, <1>11 DEF SetVersions, Typed, ConditionTypes
<1>12. CASE SetCondition
  <2> DEFINE new == [status EXCEPT !.cond[pc] = IF Fact(pc) THEN "True" ELSE "False"]
  <2>1. WriteStatus(new) /\ pc \in ConditionTypes
    BY <1>12 DEF SetCondition
  <2>2. /\ new.target = status.target
        /\ \A t \in ConditionTypes :
             new.cond[t] = IF pc = t THEN IF Fact(pc) THEN "True" ELSE "False" ELSE status.cond[t]
    BY <2>1 DEF Typed
  <2> HIDE DEF new, Fact
  <2> QED
    BY <1>6, <2>1, <2>2 DEF ConditionTypes
<1>13. CASE SetObserved
  BY <1>6, <1>13 DEF SetObserved, Typed, ConditionTypes
<1>14. CASE CountTemplates \/ WriteDaemonSet
  BY <1>5, <1>14 DEF CountTemplates, WriteDaemonSet, world
<1>15. CASE \/ ItemFails \/ Collect \/ FetchTemplates \/ FilterOwned \/ AllInjected
            \/ ReadDaemonSet \/ SkipObserved
  BY <1>4, <1>15 DEF ItemFails, Collect, FetchTemplates, FilterOwned, AllInjected, ReadDaemonSet,
     SkipObserved, world, snapshots, AllTasks, ConditionTypes
<1>16. CASE ApplyObject
  <2>1. pc \in AllTasks \ ({"requeue", "versions", "observed"} \cup ConditionTypes)
    BY <1>1, <1>16, MineTyped DEF ApplyObject, Installed, Objects, Templates, AllTasks,
       ConditionTypes
  <2>2. Kept /\ UNCHANGED <<status, seen>> /\ GoOn
    BY <1>16 DEF ApplyObject
  <2> QED
    BY <1>4, <2>1, <2>2
<1>17. CASE InjectOwner
  BY <1>8, <1>17 DEF InjectOwner
<1>18. CASE Finish
  <2>1. PICK outcome \in {"Successful", "Requeued"} :
          EndPlay(outcome) /\ (outcome = "Successful" <=> Healthy)
    BY <1>18 DEF Finish
  <2>2. pc = "requeue" /\ UNCHANGED world
    BY <1>18 DEF Finish
  <2> HIDE DEF Healthy
  <2> QED
    BY <1>7, <2>1, <2>2
<1>19. CASE TaskFails \/ PlayBreaks
  <2>1. EndPlay("Failed") /\ UNCHANGED world /\ pc # "idle"
    BY <1>19 DEF TaskFails, TaskFailsWhen, PlayBreaks, ConditionTypes
  <2> QED
    BY <1>7, <2>1
<1>20. CASE DeleteCr \/ RecreateCr
  <2>1. /\ cr'.uid \in Nat /\ cr.uid <= cr'.uid /\ UNCHANGED <<kind, pc, info, result>>
        /\ ~cr'.exists \/ cr.uid < cr'.uid
    BY <1>1, <1>20 DEF DeleteCr, RecreateCr, Edit, Typed
  <2>2. ~OfPlay' /\ ~Reported'
    BY <1>1, <2>1 DEF OfPlay, Reported, UidsSound
  <2> QED
    BY <1>1, <2>1, <2>2 DEF UidsSound, EndedSound, StatusSound, WholeReport
<1>21. CASE DeleteOldCr \/ (\E o \in Mine : DeleteObject(o) \/ CollectGarbage(o))
            \/ DaemonSetController \/ UNCHANGED vars
  BY <1>8, <1>21 DEF DeleteOldCr, DeleteObject, Edit, CollectGarbage, DaemonSetController,
     DaemonSetStarts, PodsGetReady, PodFails, SetDaemonSet, vars, world, snapshots
<1> QED
  BY <1>9, <1>10, <1>11, <1>12, <1>13, <1>14, <1>15, <1>16, <1>17, <1>18, <1>19, <1>20, <1>21
     DEF Next, Play, Users

--------------------------------------------------------------------------------
(* Adoption.                                                                 *)

\* There is one CR of the old API group at most: several are looked up as a list.
OneOldCr == \A u, v \in OldUids : u = v

Adoption == FreshSound /\ FetchedSound /\ AdoptedSound /\ AdoptedWhenReported

\* A lookup finds the old CR that is there.
LEMMA OldFound ==
  ASSUME OneOldCr, old \subseteq OldUids, NEW u \in old
  PROVE  OldCrFound
<1>1. old = {u}
  BY DEF OneOldCr
<1> QED
  BY <1>1, FS_Singleton DEF OldCrFound

\* A step makes no object, and takes no owner away but one that is gone.
TakesNothing ==
  \A o \in Mine : obj'[o].present =>
    /\ obj[o].present
    /\ Owners(obj'[o].refs) \subseteq Owners(obj[o].refs)
    /\ cr.exists /\ cr.uid \in Owners(obj[o].refs) => cr.uid \in Owners(obj'[o].refs)

\* Such a step, of users or of a controller, disturbs nothing if it leaves the objects
\* alone that count as unchanged since the play read them.
LEMMA OthersAdopt ==
  ASSUME Typed, UidsSound, Adoption,
         UNCHANGED <<kind, pc, info, reg, todo, result>>,
         cr' = cr \/ (~OfPlay' /\ ~Reported'),
         old' \subseteq old, fresh' \subseteq fresh,
         \A o \in fresh' : obj'[o] = obj[o],
         TakesNothing
  PROVE  Adoption'
<1>1. Mine' = Mine
  BY DEF Mine
<1>2. \A o \in Mine : obj'[o].present /\ Due(o)' => Due(o)
  BY DEF Due, OwnedBy, TakesNothing
<1>3. FreshSound'
  BY DEF Adoption, FreshSound
<1>4. FetchedSound'
  BY <1>1 DEF Adoption, FetchedSound, TakesNothing
<1>5. AdoptedSound'
  <2> HIDE DEF Due
  <2> QED
    BY <1>1, <1>2 DEF Adoption, AdoptedSound, OfPlay, OwnedBy, TakesNothing
<1>6. AdoptedWhenReported'
  <2>1. \A o \in Mine : obj'[o].present /\ (kind = "CommonTemplates" =>
                                           \E u \in old' : OwnedBy(obj'[o].refs, u))
          => (kind = "CommonTemplates" => \E u \in old : OwnedBy(obj[o].refs, u))
    BY DEF OwnedBy, TakesNothing
  <2> QED
    BY <1>1, <2>1 DEF Adoption, AdoptedWhenReported, Reported, OwnedBy, TakesNothing
<1> QED
  BY <1>3, <1>4, <1>5, <1>6 DEF Adoption

\* A task that leaves objects, CR and result alone, and adopts nothing.
LEMMA TaskAdopts ==
  ASSUME Typed, EndedSound, Adoption, pc # "idle", pc' # "idle",
         UNCHANGED <<kind, cr, obj, old, result>>,
         pc \in AfterInject \cup {"inject"} \/ pc' \notin AfterInject \cup {"inject"},
         pc = "inject" /\ pc' \in AfterInject => todo = {},
         pc' \in AfterInject \cup {"inject"} => UNCHANGED info,
         pc' # "inject", pc' # "old",
         \A o \in fresh' : obj[o].present /\ (pc' \in AfterInject \/ obj[o].refs = reg'[o])
  PROVE  Adoption'
<1>1. Mine' = Mine
  BY DEF Mine
<1>2. FreshSound' /\ FetchedSound'
  BY DEF FreshSound, FetchedSound
<1>3. \A o : Due(o)' = Due(o)
  BY DEF Due
<1>4. AdoptedSound'
  <2> HIDE DEF Due
  <2> QED
    BY <1>1, <1>3 DEF Adoption, AdoptedSound, OfPlay
<1>5. AdoptedWhenReported'
  BY DEF EndedSound, AdoptedWhenReported, Reported
<1> QED
  BY <1>2, <1>4, <1>5 DEF Adoption

LEMMA NextAdoption ==
  ASSUME OneOldCr, Typed, RefsSound, UidsSound, EndedSound, Adoption, [Next]_vars
  PROVE  Adoption'
<1>1. kind \in AllKinds /\ cr.uid \in Nat /\ info \in Nat /\ result.uid \in Nat
  BY BundleAssumption DEF Typed
<1>2. Mine \subseteq Objects /\ Installed \subseteq Mine
  BY <1>1, MineTyped
<1>3. ASSUME GoOn, pc \in AllTasks \ {"requeue"}
      PROVE  pc' \in AllTasks /\ Step(kind, pc, pc')
  <2>1. pc \in TaskNames
    BY <1>3 DEF Typed, AllTasks
  <2> QED
    BY <1>1, <1>3, <2>1, TasksInOrder
<1>4. CASE StartPlay
  <2>1. /\ pc = "idle" /\ pc' = "lookup" /\ result'.outcome = "None"
        /\ UNCHANGED <<obj, reg, fresh, todo>>
    BY <1>4 DEF StartPlay, world
  <2>2. FreshSound'
    BY <2>1 DEF Adoption, FreshSound, AfterInject
  <2> QED
    BY <2>1, <2>2 DEF Adoption, FetchedSound, AdoptedSound, AdoptedWhenReported, Reported, AfterInject
<1>5. CASE LookupCr
  <2>1. /\ pc = "lookup" /\ pc' = "versions"
        /\ UNCHANGED <<kind, cr, obj, old, result, reg, fresh, todo>>
    BY <1>1, <1>3, <1>5, OrderOfReport DEF LookupCr, world, AllTasks
  <2> QED
    BY <2>1, TaskAdopts DEF Adoption, FreshSound, AfterInject
<1>6. CASE SetVersions \/ SetCondition \/ SetObserved
  <2>1. /\ GoOn /\ UNCHANGED <<kind, cr, obj, old, result, info, reg, fresh, todo>>
        /\ pc \in {"versions", "observed"} \cup ConditionTypes
    BY <1>6 DEF SetVersions, SetCondition, SetObserved, WriteStatus, snapshots
  <2>2. /\ pc \in AllTasks /\ pc' \in AllTasks /\ Step(kind, pc, pc')
        /\ pc # "requeue"
    BY <1>3, <2>1 DEF AllTasks, ConditionTypes
  <2>3. /\ pc' \notin {"inject", "old"}
        /\ pc \in AfterInject <=> pc' \in AfterInject
    BY <1>1, <2>1, <2>2 DEF Step, AllKinds, ConditionTypes, AfterInject
  <2>4. pc # "inject"
    BY <2>1 DEF ConditionTypes
  <2>5. \A o \in fresh' : obj[o].present /\ (pc' \in AfterInject \/ obj[o].refs = reg'[o])
    BY <2>1, <2>3, <2>4 DEF Adoption, FreshSound
  <2> QED
    BY <2>1, <2>2, <2>3, <2>4, <2>5, TaskAdopts DEF AllTasks
<1>7. CASE ApplyObject
  <2>1. /\ GoOn /\ pc \in Installed /\ pc \in Objects
        /\ obj' = [obj EXCEPT ![pc] = Applied(pc)] /\ reg' = [reg EXCEPT ![pc] = Applied(pc).refs]
        /\ fresh' = fresh \cup {pc}
        /\ UNCHANGED <<kind, cr, old, info, todo, result>>
    BY <1>2, <1>7 DEF ApplyObject
  <2>2. pc \in AllTasks \ {"requeue", "inject"} /\ pc \notin AfterInject
    BY <2>1 DEF Installed, Objects, Templates, AllTasks, AfterInject
  <2>3. pc' \in AllTasks /\ pc' \notin AfterInject \cup {"inject", "old"}
    BY <1>1, <1>3, <2>1, <2>2 DEF Step, AllKinds, AllTasks, AfterInject, Objects, Templates
  <2>4. Applied(pc).present
    BY <2>1, AppliedTyped
  <2>5. FreshSound'
    BY <1>2, <2>1, <2>2, <2>4 DEF Adoption, FreshSound, Typed
  <2>6. AdoptedWhenReported'
    BY <2>1, <2>2 DEF EndedSound, AdoptedWhenReported, Reported, AllTasks
  <2> QED
    BY <2>3, <2>5, <2>6 DEF Adoption, FetchedSound, AdoptedSound
<1>8. CASE ItemFails
  <2>1. /\ pc \in {"sa", "cm"} /\ GoOn
        /\ UNCHANGED <<kind, cr, obj, old, result, info, reg, fresh, todo>>
    BY <1>8 DEF ItemFails, world
  <2>2. pc' \in {"cm", "ds"}
    BY <1>1, <1>3, <2>1 DEF AllTasks, Step, AllKinds
  <2> QED
    BY <2>1, <2>2, TaskAdopts DEF Adoption, FreshSound, AfterInject
<1>9. CASE Collect
  <2>1. /\ pc = "collect" /\ GoOn /\ todo' = Installed
        /\ UNCHANGED <<kind, cr, obj, old, result, info, reg, fresh>>
    BY <1>9 DEF Collect, world
  <2>2. pc' = "inject" /\ kind \in {"NodeLabeller", "MetricsAggregation"}
    BY <1>1, <1>3, <2>1 DEF AllTasks, Step, AllKinds
  <2>3. Mine' = Mine /\ Mine \subseteq Installed
    BY <2>1, <2>2 DEF Mine, Installed, ObjectsOf
  <2>4. FreshSound'
    BY <2>1, <2>2 DEF Adoption, FreshSound, AfterInject
  <2>5. AdoptedSound'
    BY <2>1, <2>2, <2>3 DEF AdoptedSound, AfterInject
  <2> QED
    BY <2>1, <2>2, <2>4, <2>5 DEF Adoption, FetchedSound, AdoptedWhenReported, Reported, EndedSound
<1>10. CASE FetchTemplates
  <2>1. /\ pc = "fetch" /\ GoOn /\ reg' = [o \in Objects |-> obj[o].refs]
        /\ fresh' = {o \in Mine : obj[o].present}
        /\ UNCHANGED <<kind, cr, obj, old, result, info, todo>>
    BY <1>10 DEF FetchTemplates, world
  <2>2. pc' = "old"
    BY <1>1, <1>3, <2>1 DEF AllTasks, Step, AllKinds
  <2>3. FreshSound'
    BY <1>2, <2>1 DEF FreshSound
  <2>4. FetchedSound'
    <3>1. Mine' = Mine
      BY <2>1 DEF Mine
    <3>2. \A o \in Mine : reg'[o] = obj[o].refs
      BY <1>2, <2>1
    <3> QED
      BY <2>1, <3>1, <3>2 DEF FetchedSound
  <2> QED
    BY <2>1, <2>2, <2>3, <2>4
       DEF Adoption, AdoptedSound, AdoptedWhenReported, Reported, EndedSound, AfterInject
<1>11. CASE FilterOwned
  <2>1. /\ pc = "old" /\ GoOn
        /\ todo' = IF OldCrFound THEN {o \in Mine : \E u \in old : OwnedBy(reg[o], u)} ELSE {}
        /\ UNCHANGED <<kind, cr, obj, old, result, info, reg, fresh>>
    BY <1>11 DEF FilterOwned, world
  <2>2. pc' = "inject" /\ kind = "CommonTemplates"
    BY <1>1, <1>3, <2>1 DEF AllTasks, Step, AllKinds
  <2>3. FreshSound'
    BY <2>1, <2>2 DEF Adoption, FreshSound, AfterInject
  <2>4. ASSUME NEW o \in Mine, obj[o].present, Due(o) PROVE o \in todo'
    <3>1. PICK u \in old : OwnedBy(obj[o].refs, u)
      BY <2>2, <2>4 DEF Due
    <3>2. OwnedBy(reg[o], u)
      BY <2>1, <2>4, <3>1 DEF Adoption, FetchedSound, OwnedBy
    <3>3. OldCrFound
      BY <3>1, OldFound DEF Typed
    <3> QED
      BY <2>1, <3>2, <3>3
  <2>5. AdoptedSound'
    <3>1. Mine' = Mine /\ \A o : Due(o)' = Due(o)
      BY <2>1 DEF Mine, Due
    <3> QED
      BY <2>1, <2>2, <2>4, <3>1 DEF AdoptedSound
  <2> QED
    BY <2>1, <2>2, <2>3, <2>5 DEF Adoption, FetchedSound, AdoptedWhenReported, Reported, EndedSound
<1>12. CASE InjectOwner
  <2>1. PICK o \in todo : /\ Unchanged(o) /\ todo' = todo \ {o}
                         /\ obj' = [obj EXCEPT ![o].refs = Inject(reg[o], info)]
    BY <1>12 DEF InjectOwner
  <2>2. /\ pc = "inject" /\ pc' = "inject"
        /\ UNCHANGED <<kind, cr, old, result, info, reg, fresh>>
    BY <1>12 DEF InjectOwner
  <2>3. /\ o \in Objects /\ reg[o] \in References /\ Injectable(reg[o]) /\ Distinct(reg[o])
        /\ info \in Uids
    BY <1>2, <2>1, <2>2, UidsTyped DEF Typed, RefsSound
  <2>4. info \in Owners(Inject(reg[o], info))
    BY <2>3, InjectAdopts
  <2>5. /\ obj'[o].present = obj[o].present /\ obj'[o].refs = Inject(reg[o], info)
        /\ \A q \in Objects : q # o => obj'[q] = obj[q]
    BY <2>1, <2>3 DEF Typed
  <2>6. FreshSound'
    BY <2>1, <2>2, <2>5 DEF Adoption, FreshSound, Typed
  <2>7. AdoptedSound'
    <3>1. Mine' = Mine
      BY <2>2 DEF Mine
    <3>2. \A q \in Mine : q # o => (Due(q)' <=> Due(q))
      BY <1>2, <2>2, <2>5 DEF Due
    <3>3. \A q \in Mine : q # o /\ q \notin todo' => q \notin todo
      BY <2>1
    <3> HIDE DEF Due
    <3> QED
      BY <1>2, <2>2, <2>4, <2>5, <3>1, <3>2, <3>3 DEF Adoption, AdoptedSound, OfPlay, OwnedBy
  <2> QED
    BY <2>2, <2>6, <2>7 DEF Adoption, FetchedSound, AdoptedWhenReported, Reported, EndedSound
<1>13. CASE AllInjected
  <2>1. /\ pc = "inject" /\ todo = {} /\ GoOn /\ fresh' = {}
        /\ UNCHANGED <<kind, cr, obj, old, result, info>>
    BY <1>13 DEF AllInjected, world
  <2>2. pc' \in AfterInject /\ pc' \notin {"idle", "old", "inject"}
    BY <1>1, <1>3, <2>1 DEF AllTasks, Step, AllKinds, AfterInject
  <2> QED
    BY <2>1, <2>2, TaskAdopts
<1>14. CASE ReadDaemonSet \/ WriteDaemonSet \/ CountTemplates \/ SkipObserved
  <2>1. /\ pc \in {"read", "write", "count", "observed"} /\ GoOn
        /\ UNCHANGED <<kind, cr, obj, old, result, info, reg, todo>>
        /\ \A o \in fresh' : o \in fresh \/ obj[o].present
    BY <1>14 DEF ReadDaemonSet, WriteDaemonSet, CountTemplates, SkipObserved, world, snapshots
  <2>2. pc' \in AfterInject /\ pc \in AfterInject /\ pc' \notin {"idle", "old", "inject"}
    BY <1>1, <1>3, <2>1 DEF AllTasks, Step, AllKinds, AfterInject
  <2>3. \A o \in fresh' : obj[o].present
    BY <2>1 DEF Adoption, FreshSound
  <2> QED
    BY <2>1, <2>2, <2>3, TaskAdopts
<1>15. CASE Finish \/ TaskFails \/ PlayBreaks
  <2>1. PICK outcome : /\ EndPlay(outcome) /\ UNCHANGED world
                       /\ outcome \in {"Successful", "Requeued"} => pc = "requeue"
    BY <1>15 DEF Finish, TaskFails, TaskFailsWhen, PlayBreaks
  <2>2. /\ pc' = "idle" /\ fresh' = {} /\ result' = [outcome |-> outcome, uid |-> info]
        /\ UNCHANGED <<kind, cr, obj, old>>
    BY <2>1 DEF EndPlay, world
  <2>3. AdoptedWhenReported'
    <3> SUFFICES ASSUME Reported', NEW o \in Mine, obj[o].present, Due(o)
                 PROVE  OwnedBy(obj[o].refs, cr.uid)
      BY <2>2 DEF AdoptedWhenReported, Due, Mine
    <3>1. OfPlay /\ pc = "requeue"
      BY <2>1, <2>2 DEF Reported, OfPlay
    <3> HIDE DEF Due
    <3>2. OwnedBy(obj[o].refs, info)
      BY <3>1 DEF Adoption, AdoptedSound, AfterInject
    <3> QED
      BY <3>1, <3>2 DEF OfPlay
  <2> QED
    BY <2>2, <2>3 DEF Adoption, FreshSound, FetchedSound, AdoptedSound, AfterInject
<1>16. CASE DeleteCr \/ RecreateCr
  <2>1. /\ UNCHANGED <<kind, pc, info, reg, todo, result, old, obj, fresh>>
        /\ ~cr'.exists \/ cr.uid < cr'.uid
    BY <1>1, <1>16 DEF DeleteCr, RecreateCr, Edit, Typed
  <2>2. ~OfPlay' /\ ~Reported'
    <3>1. cr'.uid \in Nat
      BY <1>1, <1>16 DEF DeleteCr, RecreateCr, Typed
    <3> QED
      BY <1>1, <2>1, <3>1 DEF OfPlay, Reported, UidsSound
  <2>3. old' \subseteq old /\ fresh' \subseteq fresh /\ \A q \in fresh' : obj'[q] = obj[q]
    BY <2>1
  <2>4. TakesNothing
    BY <2>1 DEF TakesNothing
  <2> QED
    BY <2>1, <2>2, <2>3, <2>4, OthersAdopt
<1>17. CASE DeleteOldCr
  <2>1. /\ UNCHANGED <<kind, pc, info, reg, todo, result, cr, obj, fresh>>
        /\ old' \subseteq old
    BY <1>17 DEF DeleteOldCr, Edit
  <2>2. \A q \in fresh' : obj'[q] = obj[q]
    BY <2>1
  <2>3. TakesNothing
    BY <2>1 DEF TakesNothing
  <2>4. cr' = cr /\ old' \subseteq old /\ fresh' \subseteq fresh
    BY <2>1
  <2> QED
    BY <2>1, <2>2, <2>3, <2>4, OthersAdopt
<1>18. ASSUME NEW o \in Mine, DeleteObject(o) PROVE Adoption'
  <2>1. /\ obj' = [obj EXCEPT ![o] = NoObject] /\ fresh' = fresh \ {o}
        /\ UNCHANGED <<kind, pc, info, reg, todo, result, old, cr>>
    BY <1>18 DEF DeleteObject, Edit
  <2>2. ~obj'[o].present /\ \A q \in Objects : q # o => obj'[q] = obj[q]
    BY <1>2, <2>1 DEF NoObject, Typed
  <2>3. \A q \in fresh' : obj'[q] = obj[q]
    BY <2>1, <2>2 DEF Typed
  <2>4. TakesNothing
    BY <1>2, <2>1, <2>2 DEF TakesNothing
  <2>5. cr' = cr /\ old' \subseteq old /\ fresh' \subseteq fresh
    BY <2>1
  <2> QED
    BY <2>1, <2>3, <2>4, <2>5, OthersAdopt
<1>19. ASSUME NEW o \in Mine, CollectGarbage(o) PROVE Adoption'
  <2> DEFINE refs == obj[o].refs
             alive == {u \in Owners(refs) : Alive(u)}
             new == IF alive = {} THEN NoObject
                    ELSE [present |-> TRUE, refs |-> Pruned(refs, alive)]
  <2>1. /\ obj' = [obj EXCEPT ![o] = new] /\ fresh' = fresh \ {o} /\ obj[o].present
        /\ UNCHANGED <<kind, pc, info, reg, todo, result, old, cr>>
    BY <1>19 DEF CollectGarbage
  <2>2. new.present => Owners(new.refs) = alive
    <3>1. refs \in Seq(Ref) /\ Distinct(refs)
      <4>1. Owners(refs) # {}
        BY <1>19 DEF CollectGarbage
      <4> QED
        BY <1>2, <4>1, ListTyped DEF Owners, Typed, RefsSound
    <3>2. Owners(Pruned(refs, alive)) = Owners(refs) \cap alive
      BY <3>1, PruneKeeps
    <3>3. alive \subseteq Owners(refs) /\ ~NoObject.present
      BY DEF NoObject
    <3> HIDE DEF refs, alive
    <3> QED
      BY <3>2, <3>3
  <2>3. alive \subseteq Owners(refs) /\ (cr.exists /\ cr.uid \in Owners(refs) => cr.uid \in alive)
    BY DEF Alive
  <2> HIDE DEF new, alive
  <2>4. obj'[o] = new /\ \A q \in Objects : q # o => obj'[q] = obj[q]
    BY <1>2, <2>1 DEF Typed
  <2>5. \A q \in fresh' : obj'[q] = obj[q]
    BY <2>1, <2>4 DEF Typed
  <2>6. TakesNothing
    BY <1>2, <2>1, <2>2, <2>3, <2>4 DEF TakesNothing
  <2>7. cr' = cr /\ old' \subseteq old /\ fresh' \subseteq fresh
    BY <2>1
  <2> HIDE DEF refs
  <2> QED
    BY <2>1, <2>5, <2>6, <2>7, OthersAdopt
<1>20. CASE DaemonSetController \/ UNCHANGED vars
  <2>1. /\ UNCHANGED <<kind, pc, info, reg, todo, result, old, obj, cr>>
        /\ fresh' \subseteq fresh
    BY <1>20 DEF DaemonSetController, DaemonSetStarts, PodsGetReady, PodFails, SetDaemonSet,
       vars, world, snapshots
  <2>2. TakesNothing
    BY <2>1 DEF TakesNothing
  <2>3. cr' = cr /\ old' \subseteq old /\ \A q \in fresh' : obj'[q] = obj[q]
    BY <2>1
  <2> QED
    BY <2>1, <2>2, <2>3, OthersAdopt
<1> QED
  BY <1>4, <1>5, <1>6, <1>7, <1>8, <1>9, <1>10, <1>11, <1>12, <1>13, <1>14, <1>15, <1>16, <1>17,
     <1>18, <1>19, <1>20 DEF Next, Play, Users

--------------------------------------------------------------------------------
(* The theorems.                                                             *)

ReportInv == Typed /\ RefsSound /\ UidsSound /\ EndedSound /\ StatusSound /\ WholeReport

LEMMA InitSound == Init => ReportInv /\ Adoption
<1> SUFFICES ASSUME Init PROVE ReportInv /\ Adoption
  OBVIOUS
<1>1. Typed /\ RefsSound
  BY InitTyped
<1>2. /\ pc = "idle" /\ fresh = {} /\ result = [outcome |-> "None", uid |-> 1]
      /\ info = 1 /\ cr.uid = 1
  BY DEF Init
<1>3. UidsSound /\ EndedSound /\ WholeReport /\ AdoptedWhenReported
  BY <1>2 DEF UidsSound, EndedSound, WholeReport, AdoptedWhenReported, Reported
<1>4. StatusSound
  BY <1>2 DEF StatusSound, AfterVersions, AfterCondition, AllTasks, ConditionTypes
<1>5. FreshSound /\ FetchedSound /\ AdoptedSound
  BY <1>2 DEF FreshSound, FetchedSound, AdoptedSound, AfterInject
<1> QED
  BY <1>1, <1>3, <1>4, <1>5 DEF ReportInv, Adoption

LEMMA ReportInvariant == Spec => []ReportInv
<1>1. ReportInv /\ [Next]_vars => ReportInv'
  BY NextTyped, NextReport DEF ReportInv
<1> QED
  BY <1>1, InitSound, PTL DEF Spec

\* For each of the three roles: whatever fails or is deleted and made again under a play,
\* the versions and conditions of a CR whose latest play ended by itself agree.
THEOREM BundlesReportCoherently == Spec => []ReportCoherent
<1>1. ReportInv => ReportCoherent
  BY DEF ReportInv, WholeReport, ReportCoherent, Says, DocumentedTypes
<1> QED
  BY <1>1, ReportInvariant, PTL

\* And what the role installed is owned by that CR, what is left of the old CR's
\* templates included, unless there are several old CRs.
THEOREM BundlesAdopted ==
  ASSUME OneOldCr
  PROVE  Spec => []AdoptedWhenReported
<1>1. Adoption /\ ReportInv /\ [Next]_vars => Adoption'
  BY NextAdoption DEF ReportInv
<1>2. Adoption => AdoptedWhenReported
  BY DEF Adoption
<1> QED
  BY <1>1, <1>2, InitSound, ReportInvariant, PTL DEF Spec

================================================================================
