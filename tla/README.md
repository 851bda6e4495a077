# Verification of kubevirt-ssp-operator

TLA+ specifications of the operator in this repository, TLC configurations that
check them on small instances, and proofs that TLAPS checks for every instance.

## 1. The system

The operator is an Ansible operator. `ansible-operator` (an external binary, the
base image of `build/Dockerfile`) watches four kinds of custom resources (CRs,
`watches.yaml`) and runs one playbook per kind, for one CR at a time: when the CR
changes, again after a play that failed, and periodically. Every playbook runs the
role `KubevirtCircuitBreaker` and then the role of its kind. All state lives in the
cluster; a play only holds facts, which are snapshots of what it read.

| Component | State it keeps | Operations | Talks to |
|---|---|---|---|
| Circuit breaker (`roles/KubevirtCircuitBreaker`) | `cr_info`, `is_paused` (facts of the play) | look the CR up, parse the annotation, end the play | API server |
| Template validator (`roles/KubevirtTemplateValidator`) | facts `tv`, `objects`, `tv_status`; in the cluster a ServiceAccount, a Service, a Deployment, two RBAC objects, a webhook, and the CR's status | 19 tasks, see section 3 | API server, `k8s_status`, the ownership filter |
| Node labeller (`roles/KubevirtNodeLabeller`) | same shape, with a DaemonSet | 13 tasks | same |
| Common templates (`roles/KubevirtCommonTemplatesBundle`) | templates, namespace, RBAC, the CR's status | install, migrate from the old API group's CR, count | same, and `k8s_owned_by` |
| Metrics aggregation (`roles/KubevirtMetricsAggregation`) | a PrometheusRule, the CR's status | install, report | same |
| `k8s_status` (`build/release/.../k8s_status.py`) | none between calls; the status it read, during one | read, compare, merge, patch or replace | API server |
| Ownership filters (`filter_plugins`, `roles/.../filter_plugins`) | none | `k8s_inject_ownership`, `k8s_owned_by` | the roles |
| Version resolution (`_defaults.yml`, `roles/*/defaults`) | environment of the operator | variables with defaults | the roles |
| Template preprocessing (`build/preprocess_template.py`) | template files at image build | add annotations, patch fields | - |
| API types (`pkg/apis`) | none; structs with pointers, slices and maps in them | `DeepCopyInto`, `DeepCopy`, `DeepCopyObject` of every type | whoever holds an object, caches included |
| Informer factory and informers (`pkg/client/informers`) | `informers` and `startedInformers` under one mutex; each informer a cache | the options, `InformerFor`, `Start`, `WaitForCacheSync`, the accessors of the group | goroutines of a Go program; the typed clients |
| Listers (`pkg/client/listers`) | none; read an informer's cache | `List`, `Get`, per namespace or not | the informers |
| Typed clientset (`pkg/client/clientset`) | two clients and their token buckets | the constructors; nine methods for each of four kinds | API server |
| Fake clientset (`.../fake`) | an object tracker | the same methods | unit tests |
| Manifests, CSV generator, functional tests (`deploy`, `build`, `hack`, `functests`) | - | - | - |

The roles interact through the cluster only: the CR's status is written by the
role's tasks (each a call of `k8s_status`) and by `ansible-operator` itself (its
condition `Running`); the objects a role creates are also written by the garbage
collector and by the controllers of the cluster, and may be owned by two CRs when the
operator takes over from the one that served the API group `kubevirt.io`.

### What is hard

* Between any two tasks anything may happen: the CR is edited, paused, deleted,
  created again; the operator's pod is killed or replaced by a newer version; the
  Deployment makes progress; objects are collected. The play goes on with what it
  read before.
* A loop over manifests continues after an item that failed; a report is five
  separate patches, any of which may fail.
* The status a Deployment has just after it was changed is that of its past.
* Owner references are patched as a whole list.
* Everything depends on the play being repeated until it succeeds.
* Goroutines share one informer factory; `WaitForCacheSync` lets go of the mutex before
  it waits, while others register and start informers.
* An informer's cache is put together of a list and of the events of watches that fail.
* A request of a typed client may be lost on its way, be sent again (also after it took
  effect), or take effect after its caller has given up.
* A copy that is less deep than it should be shows only when a third party edits one.

`PROJECT.json` lists these hazards at their lines.

### What makes the components correct

* Circuit breaker: a paused CR is left alone, an unpaused one is worked on.
* Template validator: a report agrees with itself, with the running version and
  with the pods; the observed version is never ahead of what was deployed; what is
  reported is owned; nothing is left behind; the webhook, which fails closed, does
  not come before what it needs.
* `k8s_status`: one call is atomic, and changes nothing but what it was asked to.
* Ownership: adoption adds an owner and takes none away; an owner is named once.
* Node labeller, templates, metrics: as the validator, where they wait for pods; and
  templates of the old CR are never lost in the migration.
* Informer factory: one informer for each kind, whoever asks first; run once; who waits
  for caches is told of all that he started, and of nothing that is not filled.
* Listers: what they answer is what the cluster held at one moment.
* Typed clientset: each method does what its name says to the objects of its resource and
  namespace, and a write only again when the server asks for it; a clientset sends what it
  is given, sooner or later.
* Fake clientset: it is known which calls part it from the real one, and it never lacks
  an object.
* Deep copies: who edits a copy edits nothing of the original but its spec's maps and
  slices, which the two share (see `DeepCopy` in section 3).
* Versions: the documented precedence. Preprocessing: each matching rule, and nothing
  else, shows in the written template.

## 2. The modules

| Module | Models |
|---|---|
| `K8sStatus` | the module `k8s_status`: several calls running together, other clients of the CR |
| `AtomicStatus` | what `k8s_status` promises: a call takes effect at one instant |
| `Ownership` | the two filters as operators on lists of references |
| `OwnershipFilters` | objects adopted for several CRs in turn |
| `CircuitBreaker` | the pause annotation |
| `TemplateValidator` | the plays for a `KubevirtTemplateValidator`, extends the two above |
| `BundleRoles` | the plays for the other three kinds, each a table of tasks; extends `Ownership` |
| `InformerFactory` | the informer factory, used by several goroutines |
| `ApiObjects` | the objects of the group at the API server (external) |
| `Requests` | the typed clients: each method as the request it makes; extends `ApiObjects` |
| `TypedClient` | callers of the methods, and the network |
| `ResourceStore` | what the clients' interfaces promise: one operation, at one moment |
| `InformerCache` | one informer and its listers; extends `Requests` |
| `FakeClientset` | a fake clientset beside a real one; extends `Requests` |
| `DeepCopy` | the API types and their generated copies |
| `ClientsetLimits` | the clientsets' constructors and rates |
| `GeneratedClient` | the last four, which share no state, as one specification |
| `K8sStatusProofs`, `OwnershipLemmas`, `OwnershipProofs`, `TemplateValidatorProofs`, `BundleRolesProofs`, `InformerFactoryProofs`, `TypedClientProofs`, `GeneratedClientProofs` | proofs, each about the module it is named after |
| `MC...` | values of the constants for TLC |

A definition whose name has the form `X_what` is a mutant of `X`: what a plausible
mistake in the code would make of it. `PROJECT.json` says which property notices it.

## 3. How the modules correspond to the code

**K8sStatus.** `server` is the CR at the API server with its `resourceVersion`; a
call `w` has its arguments `req`, the instance it read `snap`, the list of
conditions under construction `merged`. `GetInstance` is `execute_module` up to the
comparison, `MergeCondition` one turn of the loop of `merge_status`, `WriteStatus`
the request that `patch` (or, forced, `replace`) sends. The body of that request is
the instance that was read, so it carries its `resourceVersion`, and the API server
refuses it if the CR has changed (`ServerAccepts`, external). `Killed` may end a call
anywhere. Status, reason and message of a condition are one value, because the
module treats them alike; `lastTransitionTime` is separate, because the comparison
does. Not modelled: the validation of the arguments (`condition_array`), check mode,
an explicit empty list of conditions.

**TemplateValidator.** The variable `pc` is the task a play is at; the tasks follow
the playbook in order. Each action carries the name of its task in a comment.

| Variable | In the code or the cluster |
|---|---|
| `cr`, `status` | the CR, its status (`target` is operatorVersion and targetVersion, which one task writes together) |
| `obj`, `dep`, `cluster` | ServiceAccount, Service, Deployment with their owners; the Deployment's template and status; ClusterRole, ClusterRoleBinding and webhook |
| `params` | the variables `ansible-operator` passes to the play: the CR's name and uid, the number of replicas |
| `info` | the fact `cr_info` |
| `reg`, `fresh` | `tv.results[...]`; whether its `resourceVersion` is still current |
| `seen` | `tv_status` |
| `loopFailed`, `result` | the state of the loop task; how the play ended |

A task's failure ends the play (`TaskFails`, `CallFails`), except in the loop over
the manifests (`ItemFails`). A status write is a single step, which `K8sStatus`
justifies; the conflict it may meet is among the reasons of `CallFails`. One operator
version stands for the versions of the images it installs. From outside the
repository, modelled from how its code uses them: owner references added on creation
for the CR that a play was started for, optimistic locking, the garbage collector
(collects an object all of whose owners are gone, prunes references otherwise), a
Deployment whose status lags behind its spec, counts surge pods during a rollout, and
leaves out numbers that are 0.

**BundleRoles.** A play of each kind is a list of task names; `GoOn` takes it to the
next. The tasks of the three roles that do the same are one action (`ApplyObject`,
`InjectOwner`, `SetCondition`); what only one role does has its own (`ReadDaemonSet`,
`FilterOwned`, `CountTemplates`). The variables are those of `TemplateValidator`. The
circuit breaker's lookup is there (`LookupCr`), the pause and upgrades in the middle of
a play are looked at in `TemplateValidator` only. Initially there is nothing, or a CR
of the old API group with what its operator installed. Several old CRs count as none,
as in the code: the lookup then answers with a list, which has no metadata. Left out:
objects without an owner (cluster roles, the SecurityContextConstraints, the golden
images' namespace and RBAC), which no task reads. Modelled as the code has it, and worth
knowing: a DaemonSet that was just created has 0 pods of 0 and counts as available;
`Available` of the common templates is a constant, their count of templates only
decides on `observedVersion`. `ReportCoherent` and `Settles` ask for the conditions that
the docs give a kind (`DocumentedTypes`); that the common templates get one more is a
finding (`TemplatesHaveNoDegraded`, section 4).

**InformerFactory.** `Step` is one critical section, or the steps before and after it,
of `InformerFor`, `Start` or `WaitForCacheSync`. `proc` is where a goroutine is and what
it keeps in locals, `mine` the kinds it started, `got` the informers it was handed. A
program is the options the factory is made with and what each goroutine asks for. The
constructor's loop over the options is in steps too: `config` is the factory as it is
after the options so far. A resync period that an option gives for some kinds adds to
those of earlier options and counts before the default. That a
running informer fills its cache, and that a closed channel ends it, is client-go's
(external).

**Requests, TypedClient, ResourceStore.** A method becomes a record: verb, resource,
namespace, name, subresource, body, selectors. `TypedClient` carries it over `wire`: the
server executes it (`ApiObjects`), the answer may be lost, a caller may give up while his
request is still under way and takes effect later. The vendored REST client
(`rest/request.go:703-787`) sends a request again up to `maxRetries` times: a GET after its
connection was reset, and any request that was answered 429 or 5xx with `Retry-After`
(`Postpone`), a write too. Such an answer may come from a server, or a proxy, that has
served the request, or half of a collection. So `Create` may report `AlreadyExists` for
what its own first try made, and a `Patch` may be applied on top of somebody else's
later write; an `Update` that is sent again meets the version its first try made and is
refused. Assumed: a server that asks for another try is done with the one before.
`DeleteCollection` lists and deletes one by one, as the server does.
`ResourceStore` has no wire: an operation happens, then its caller learns of it, or
does not; only a read, or what the server asked for, happens again. A slot of the wire
that holds no request is `Free`; `Promise` is what the promise sees of a slot.

**InformerCache.** `history` is the cluster at each revision, `rv` the one the reflector
goes on from, `seen` how far its watch has come. A list with resourceVersion 0 may go
back in time, as the server may answer it from its cache.

**FakeClientset.** A test calls the same method of both clientsets, with any object: one
it made, one it got long ago, with any status, spec and version. `parted` becomes true with
the first call that the two take differently, each a difference to mind in unit tests:

* `Update` and `UpdateStatus` take stale objects, and both store the whole object: the
  tracker compares no version and knows no subresource
  (`fake_kubevirttemplatevalidator.go:105`, `testing/fixture.go:112-122`);
* `Create` keeps the status and the version of a new object;
* `DeleteCollection` deletes nothing: the tracker has no case for it and `Invokes` answers
  with the default (`fake_kubevirttemplatevalidator.go:125`, `testing/fixture.go:83-183`),
  although `fake/clientset_generated.go:33` says that deletions are processed as-is;
* `List` ignores field selectors (`fake_kubevirtmetricsaggregation.go:61`);
* a name or a namespace that is left out is refused by the REST client and stands for any
  in the tracker, so that `Get("")` finds the only object there is, or fails for several.

What is sent carries the namespace of the client it is sent by. Not modelled: `Watch`, which
ignores selectors and resourceVersion (`fake/clientset_generated.go:47-55`), and `Patch`: it
calls `NewPatchSubresourceAction` with more arguments than the vendored function takes
(`testing/actions.go:191`). The fake says of itself that it is no replacement for a real
clientset (`fake/clientset_generated.go:33-35`), so none of this is a finding. At this
commit `pkg/client` does not compile for two more
names (`kubevirtv1.AddToScheme`, `scheme/register.go:53`; `v1.Resource`, the listers); the
modules model what the text says.

**DeepCopy.** A struct is a record of scalars and of names of cells in a heap. Each
`DeepCopyInto` is the list of fields to which it gives new cells. The four
`out.Spec = in.Spec` (`zz_generated.deepcopy.go:30`, 215, 276 and 334) copy names: the
copy of a CR shares the maps of its spec with the original, and who edits one in place
edits the other, a cached object for instance. (That the comment of these functions says no
more than "copying the receiver" is why this is no finding.) `SharesOnlySpec` says
that this is all it shares, `CopiesEqual` that a copy starts out as its original. New
cells come from the set `Allocations`; with none free an operation waits, which bounds the
heap of a run and nothing of the proof.

**ClientsetLimits.** A constructor and the vendored REST client decide which bucket each of
the two clients has; `Tick` refills, `Send` takes a token. The run has all three
constructors, with and without a limiter, with rates given, left out and switched off
(negative), with and without a burst. Facts that the module shows, next to the finding of
section 4: with a rate and no limiter `NewForConfigOrDie` gives each client a bucket of its
own, `NewForConfig` one for both; with no rate the group's client gets the default one and
discovery none at all (`rest/config.go:307-337` puts in no defaults, whatever lines 111-112
say); with a negative one neither is limited. No statement of the repository says how much
the two may send together. Watches are not limited.

## 4. What is checked

| Run | Question | Bounds |
|---|---|---|
| `k8s_status` | do concurrent status writes lose or duplicate anything, is a call atomic | 2 calls at a time, any number after each other; 6 kinds of arguments, forced and with two conditions too; 3 condition types; 3 changes of the CR |
| `ownership_filters` | what adoption does to lists of owners | 2 objects, 3 CRs, lists of up to 2 owners at first |
| `validator_safety` | is the report coherent, the adoption complete, no owner dropped, the webhook backed, across upgrades, deletions and re-creations | `SafetyPlans`: (a) 2 versions, from nothing or from the old CR's objects, 1 deletion, 1 fault; (b) 2 uids, 3 deletions, creations or foreign owners |
| `validator_liveness` | does everything converge, and does the operator stop when told to | `LivenessPlans`: (a) 2 versions, 2 placements, 2 numbers of replicas, 1 edit, 1 fault; (b) 2 pauses, resumptions, edits; (c) 2 pauses, deletions, creations; (d) 2 deletions after a takeover; garbled annotations in (b) and (c) |
| `observed_before_rollout` | (violated) is the observed version deployed | 1 upgrade |
| `orphans_not_adopted` | (violated) are existing objects adopted | 1 CR |
| `clientset_burst` | (violated) does every configured clientset send | that of `generated_client` |
| `templates_degraded` | (violated) do the common templates have no condition Degraded | that of `other_roles` |
| `other_roles` | `ReportCoherent` and `AdoptedWhenReported` for the three other roles, and convergence | 2 uids, at most 1 old CR, 1 node, 2 edits, 1 fault |
| `informer_factory` | one informer, run once, waiting means filled, options in effect, every call returns | 2 goroutines, 4 kinds, 2 channels, 4 programs |
| `typed_client` | `TypedClient` implements `ResourceStore`; no write over what its caller has not seen | 2 callers, 2 requests under way, 3 revisions, 2 tries (10 in the code), 2 programs |
| `generated_client` | listers, deep copies, fakes and rate limits, each on its own | cache: 2 informers, 4 revisions, 1 watch that ends or fails; copies: 2 variables, lists of 2, 1 edit; fakes: 2 resources, 2 calls, names and namespaces left out too; limits: rates -1, 0 and 2, bursts 0 and 3 |

The properties, with what each is about, are in the modules. Why the bounds are
enough: two calls of `k8s_status` show every conflict, since a call meets the others
only through the CR's version; three changes let a call be overtaken twice and
another land. In the validator's runs a hazard needs one event between two tasks
(an upgrade, a deletion, a deletion and a re-creation, one failure), and the bounds
allow it at every task, with a second one after it. A plan says what the cluster holds at
first, which kinds of edits there are and how many, and how many faults: these are
budgets, plays are unlimited. Deadlock is not checked where the CR may be
deleted for good: the operator then has nothing to do.

Two goroutines are enough for the factory, as all they share is under one mutex: one is
inside and the other may be anywhere. A stale informer cache needs a change between a
list and its watch and one between two watches, so three changes and one watch that ends or
fails. A call of a typed client is disturbed by one write and by one lost answer or by one
more try. A fake and a real clientset part at one call, and a second one shows it. The second
uid, the second edit and the one fault of `other_roles` let a play be overtaken by a
deletion and a re-creation, or by either and a failure. The programs of
`informer_factory` give options more than once, with resync periods of different kinds,
which override each other or add up. `GeneratedClient` starts in one part and stays there: the state spaces add up.

**Fairness.** `FairSpec` assumes that `ansible-operator` keeps starting plays (it
requeues failed ones and has a reconcile period), that a running play goes on, and
that the garbage collector works. It assumes nothing of users, faults and pods:
properties about pods say "when the pods stay ready" or "when they stay away".
Faults are finite in number, as a fault at every retry would stop anything.
`BundleRoles` assumes of the garbage collector only that it collects something while
there is garbage. The factory's goroutines are scheduled (`WF` of each step), and who
waits for the mutex gets it (`SF` of `Lock`: `sync.Mutex` hands over to a waiter that
has starved); informers list and end. The reflector runs and the server answers it
(`WF` of `Reflect`). Time passes (`WF` of `Tick`), and a client that waits for tokens gets
them in turn (`SF` of `Send`: the limiter reserves in the order of arrival).

**Findings.** Four runs show disagreements with what the repository says:

* `observedVersion` (documented as the version of the deployed operands, and set "to
  indicate a successfull upgrade") is set as soon as a lookup shows as many ready
  replicas as replicas. Right after the Deployment was changed that is still the
  status of the previous pods.
* The task that injects owner references is there "to adopt existing resources", but
  the filter raises a `KeyError` for an object without `ownerReferences`, and the API
  server leaves the key out when there are no owners: plays fail for good.
* `NewForConfig` with a rate and no burst makes a bucket that never holds a token
  (`clientset.go:64-65`), where `rest/config.go:114-115` has zero mean the default of 10:
  its requests wait for ever (`RequestsSent`). `SentIfBurst` says that nothing else does.
* The common templates' CR gets the condition `Degraded`, of which
  `docs/dev/status-conditions.md:61` says that this CR will not contain it.

The differences named in section 3 are facts about the code that contradict no
statement of the repository precisely enough to be a finding; the models have them as
they are.

## 5. What is proved

| Theorem | Says | By |
|---|---|---|
| `K8sStatusProofs!TypeCorrect`, `TypesStayUnique`, `SnapshotsFresh` | `TypeOK`, `UniqueTypes`, `FreshIfAccepted` are invariants | the inductive invariant `IInv` |
| `K8sStatusProofs!NothingLost` | `NoLostUpdate` | `IInv` and `PutConditionMerges` |
| `K8sStatusProofs!TransitionTimeKept` | `KeepsTransitionTime` | `IInv`, the snapshot at the write |
| `K8sStatusProofs!CallsLinearizable` | `Linearizable`: `K8sStatus` implements `AtomicStatus` | `RefinementInvariant`, step by step |
| `OwnershipProofs!DistinctOwners`, `NobodyLoses` | `OwnersDistinct`, `OthersKept` | `InjectAdopts` |
| `TemplateValidatorProofs!TypeCorrect`, `ReportsCohere`, `ReportsAdopted`, `NeverAhead` | `TypeOK`, `ReportCoherent`, `AdoptedWhenReported`, `ObservedNotAhead` are invariants | the inductive invariant `IInv` of that module |
| `TemplateValidatorProofs!LivingOwnersKept`, `WebhookHasBacking` | `OwnersKept`, `WebhookBacked` | `IInv`, `InjectAdopts` |
| `OwnershipProofs!FiltersTyped`, `FiltersAgree` | `TypeOK`, `AdoptedFound`: what one filter injects the other finds, and it finds just the objects that name the CR | `InjectAdopts`, `TakenFromPlaces` |
| `BundleRolesProofs!BundlesReportCoherently`, `BundlesAdopted` | `ReportCoherent`; `AdoptedWhenReported` if there is one old CR at most (`OneOldCr`) | `ReportInv`, `Adoption` |
| `InformerFactoryProofs!InformerShared`, `InformerRunOnce`, `WaitedFor` | `OneInformer`, `RunOnce`, `WaitMeansFilled`, for any number of goroutines, kinds and channels | the inductive invariant of that module |
| `InformerFactoryProofs!InformersConfigured` | `Configured`, for any options in any order | what the options so far gave last, an invariant of the constructor's loop |
| `TypedClientProofs!InvariantHolds`, `TypeCorrect` | `IInv`, `TypeOK`, for all programs | what a sent request may be |
| `TypedClientProofs!MethodsKeepPromises` | `MethodsKept`: `TypedClient` implements `ResourceStore` | `IInv`, `RequestsSay`, step by step |
| `TypedClientProofs!NothingOverwritten` | `SeenBeforeWritten` | `IInv`, `ReplacedMeans` |
| `GeneratedClientProofs!CacheTyped`, `CacheSnapshot`, `ListersAnswer` | the cache is the selection at one revision; `ListersAgree` | `CacheIInv` |
| `GeneratedClientProofs!CopiesShareOnlySpec`, `CopiesSayTheSame` | `SharesOnlySpec`, `CopiesEqual`, for any variables, items and edits | who holds which cell |
| `GeneratedClientProofs!FakesHideNothing` | `NothingHidden`, for any calls with any objects | which keys each call adds and removes |
| `GeneratedClientProofs!FakesAlike` | `FakeParity`, for any calls with any objects | the tracker is the server's objects without versions |

The proofs use the named assumptions of the modules (`ConstantsAssumption`:
a request names each type once; `ClientAssumption`: who sends an object calls the method
with that object's name; `OwnershipAssumption`, `InitialAssumption`,
`ValidatorAssumption`, `BundleAssumption`, `ItemsAssumption`, `NilAssumption`,
`FakesAssumption`: the resources are the group's four;
`NothingAssumption`: no object is the sign for none) and the hypotheses stated in the theorems.

`K8sStatus`: `UniqueTypes` alone is not inductive, because what a call writes
depends on what it has merged. `IInv` adds, for each call between its read and its
write, that the merged list has unique types and keeps the conditions it was not
asked to set at their places (`MergeOK`), and that the version it read is not newer
than the server's, and if it is the same then so is the status (`SnapOK`). The merge is
modelled condition by condition, so that this is a step of the invariant
(`PutConditionMerges`) and not an induction over lists.

For the refinement of `AtomicStatus` two things are added (`RInv`): the merged list sets,
as far as it has got, what the call asked for (`OverwritesOn`), and there was something to
do when the call read (`SomethingToDo`). Where the write finds the version it read the
step is the abstract change, at that instant; every other step is a stutter or an end
with an error. The attempt to prove it said two things of the code that the models now
say too: a forced call compares the conditions as a list, so that one whose conditions
are there in another order writes, and `AtomicStatus` lets a call change the status
though it already holds; and `lastTransitionTime` is kept only by a call that sets one
condition and nothing else, because with a second one that changed the first is written
again, time included.

`TemplateValidator`: what a run reports at its end is a conjunction of what single
tasks did long before, each under interference. `IInv` says, for each of them, from
which task on it holds and until when: `FreshSound` (what was registered of an object
nobody changed is what is there, so the patch of its owners adds one and drops none),
`AdoptedSound` (an adopted object cannot be collected while its CR lives),
`ClusterSound`, `DeploymentSound` (past a loop without failed items the Deployment, if
there, is at the operator's version; an upgrade ends the play), `StatusSound` (each
status field agrees with what the play has seen, as far as it has written it). The
premise `Mine` (the CR the play looked up still lives) and `UidsSound` carry them
through deletions and re-creations. `RefsSound` is what makes `TypeOK` inductive: the
filter may only be applied past `Collect`, which checked that the key is there. TLC
checks the same `IInv` on the instance of `TemplateValidatorSafety` when it is added to its
invariants.

`Ownership`: the Python filters go over lists. No induction principle can be used, so
facts about them are proved from the least index at which something holds, and what is
taken from a list (`AtPlaces`: by `k8s_owned_by`, by the garbage collector) by counting:
each element that is taken goes to the place given by how many are taken before it
(`PlacesCounted`), which is a bijection (`TakenFromPlaces`).

`BundleRoles`: one invariant for the three kinds. `TasksInOrder` says once, for each
table of tasks, which task follows which; the actions use only that. The rest is as for
`TemplateValidator`. A template is due for adoption as long as one of the old CRs owns
it; that set can only shrink under a play, and `FetchedSound` says that what the play
fetched names at least the owners there are. `OneOldCr` is needed: with two, the code
adopts nothing.

`InformerFactory`: while a goroutine is inside, what it has read of the two maps stays
true, because every other step on them needs the mutex. Outside it relies only on what
never becomes false again: an informer that was registered stays, one that was started
stays started, a filled cache stays filled.

`Configured` is about the constructor, which applies the options one by one: the
invariant says that the factory so far has, of each setting, what the options so far
gave last (`GivenLast`). An earlier form of the property, that the last option which gives
periods gives all of them, is false: options that name different kinds add up.

`TypedClient`: `IInv` says that a request on the wire is the one that its method builds and
was not refused as malformed, and that every object stored has a name, a namespace and a
version not ahead of the server's. From the first alone (`RequestsSay`, one line for each
method) it follows that an endpoint does what the method promises (`AnswerPromised`) and
that only `DeleteCollection` ever reaches a collection's `DELETE` (`CollectiveMeant`): a
`Delete` without a name would be one on the wire, and it is `Malformed` that stops it. Then
each action is one of `ResourceStore`, with the slot seen through `Promise`; a reset
connection repeats only what reads (`GetReads`), and a write is repeated only after an
answer that asks for it. `SeenBeforeWritten` needs of the same
invariant what a replacement does to one object (`ReplacedMeans`).

`GeneratedClient`: one part moves and the variables of the others stand still, so each has
an invariant of its own, and none is about the concrete instance of a run.

* `InformerCache`: between `rv`, the revision of the cache, and `seen`, nothing the
  informer selects has changed (`NothingMissed`). A watch that fails sets `seen` back to
  `rv`, and so loses nothing; an event sets `rv` to where it happened. `CacheIsSnapshot` is
  then a step of the invariant, and `ListersAgree` follows from it without looking at
  steps at all.
* `DeepCopy`: each variable holds one struct of its type, whose cells outside the spec's
  fields were allocated for it (`StructOf`, `Held`). One lemma for each type's
  `DeepCopyInto` says which fields get new cells, and that the value stays; they are
  proved from the tables of the types and not by induction, as the types do not recur.
* `FakeClientset`: what the server stores has a name and a namespace (`FakesSound`), so that
  what a fake takes without one does not matter to it, and each other call adds to the
  tracker what it adds to the server, and takes from it no more. As long as no call
  parted them the tracker holds the server's objects, version apart (`FakesHold`): a lemma
  for each method says that both sides accept and refuse the same.

Every safety invariant and every action property that a passing run checks is the statement
of a theorem; TLC checked each inductive invariant first on the instance of its run. Liveness
(`EventuallyDeployed`, `ReportsAvailable`, `ReportsDegraded`, `PauseStopsPlays`,
`LeavesNothing`, `CallsReturn`, `Converges`, `SentIfBurst`, `Settles`) is checked by TLC
only: it rests on fairness and `ENABLED`, which the provers do not handle. The proofs say
nothing of the external parts beyond how they are modelled here.

## 6. What is not modelled, and what could follow

* Versions (`_defaults.yml`, `roles/*/defaults`): one Jinja expression for each variable,
  no state. An operator version stands for what it resolves to. `spec.version`
  (`types.go:113-137`) is read by some roles only.
* `build/preprocess_template.py`: rewrites files at image build; its whole behaviour is
  text. Note line 62: annotations go into a dictionary that is not part of the template
  when its metadata has none.
* The argument checks of `k8s_status` (`condition_array`).
* OpenAPI schemas and scheme registration: static tables.
* Manifests and CSV generation (text substitution), functional tests (shell scripts
  against a live cluster), `KubevirtRepoInfo` (disabled in every playbook).
* The name of the pause annotation: `TROUBLESHOOTING.md:9` has another than line 20 and
  the code; names are not modelled.

What could follow: an abstract `Reconcile` specification that all four roles implement;
the pause and upgrades in `BundleRoles`; the safety half of the liveness arguments (what
a play that is not disturbed has brought about at each task) as an invariant.
