# Verification of reconciler.io/ducks

TLA+ models of `reconciler.io/ducks`, the TLC runs that
check them on small instances, and TLAPS proofs for every value of the
constants. Paths are relative to the repository; `PROJECT.json` maps every
definition to the lines it models.

## 1. The system

A cluster administrator stores a **DuckType** (a shape that resources may share)
and, for every API with that shape, a **Duck** of that type. These
parts work on them.

| Part | Code | State | Operations |
|---|---|---|---|
| DuckType controller | `internal/controller/ducktype_controller.go` 46-381, `reconcilers/submanager.go` | work queue, informer cache, the map `managers` (UID to cancel function and `done` channel), one goroutine per entry | add finalizer; reconcile ClusterRoles and CustomResourceDefinition; start or shut down the sub-manager; clear finalizer; update status |
| Duck controller, one inside every sub-manager | the same file, 386-559 | cache, queue, tracker, conditions `RBAC` and `Available` | reconcile ClusterRoles; track the definition; read discovery; update status |
| Informers of a broker | `client/broker.go` 46-179 | maps `duckInformers` and `duckRegistrations` under a mutex | start an informer for a ready Duck; remove it for a deleted one; shut down |
| Event loop of a broker | `client/broker.go` 181-229 | three channels of capacity 1, a map of subscribers, a channel of capacity 5 for each | publish, subscribe, unsubscribe, broadcast |
| Duck client | `client/client.go` | none | resolve the DuckType and its ready Ducks, then get, list or delete their resources |
| Cache of a sub-manager | `internal/submanager/submanager.go` | informers of its own for the kinds of its Ducks, the cache of the manager for all others | make, start, wait for informers, get, list, stop |
| Admission | `api/v1/*_webhook.go` | none | default and validate |
| Process | `cmd/main.go` | flags, TLS options, certificate watchers, manager | set up, serve, lead, exit |
| Resources and dies | `api/v1/zz_generated.*.go` | memory that copies may share | deep copy, feed, stamp, seal, release |

The DuckType controller starts the Duck controllers. These set `Ready` on Ducks.
Brokers and clients, in other processes, act on `Ready`: a broker starts an
informer for each ready Duck and hands its events to the reconcilers that
subscribed; a client uses ready Ducks to find the version of an API. The process
serves the webhook of DuckTypes and runs the DuckType controller; the sub-managers in
it share its cache but for the kinds of their Ducks. All of them pass resources around
that are deep copied where they must not be shared.

What makes this hard to test: every reader sees a cache that lags the API server;
writes are refused when the object changed meanwhile; the map of sub-managers is
lost with the process while finalizers are not; `shutdown` blocks the only worker
on an unbuffered channel; discovery changes at another time than the definition
it comes from; the broker's loop selects among channels in any order and drops
what a slow subscriber cannot take; informers start and stop under failures, and a
kind that was removed lives on in them; two servers append to one slice of options;
whether a copy is deep enough shows only when somebody writes to the other one. The
hazards are listed with their lines in `PROJECT.json`.

## 2. Modules

| Module | Models | Implements |
|---|---|---|
| `SubManagerReconciler` | DuckType controller and sub-managers | `DuckTypeLifecycle` |
| `DuckTypeChildren` | ClusterRoles, CustomResourceDefinition and conditions of a DuckType | |
| `DuckReconciler` | Duck controller | |
| `BrokerInformers` | the runnable of `NewBroker` | |
| `DuckBroker` | the loop, `Publish`, `Subscribe` | `PubSub` |
| `DuckClient` | a call of the duck client | |
| `SubManagerCache` | the cache of the sub-managers | |
| `Admission` | defaults and validation of DuckTypes and Ducks | |
| `Process` | `main` | |
| `ControlPlane` | the composition of the three above | |
| `Dies` | deep copies and dies | |
| `MC...` | the instances TLC checks | |
| `...Proofs` | theorems about the module of that name | |

The Kubernetes API server, controller-runtime and reconciler.io/runtime are not in
the repository. They are modelled from how the code uses them, and are marked
external in `PROJECT.json`. Operators whose comment starts with "Faulty variant
of" are no part of a specification: each is a plausible mistake in the operator it
names, kept to show that a property notices it.

### SubManagerReconciler

`hist[n]` holds every version of DuckType `n` the API server stored, so a
resourceVersion is an index, the cache is an index (`seen`) that moves forward one
version at a time, and a write on an older version conflicts. `worker` is the
request of the only worker, `worker.pc` the step of the `ResourceReconciler`:
`finalizer` (WithFinalizer adds), `children` (the first two of the Sequence),
`sub` (`SubManagerReconciler.Reconcile`), `await` (the receive in `shutdown`),
`clear` (WithFinalizer removes), `status`. `managers` is the set of keys of the
map. `goroutine[u]` is the goroutine of `start`: `running` in `mgr.Start`,
`returned` when it waits in `done <- err`.

Assumptions about the parts outside the repository:

- finalizer and status are written with optimistic locking; a request for an object
  that is not in the cache does nothing; an object being deleted gets no status
  update;
- nobody else removes the finalizer;
- the first list after a restart is current;
- an error puts the request back into the queue.

Abstractions: the outcome of the child resources is success or error (StepFails
covers it together with the error returns of `start`). `mgr.Start` returning early,
for whatever reason, is SubManagerFails. The receive in `shutdown` and the send of
the goroutine meet on an unbuffered channel and are one step. The map is not
locked in the code; one worker is its only user. Resync also stands for requests
that come from owned children. `LocalTypes` never fails in this wiring.

### DuckTypeChildren

The first two reconcilers of the Sequence, which are one step in
`SubManagerReconciler`. `role`, `crd` and `type` are what the API server stores,
`roleCache`, `crdCache` and `typeCache` the copies; a cache jumps to the newest
version. Instead of resourceVersions, `behind` has the caches that lack a version
and `worker.current` says whether the request still holds the stored DuckType, for
a write from any other version is refused. `pending` are children of which a version
that the DuckType owns was not delivered: only those put the DuckType in the queue,
so the removal of a child that belongs to somebody else is not noticed. The view and
the edit role are written together. `granted` are Ducks with roles of their own,
whose rules the cluster's aggregation controller copies (Aggregate). Specs in
`Refused` are those of which the API server takes no definition (Invalid). A definition
that does not belong to the DuckType has `NoSpec`: the controller never looks at it.

Assumptions: a create that fails because the cache lacks a child of the DuckType's
own may end as AlreadyExists or as an error that is retried (both are modelled; the
choice is the runtime's). The branch `child == nil` cannot be taken, as
`DesiredChild` never returns nil. Finalizer, deletion and sub-manager are in
`SubManagerReconciler`.

### DuckReconciler

Ducks share no state, so the module follows one. `cache` jumps to the newest
version, which is what several deliveries amount to. `crd` is the definition
behind the API (CustomResourceDefinition or APIService), `crdEvents` its events
not yet delivered, `api` what discovery says, which follows `crd` later. `late`
records that discovery changed after the event had been delivered and was not
read since: no reconcile could have known. The view and the edit role of a Duck are
treated as one; `drifted` ones are the Duck's and were edited, and the controller
updates them; `foreign` ones belong to somebody else, and creating the Duck's fails
with AlreadyExists. What others did to the Duck's roles shows in the cache when its event
is delivered (`roleEvent`), and until then they seem to be in order (RolesSeenLate); what
the controller wrote itself it sees at once. RolesInvalid, RolesFail and
DesiredChildrenFail are the three ways of the code to fail: `RBAC` becomes `False` and the
request goes on, it becomes `Unknown`, or it keeps its value. A kind stands for what
discovery returns for the version the Duck names; a Duck has one version here.
Deletion of a Duck is left out: the controller adds no finalizer and does nothing
for a Duck that is gone. The condition set that derives `Ready` from `RBAC` and
`Available` is external; the properties speak of the two conditions.

### BrokerInformers

`stored[d]` is the Duck, `events[d]` what its informer has yet to deliver, in
order. `handling` is a call of a handler that waits for the mutex: everything
informOn and DeleteFunc do is under it, hence one step. `informers[d]` is the
entry of both maps (they are always written together), with the type it was made
for; `handlers[d][t]` counts handlers for `d` at the informer of type `t`.
MissedDelete is a deletion the watch did not see and a later list reveals: the
object handed to DeleteFunc is then no `Unstructured`, the type assertion panics
and the process ends (TombstonePanics). Shutdown removes handlers up to the first
failure, and leaves the maps; a handler that waited for the mutex may register
one afterwards. `following` says whether events of Ducks are delivered: the handler of
the Duck informer is the first that is removed, and when that fails, no other is and
events keep coming. `stuck` records Ducks whose removal failed, `failed` those whose
informer could not be started. client-go hardly lets
these calls fail, but the code handles errors, so the model has them.

### DuckBroker

`inbox[s]` is everything ever sent on the message channel of `s` and `read[s]` how
much was received, so the channel's content lies between. The loop's broadcast is
a step per subscriber, in any order, as Go ranges over a map; other goroutines run
in between. Any ready case of the select may be taken. After Cancel the loop may
still take ready cases before it returns.

### DuckClient

The client keeps nothing between calls, so the module follows one: ReadType and
ReadDucks are `ducks()`, WorkOn is the loop over the Ducks found, and anything may
change between these. The state is what reads return, each from a cache of its own.
`result` names the Duck with every item, because two Ducks may name one kind (the
webhook only asks that the name ends with the group), and a List then has the
resources once for each. `steady`, `lasting` and `passing` record what did not change
and what was ever there since the call began; they are only used by properties.
Queries by kind and by list kind are the same query. A Get without a kind resolves when
one Duck is ready, but `setDuckVersion` only sets the version of the object, and the read
of an object without a kind fails. Whatever is tracked is assumed
to be watched. Left out: the conversion of the list, methods that pass the call on
or panic.

### SubManagerCache

`api[k]` says whether kind `k` of Ducks is served, and which incarnation of it: a
definition that is removed and made again starts without objects. All that counts of
an object is the incarnation it lived in, so an informer is the incarnation it last
listed. While the kind is not served it keeps what it has, which is why a shared
informer would show a new sub-manager the dead. `sub[d]` goes from New (`starting`)
through WaitForCacheSync (`started`) and GetInformer, the start of the controller's
sources (`watching`), to `running`, or to `failed` when a kind is not served for as
long as controller-runtime waits (SyncTimeout has no clock: it may happen at any time
while the kind is not served). `since` and `read` record what a read may and did
return, and are only used by FreshReads. A read by list kind reads the informer of the
kind, as in controller-runtime.

### Admission

A string is the sequence of its labels, so that `"%s.%s"` is concatenation; `ToLower`
and `"%sList"` of a label are constants, of which only what the assumption of the
module says is used. Nothing in the webhook keeps dots out of a plural, so the name of a
DuckType may be divided into plural and group in several ways, and an update may change
from one to another.
The deployed webhook validates and does not mutate: what is stored lacks the defaults,
and both the webhook and the controller fill them in for themselves. The webhook of
Ducks is registered by no program. Its operators have no action; the theorem
AvailableDucksAreValid relates them to what the Duck controller demands.

### Process

One action per part of `main`, in its order. `arrays` and `slices` are Go's: `append`
writes to the array behind the slice while there is room and moves to a larger one
otherwise, so `webhookTLSOpts := tlsOpts` and `metricsServerOptions.TLSOpts` could
overwrite one another. GrowSlice is the growth rule of the runtime for short slices.
Every call of `main` may fail and ends the process (Exit), as does the manager when it
loses the lease; the kubelet starts it again. Leader election is external: a process
serves webhooks before it is elected.

### ControlPlane

EXTENDS the three. Requests for DuckTypes need a process that serves, sub-managers one
that leads; an exit loses all caches and no DuckType. Start and stop of a sub-manager
are one step each, the detail being in `SubManagerReconciler`. A definition is made for
a stored DuckType, unless the plural holds a dot, which the API server refuses, and may
go at any time, with its owner or by hand.

### Dies

`heap` is memory, a resource refers to cells of it, and what nothing refers to may be
handed out again. `die[d]` is a die in a variable of the program: mutable or not, its
resource `r` and its `seal`. An operation on a mutable die returns that die; on an
immutable one a new die, which the program puts in any variable. Whatever the program
holds it may write to. One die stands for the six of the file, which are generated
from one template. Parts are the fields of a Duck that refer to memory: `ObjectMeta` and
`Status`, as `TypeMeta` and `Spec` hold strings only. `DeepCopyInto` starts with
`*out = *in`, after which every part is shared, and copies the parts it names; one it did
not name would stay shared. A callback may write,
make new parts or assign memory of the program, but keeps nothing it is passed. A
program that feeds memory of its own to an immutable die and goes on writing to it
does change the die: `given` records this, and ImmutableDiesStay excludes it.

## 3. Runs

| Run | Instance | Properties |
|---|---|---|
| `submanager` | 2 names, 2 UIDs, 3 versions by edits, 1 fault | NoOrphanSubManager, CancelledOnlyWhenDeleting, NothingForgotten, AwaitedAnswers, ImplementsLifecycle, NoLostWrite, EveryRequestIsTaken |
| `submanager_liveness` | 1 name, 2 UIDs, 7 versions, 2 faults | DeletionCompletes, EventuallyStarted |
| `submanager_already_running` | 1 name, 1 UID, 1 fault | AlreadyRunning (violated) |
| `children` | 1 Duck, 3 specs of which 1 is refused, 2 changes or faults | RestsReconciled, RulesManagedUpstream, OthersKept, ChildrenConverge |
| `duck` | 2 kinds, 2 changes, 1 fault | NoLostChange, StatusConverges |
| `informers` | 2 Ducks, 2 types, 2 changes, 2 faults | OneHandlerPerEntry, RestsInformed, ReadyDuckInformed, DeletedDuckForgotten |
| `informers_follow` | 1 Duck, 2 types, 1 change | InformersFollowDucks (violated) |
| `broker` | 2 publishers with 2 events and 1, 2 subscribers, capacity 1 | TypeOK, OnlyFullChannelDrops, SubscriptionsKept, SubscriptionIsInterval, ImplementsPubSub, SubscribersHoldUpNobody, SubscriptionsTakeEffect |
| `broker_delivery` | 1 publisher, 1 subscriber, capacity 5, 6 events | EveryEventDelivered (violated) |
| `client_safety` | 2 Ducks, 2 kinds, 2 versions, 2 resource names, 2 changes | ListCovers, DeleteCovers, GetIsUnambiguous, StaleAnswerWakes |
| `control_plane` | 2 DuckTypes, 6 specs of which 3 are refused, 3 command lines, kinds defined up to twice, 1 exit | ServersUseOwnOptions, FreshReads, KindsFitName, StaysAdmitted, WaitsForServedOnly, StartEnds |
| `dies` | 1 part, 4 cells, 2 values, 2 dies, 1 resource, symmetric | ImmutableDiesStay, SealsStay, CachedStays |

The modules of components have a type invariant, TypeOK. It is proved for every instance
(section 4), so that only the run of the broker, where it bounds the channels, checks
it as well.

Why these bounds. Two UIDs under one name are an object deleted and created again;
two names share the worker. Edits and status updates stop at the bound on versions,
finalizer and deletion do not: three versions let an edit make the write of the
finalizer or of the status conflict while another DuckType waits, and seven, in the
liveness run, let conflicts happen again after a retry and when the finalizer is
cleared. Faults are API errors, failures of sub-managers or informers, and restarts; one of them at every place is what the code must survive,
and two, in the run about progress and for the informers, let a restart follow a
failure. Two changes to a Duck let an edit meet a change of its definition or of its
roles in one request. For the informers they are on top of Ducks that may be there
from the start: one of two goes and comes back, or each changes once. For the
children two changes are a name that is taken and comes free again, an edit that
races one of a child, or an edit and a failure; aggregation, Established and the events
come on top. Accepted specs are interchangeable, so the DuckType begins with one of the
two. In a call of the client two changes hit the same Duck or resource twice, or one of each. A
capacity of 1 fills a message channel with the fewest events, and two events of one
publisher show their order; `broker_delivery` has the real capacity. Of the specs of
DuckTypes some are stored with and some without defaults, and one each is refused for
its case, its group and its missing kind; two divide one name in different ways; a kind defined twice has a dead incarnation;
the command lines have both certificates on a slice that holds an option, one
certificate, and an empty slice. Two dies, a resource and four cells are a die, a copy
of it, its seal and what was released. The theorems below do without bounds.

CHECK_DEADLOCK is FALSE where the system may rest: all objects gone and no UID left,
the loop ended, or the call of the client returned. The Duck controller always has a
resync ahead, and the control plane requests.

### Fairness

- `SubManagerReconciler`: the worker goes on (weak); a name waiting in the queue is
  taken (strong: the work queue is first-in first-out, so a name put back does not
  overtake); the watch delivers; `mgr.Start` returns once its context is
  cancelled, which controller-runtime bounds by a shutdown timeout. Resyncs are not
  needed for DeletionCompletes and EventuallyStarted. ResyncSpec adds them (the
  manager has a SyncPeriod, `cmd/main.go` 191-196): AlreadyRunning is refuted even
  so.
- `DuckTypeChildren`: the worker, the watches, the aggregation controller of the
  cluster and the resync. ChildrenConverge needs the resync, because a name that
  comes free sends no event. Established owes nothing.
- `DuckReconciler`: the worker, the watches, discovery following the definition, and
  the resync (SyncPeriod of the sub-manager). StatusConverges needs the resync,
  because a late discovery, or the removal of roles of others, sends no event.
- `BrokerInformers`: the handler called goes on, a stopped process is restarted by
  Kubernetes, every Duck is resynced (controller-runtime's default), and its events
  are delivered (strong, as all events of an informer are in one first-in
  first-out buffer).
- `DuckBroker`: the loop goes on, and a sender on a channel with room sends. No
  fairness for receivers: that is what the properties are about.
- `ControlPlane`: every informer lists in a goroutine of its own until it succeeds, and
  every sub-manager starts in one (weak). Nothing is assumed of users, definitions or
  the process: StartEnds holds though a kind may never be served.

Users and failures owe nothing anywhere.

### What the violated properties show

- **AlreadyRunning** (`reconcilers/submanager.go` 141). When `mgr.Start` returns by
  itself, the entry stays and the goroutine waits for a `shutdown`; every later
  reconcile takes the entry for "already running". The Ducks of that type are not
  reconciled until the process restarts or the DuckType is deleted. Deletion still
  completes (DeletionCompletes).
- **EveryEventDelivered** (`client/broker.go` 204). A sixth event before the
  subscriber receives is dropped, and nothing repeats it. The README promises that
  a resource is reprocessed "when a tracked duck is updated".
- **InformersFollowDucks** (`client/broker.go` 80). After an edit of the version or
  kind of a ready Duck the informer of the old type stays and none is started for
  the new one.

## 4. Proofs

| Theorem | Statement |
|---|---|
| `SubManagerReconcilerProofs!TypeCorrect` | Spec => []TypeOK |
| `SubManagerReconcilerProofs!NoOrphan` | Spec => []NoOrphanSubManager |
| `SubManagerReconcilerProofs!CancelIsDeletion` | Spec => []CancelledOnlyWhenDeleting |
| `SubManagerReconcilerProofs!WritesKeep` | Spec => NoLostWrite |
| `SubManagerReconcilerProofs!AwaitIsAnswered`, `NoneForgotten` | Spec => []AwaitedAnswers, Spec => []NothingForgotten |
| `SubManagerReconcilerProofs!Refinement` | Spec => ImplementsLifecycle |
| `SubManagerReconcilerProofs!LifecyclePromise`, `ServesStored` | what implements DuckTypeLifecycle serves stored DuckTypes only, no two under one UID; so does Spec |
| `DuckTypeChildrenProofs!TypeCorrect`, `AtRest` | Spec => []TypeOK, Spec => []RestsReconciled |
| `DuckTypeChildrenProofs!RulesKept`, `OthersStay` | Spec => RulesManagedUpstream, Spec => OthersKept |
| `DuckReconcilerProofs!TypeCorrect`, `NothingLost` | Spec => []TypeOK, Spec => []NoLostChange |
| `BrokerInformersProofs!TypeCorrect`, `OneHandler` | Spec => []TypeOK, Spec => []OneHandlerPerEntry |
| `BrokerInformersProofs!QueueInvariance`, `RestInformed` | Spec => []QueueInv, Spec => []RestsInformed |
| `DuckBrokerProofs!TypeCorrect`, `DropsOnlyWhenFull` | Spec => []TypeOK, Spec => []OnlyFullChannelDrops |
| `DuckBrokerProofs!Refinement` | Spec => ImplementsPubSub |
| `DuckBrokerProofs!PubSubPromise`, `InOrder` | what implements PubSub delivers once and in order; Spec => []DeliveredInOrder |
| `DuckBrokerProofs!SubscriptionKept`, `DroppedForGood` | Spec => []SubscriptionsKept, Spec => []SubscriptionIsInterval |
| `DuckClientProofs!TypeCorrect`, `ListsCover`, `DeletesCover` | Spec => []TypeOK, Spec => []ListCovers, Spec => []DeleteCovers |
| `DuckClientProofs!GetsAreUnambiguous`, `StaleAnswersWake` | Spec => []GetIsUnambiguous, Spec => []StaleAnswerWakes |
| `ControlPlaneProofs!TypeCorrect` | Spec => []TypeOK |
| `ControlPlaneProofs!SubManagersReadFresh`, `SubManagersFit` | Spec => []FreshReads, Spec => []KindsFitName |
| `ControlPlaneProofs!AdmittedAgain`, `WaitsAreServed` | Spec => []StaysAdmitted, Spec => []WaitsForServedOnly |
| `ControlPlaneProofs!OwnOptions` | Spec => []ServersUseOwnOptions |
| `ControlPlaneProofs!AvailableDucksAreValid` | a Duck that discovery makes Available passes Duck.Validate |
| `DiesProofs!DiesOwnership` | Spec => []IInv, of which Ownership is the point |
| `DiesProofs!ImmutableDies`, `Seals`, `Cached` | Spec => ImmutableDiesStay, Spec => SealsStay, Spec => CachedStays |

They assume only that `None` and its like are no members of the sets they are distinct
from, that bounds are naturals, that a message channel has room for at least one event,
that the Ducks of a call are finitely many, that no field of a resource but `ObjectMeta`
and `Status` refers to memory, what the assumption of `Admission` says of
`lower` and `listKind`, and that the kinds of valid specs are among the kinds.
Each module has an inductive invariant `IInv`.

- **SubManagerReconciler.** The worker knows the object only through a copy that may
  be old, so NoOrphanSubManager is not inductive. HistInv: a UID belongs to one name
  and a deletion mark is never taken back. CacheInv: every version from the cached one
  on that has the finalizer and no deletion mark tells the truth, that is, its object
  is still stored and held. This is the heart: clearing the finalizer needs a write on
  the newest version, which was read from the cache, so by then the cache has left all
  versions without the deletion mark behind. WorkerInv says the same of the worker's
  copy, and that a request past `shutdown` has no entry. SubInv: map and goroutines
  agree and each entry has an owner. Refinement follows from IInv step by step.
  NothingForgotten speaks of a DuckType for which nothing is under way, and needs RestInv.
  CopyInv: a request whose name is not queued again works on what the cache has, or on
  what it wrote itself since, so that a version it missed is still to be delivered.
  StartedInv: a request that comes to the status without an error has left its object in
  the map. Every other way out of a request puts it back. NoLostWrite holds because a
  write is taken from the newest version only. LifecyclePromise is proved of
  DuckTypeLifecycle alone (PromiseInv: identities are taken from those never used) and
  reaches the controller through Refinement.
- **DuckTypeChildren.** RestsReconciled speaks of rest only. WatchInv: a child the
  DuckType owns is the cached one, or an event is to come. CopyInv and ErrInv are as
  for the Duck controller. DefinitionInv and RolesInv: what a request found out about
  a child is right unless the DuckType is queued again or an event of the child is to
  come. RulesManagedUpstream follows from the types: an update is taken only from the
  stored version, so the rules it repeats are the stored ones. OthersKept follows in the
  same way: a child of somebody else is updated by no step, however old the cached copy.
- **DuckReconciler.** NoLostChange speaks of rest only. TrackInv: when discovery is
  read, and at rest, the definition is tracked. CopyInv: a request that nothing
  follows works on the cached copy. AvailableInv and RolesInv: what a request found
  out is right unless the Duck is queued again or an event is still to come. ErrInv:
  a request fails only on its way to the status.
- **BrokerInformers.** OneHandlerPerEntry is inductive with the types. RestsInformed
  speaks of a Duck whose events are handled. QueueInv: the last event that is waiting, or
  else the one being handled, tells of the state the Duck is in, and with none left the
  maps agree with it.
- **DuckBroker.** ChannelInv: the event in `publishCh` is the last of its publisher.
  InboxInv: inboxes hold positions in the log, older than the event being
  broadcast for those who are still to get it. PubSubPromise is proved of PubSub alone
  and reaches the loop through Refinement. KnownInv: a subscription is in subCh or in the
  map and not in both, and its end is sent once, after it. HeardInv: a subscriber that the
  loop has yet to meet is in no audience, and one that dropped out is not in the map.
- **DuckClient.** The properties speak of a call that returned. ListInv, DeleteInv: a
  Duck that did not change is still to be worked on, or its lasting resources were read
  or removed. GetInv: it is the one Duck that was found. TrackInv: unless the caller
  was woken, the Ducks found are those of now, and the result is what is now stored
  under those already worked on, all of it tracked.
- **ControlPlane.** FreshReads says what was read, IInv (Clean) what can be: kind and
  list kind of a sub-manager are both local, its informer holds nothing older than its
  `since`, and no incarnation that is over when the sub-manager is made comes back.
  Admitted says that every stored spec passed Validate for its name, so that the name ends
  with the group before and after an update; FitsName says the same of the kinds of a
  sub-manager, and KindsFitName follows from both, as two ends of one length of one name
  are equal. StaysAdmitted follows, as filling in defaults twice is filling them in once.
  WaitInv: the manager's cache has informers of the shared kinds only, because both kinds
  of a sub-manager are local, and a sub-manager that starts has none yet. ProcessInv
  follows the options through `main`: the array behind `tlsOpts` is full when a server
  appends to it, so append moves to a new one.
- **Dies.** Ownership is inductive with the types: a seal, the object of an informer and
  an immutable die share no memory with anything that may be written to, but what was
  given. DeepCopyIntoFresh: the fields that refer to memory are those DeepCopyInto copies,
  so a deep copy is made of fresh memory. The three action properties follow, for a step
  writes only to memory that is writable or free.

Only model-checked: every liveness property. Liveness under fairness and ENABLED are
beyond the prover, as are induction over data and RECURSIVE operators (the modules
use none). Of some the half that is safety is proved: AwaitedAnswers for
EveryRequestIsTaken, WaitsForServedOnly for StartEnds, NothingForgotten for
EventuallyStarted, RestsInformed for ReadyDuckInformed and DeletedDuckForgotten.

## 5. Not modelled

- `RemoveInformer` and `IndexField` of the cache of a sub-manager: they route like the
  modelled calls, and the repository calls neither.
- Methods of the duck client that pass the call on or panic, and the conversion of the
  list it collected: nothing happens between two steps.
- `FrozenObjectMeta`, `DieDiff` and `DiePatch`: they read a die and change nothing.
- Resources used only by tests, `hack/`, `config/`: no behaviour of the system.
- Logging, metrics, addresses and the contents of certificates.
- The clock: timeouts may happen at any time at which what they wait for is missing.

Left open, as the modules stand:

1. A composition of `DuckReconciler`, `BrokerInformers` and `DuckBroker`, from a change
   of a resource of a ready Duck to a subscriber. The three share only `Ready` and the
   events, which each module leaves free, so it would show no step that the three
   do not have; what is lost on the way is the subject of `informers_follow` and
   `broker_delivery`.
2. A composition of `SubManagerReconciler` with `ControlPlane`, in which the start and
   stop of sub-managers are requests of the one worker.
