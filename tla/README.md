# A TLA+ verification of the StorageOS api-manager

The api-manager is a Kubernetes process that keeps Kubernetes and the StorageOS
control plane in step: it fences nodes, publishes shared volumes, copies labels,
removes what Kubernetes no longer has, and mutates claims and pods at admission.
This directory models those controllers and the process they run in in TLA+, checks
them with TLC on small instances, and proves with TLAPS, for every instance, the
safety of each controller and that three of them implement an abstract specification.

## 1. The system

### Parts, state and operations

| Part (source) | State | Operations | Module |
|---|---|---|---|
| Node fencer (`controllers/fencer`, `internal/pkg/cache`, stateless-action reconciler of the operator toolkit) | the list being sent, the expiring node cache, the work queue, one goroutine per action | poll, send, reconcile, list attachments and pods, read volumes, delete pods and attachments, check, time out | `Fencer` |
| Shared volume controller (`internal/controllers/sharedvolume`, `storageos/shared_volume*.go`) | the list being worked on, the expiring volume cache, the service and endpoints in hand | list, get/create/update service and endpoints, wait for them, publish the address | `SharedVolume` |
| Process and API client (`main.go`, `storageos/client.go`, the pollers' side of the controllers) | the stage of main, the lease, the token, the unbuffered reset channel | connect, set up, register, lead, refresh, reset, poll, deliver, shut down | `ApiClient` |
| Node label sync (`controllers/node-label`, `storageos/node_labels.go`) | queue, worker and resync thread | set compute-only, update the other labels | `NodeLabels` |
| PVC label sync (`controllers/pvc-label`, `storageos/volume_labels.go`, `provisioner/storageclass.go`) | queue, worker, resync, the cache of the StorageClass | annotate the claim, set replicas and failure mode, update the other labels | `VolumeLabels` |
| Node and namespace delete (`controllers/node-delete`, `controllers/namespace-delete`) | queue, worker, garbage collector | delete on an event, compare the two lists | `ExternalSync` |
| PVC mutator (`controllers/pvc-mutator`, `internal/pkg/crypto`) | admissions in progress, the secrets and StorageClasses and the caches of them | ensure the namespace key and the volume key, derive, encrypt and authenticate, annotate the StorageClass | `KeyManager` |
| Pod mutator, scheduler setter (`controllers/pod-mutator`, `internal/pkg/provisioner`) | none | set the scheduler of a pod with StorageOS volumes | `PodMutator` |
| Metrics, tracing, flags | none that a controller depends on | | not modelled |

### Interactions

* The two pollers (fencer, shared volumes) call StorageOS through the one client
  and ask for a reset over one channel; `Refresh` is the only receiver.  `ApiManager`
  composes that with the webhook the same process serves.
* Reads of Kubernetes go through informers that lag, those of the webhooks to the API
  server for what the cache does not have, and all writes go to the API server.  Of
  what a component reads, the model lets lag what its properties depend on: pods,
  services, endpoints, claims, labels, secrets, StorageClasses, nodes and namespaces.
  An update of an object that changed since it was read is refused,
  and so is an update of a StorageOS object at an old version.
* The PVC mutator sets the StorageClass annotation that the PVC label sync relies
  on.  The label sync and the shared volume controller write the same volume at
  its version.
* Leader election is off by default: several processes may run at once.

### What is hard

Stale lists used after the fact (pods deleted by name, Kubernetes listed before
StorageOS), caches that hide changes until they expire, several independent
updates of one object of which one fails, blocking sends on an unbuffered
channel, a process that is told to stop while it starts or stands by, concurrent
admissions that create the same secret, and restarts that lose a queue.  `PROJECT.json` lists each such hazard with its line and the
properties about it.

## 2. The modules

Each module has the state of the component and of the environment it sees as
variables, one action per call that reads or writes shared state, and its
properties at the end.  A goroutine is a program counter with its local
variables; a call that can fail is an action with an alternative `Fault`.  An
operator `M_X` beside an operation `X` is a wrong version of `X` that no
specification uses: it shows which mistake the properties would catch.

Conventions in all modules:

* `MaxEnv` bounds the changes made by users, Kubernetes and StorageOS,
  `MaxFaults` the failing calls, timeouts and crashes.
* An informer's view takes over the latest object in one step, at any time
  later; `changed` in `VolumeLabels` keeps a label change that is reverted from
  being lost as an event.
* A version conflict is a flag: the object is as it was read, or it is not.
* Work queues are sets, as the Kubernetes queue merges equal requests, and backoff
  is left to the scheduler: a queued request may be taken at any time later.
* Operations of Kubernetes, StorageOS and users are marked external in the map.

**Fencer.**  `ListNodes`, `SendNode` and `ApiReset` are `pollNodes`; `CacheMiss`
decides whether a sent node is enqueued; `Reconcile` is `GetObject`,
`RequireAction` and `RunActionManager` of the toolkit.  An action in `Actions`
is a goroutine of `RunAction`: `ListVAs`, `ListPods`, then per pod `FencePod`,
`GetVolume` per volume, `DeletePod`, `DeleteVA` per attachment, and `CheckReruns`
or `CheckSucceeds` at the end.  `ContextExpires` and `ContextDone` are its
deadline.  A pod is a name, since a StatefulSet re-creates its pods under their
names.  `podPVCs` fails on a claim that cannot be read; one without annotation whose PV
cannot be read it drops (`PodPVCs`), which is no error and may happen at each lookup
(`Lookups`, `ReadPVs`).  The buffer of the event source is left out: a sent node is at the handler
at once, and what a buffer would delay is covered by the delay before the send.
The pvc-protection finalizer normally keeps a claim in use; `DeletePVC` covers
claims removed in spite of it, and pods bound to a node without their claims.

**Eviction** is what the fencer promises to the owners of pods: a pod is evicted for the
sake of a node that was offline and on which a labelled pod of that name was, and a
volume is detached by force only from a node for whose sake a pod that uses it was
evicted before.  The promise is about names, since the delete carries no UID.  The
mapping (`Evictions` in `Fencer`) takes the history variables `placed`, `evicted` and
`everOffline` for the promise's own.

**SharedVolume.**  `ListSharedVolumes` and `NextVolume` are the loop of `Start`,
`GetService` to `UpdateEndpoints` the steps of `ensureService`, `PublishEndpoint`
and `SetExternalEndpoint` the read and the write at a version.  A service is its
cluster IP, its target port and whether its declared part and its ports are as
the code made them; `Changes` says what users delete and edit in an instance.  The
garbage collector of Kubernetes removes services without their claim, and endpoints without their
service.

**Directory** is what `SharedVolume` promises to those who mount volumes, in four
actions: addresses are allocated to a volume, a volume gets something to mount, an
address is listed, and others touch a service.  The refinement mapping
(`Published` in `SharedVolume`) takes the external endpoint for the listed address and the
history variables for the rest.

**ApiClient.**  `stage` is where `main` is: `Connect` (the retry loop), `Setup`
(manager, clients, certificate, signal handler, and the start of `Refresh`),
`Register` (controllers and webhooks) and `mgr.Start`.  A fatal error, a lost lease
or the end of `Refresh` is an `Exit`, after which the container may be started again.
`Refresh` is one thread (`rpc`), each poller another; a send to the reset channel is
a rendezvous (`ReceiveReset`).  The poller of the fencer is started when the fencer is
registered, whether or not the process leads, and then waits in `Deliver`; the shared
volume loop is a runnable of the manager (`Runnables`).  Before the handler is there,
`Signal` ends the process at once.

**PodMutator.**  A request leaves no state, so there are operators only: `MutatePod` and
the predicates of the provisioner package under their own names, on the claims and
classes of the cluster and on what the cache has of them.  The cache has a claim or
lacks it (`Behind`): the class of a claim never changes, and a deleted claim of the same
name that is still cached is left out.  Of the classes the cache may also have older or
deleted ones.  `Get` is the composite client, cache first; a list is of the cache only,
and where its order decides there is a set of answers.  **ApiManager** puts `ApiClient`
and `PodMutator` together.

**NodeLabels**, **VolumeLabels.**  Labels are a record: the unreserved ones as one
value, each reserved one as unset, valid or bad.  `VolumeLabels` follows one claim
from creation over provisioning and binding; its `StorageClass` is a sequence, a
class re-created being a new element whose UID is its index, and `cachedClass` is the
one the cache has, by which alone the worker goes.  In `NodeLabels` the resync lists the
node (`Resync`), compares it with StorageOS later (`Diff`) and then ensures the labels it
listed.  `Spec` of `VolumeLabels` is the configuration with
`-pvc-label-resync-interval=0s`, `ResyncSpec` the one with the resync.

**ExternalSync.**  `Kind` picks node or namespace.  The worker and the collector
are two threads with the same steps of a delete.  An object of the same name is
re-created only after the informer has seen its deletion.  `kept` is history: what
Kubernetes and the informer have had ever since a thread began.

**KeyManager.**  One thread per claim that is admitted, repeated when denied.  Keys
are terms: `Encrypt` is the pair of plaintext and key, `Decrypt` with another key gives
nothing, random bytes are a new constant, and hex is a wrapper, so that a volume key
made from the wrong bytes, or from bytes that were not decoded, could not be read.
A name that `GenerateVolumeSecretName` returns is a fresh member of `Generated`; a user
may name any other, that of the namespace key included.  Both mutators look for the
StorageClass of the claim, which may be missing, or be there and not in the cache; without it
the claim is denied, whatever its driver.  The webhook is registered with `failurePolicy=ignore`:
when the API server gets no answer, because the call fails or times out (`CallFails`) or
the process ends (`Crash`), the claim is admitted as its user made it (`ignored`).  A
handler whose answer is no longer wanted goes on, and may create secrets, until a call fails.

**KeyStore** is what the admissions promise together: a secret is written once, a
wrapped one is wrapped with the key of the namespace, and a claim is bound to a
secret that is there; only users take secrets away.

## 3. The runs

Every `MC<Module>_<run>.cfg` instantiates `MC<Module>`.

### Properties that hold

| cfg | Instance | Shows | Distinct states |
|---|---|---|---|
| `MCFencer_shared` | two nodes, two labelled pods of one shared volume, one action, 2 changes | `OnlyOfflineNodesFenced`: an action is only ever on a node that was reported offline. `HealthyAttachmentsKept`: an attachment in use on a node that never was offline stays. `ImplementsEviction`: the actions together are an `Eviction` | 989,000 |
| `MCFencer_live` | a labelled pod with two volumes, one of them provisioned statically, and a claim of another driver, 2 changes, 1 fault, fair | `SickVolumePodsKept`: no action gets to the delete of a pod with a StorageOS volume that was unhealthy throughout its run, unless the PV of that volume could not be looked up. `FencingProgress`: a pod that can be evicted does not stay on an offline node. `ActionsEnd`: every action ends | 155,000 |
| `MCSharedVolume_two` | two processes, one volume, deletes and edits by users, 3 changes | `PublishedIsServed`: a published address is one of a service of this very volume, whose endpoints have existed. `ImplementsDirectory`: together the two processes are a `Directory`. `SettledStays`: what has settled is not undone by a process with old reads | 1,410,000 |
| `MCSharedVolume_live` | one process, an NFS server that moves, claim, service and endpoints deleted or edited, 2 changes, 1 fault, fair | `EndpointStable` through a failover. `Converges`: service, endpoints and published address come to agree. `ServicesCollected`: a service created for a claim that is gone goes too. `GoneStays`: and does not come back | 48,000 |
| `MCApiManager_live` | two pollers, one of them a runnable, 6 changes and restarts, fair; all clusters of two classes and two claims, all pods of up to two volumes | `PollersUnblocked`: no poller stays blocked on the reset channel. `TokenRecovers`: a lost token is replaced, also on a standby. `ShutdownEnds`: a process that is told to stop ends, at whatever stage. `PodsScheduled`: the webhook sets the scheduler of exactly the pods with a StorageOS volume, whatever the cache lacks, and whatever outdated classes it has beside those of the pod | 5,000 |
| `MCNodeLabels_live` | one node, 4 changes, 1 fault, fair | `ComputeOnlySynced`, and `UnreservedSynced` where the node is not compute-only. `SyncStays`: once both threads have caught up, neither undoes what is in sync, though the resync goes by a list it read earlier | 617,000 |
| `MCVolumeLabels_live` | one claim, 2 changes, 1 fault or restart, fair | `ProvisionedDefaultKept`: a re-created StorageClass does not change the replicas of a volume, but for the two windows named below. `LabelsSynced`: without a restart, valid labels get to the volume, beside invalid ones and ones that StorageOS refuses. `SyncStays`: what agrees with the claim stays, whichever of the three updates fails or is repeated | 806,000 |
| `MCExternalSync_live` | two nodes, 7 changes, 2 faults, fair | `DeletesRetried`: a deletion that was seen is in the queue or at hand until StorageOS does not have the node any more. `PresentSpared`: neither thread takes up a node that Kubernetes and the informer have had since it began. `DeletedRemoved`: what is gone from Kubernetes goes from StorageOS, also after missed events | 802,000 |
| `MCKeyManager_live` | two claims, 1 change, 1 fault, unanswered call or crash, fair | `VolumeKeysReadable`: each volume key can be decrypted with the stored namespace key, and its HMAC holds. `AdmittedHasKey`: a claim that the webhook answered for has its secret, with a wrapped key where the webhook chose the name. `ImplementsKeyStore`: the concurrent admissions are a `KeyStore`. `ValidAdmitted`: a valid claim whose class is there is admitted when it is tried often enough | 434,000 |

Each module's `TypeOK` is checked in its first run.

### Where the code differs from what is said of it

Three runs check one sentence of a README each and end with a counterexample;
`findings` in `PROJECT.json` quotes the sentence and the line.

| cfg | The sentence | What the code does |
|---|---|---|
| `MCNodeLabels_compute` | all labels are retried until they succeed | the update is sent without the reserved labels of the node, and of a compute-only node it is refused for good |
| `MCVolumeLabels_resync` | the resync re-applies the labels | claims and volumes are keyed differently, so nothing is found to differ |
| `MCExternalSync_panic` | a failed delete is requeued | a request without a response is a nil dereference |

Other such differences are modelled as the code has them, and bound what the
properties above say:

* `fencePod` deletes a pod by name, from an informer's list: a pod re-created under
  the name on another node is deleted there (`DeletePod` of `Fencer`).  The
  attachments of that node stay (`HealthyAttachmentsKept`).
* Any change of a node object is a cache miss, so an offline node is fenced again
  without a change of its health (`CacheMiss`, against
  `controllers/fencer/README.md:87`).
* One claim that cannot be read fails the list of the pods of a node
  (`GetTargetPodsFail`, against `fencer.go:289`); `FencingProgress` assumes that
  all can be read.
* A PV that cannot be looked up, for whatever error, is taken for one that does not
  matter (`PodPVCs`): a statically provisioned volume leaves the health check, and its pod is
  deleted although the volume is sick.  `controllers/fencer/README.md:34` says "No changes
  are made to Pods that have StorageOS volumes that are unhealthy"; `SickVolumePodsKept`
  holds but for the volumes whose own lookup failed.
* Of a service with a single port only the target port is updated
  (`ServiceUpdate`), so an edited port stays; `Converges` is checked without edits.
* `waitForAvailable` takes NotFound for success (`WaitForAvailable`): the update
  that follows fails, and the next round of the loop makes up for it.
* On cancellation the refresh goroutine exits the process while the controllers may
  still be running (`RefreshStops`, against "Graceful shutdown").
* On a standby the fencer's poller makes one round and then waits for a reader of its
  event source (`Deliver`), so that its calls do not detect a bad token there; the
  refresh does (`TokenRecovers`).
* A fixed label (`nocache`, `nocompress`) and an invalid failure mode are errors of
  every reconcile, which is requeued for good (`LabelErrors`, `EnsureFailureMode`);
  `LabelsSynced` says that the other labels are applied all the same.
* A missing or removed StorageClass annotation is not added when the class is younger
  than the claim (`ValidStorageClass`), and the parameters of that class are not applied:
  `controllers/pvc-label/README.md:43` and `:54` say that they are.  This is what
  makes `ProvisionedDefaultKept` hold for such claims.
* `ProvisionedDefaultKept` leaves two windows.  The class is read from a cache: one that is still behind
  when the volume is provisioned with a re-created class has the class that the
  annotation names, and applies its default.  And ages are compared in seconds: a class re-created
  in the second of the claim's creation counts as older.  The property says that nothing
  but the class of the provisioning, or one within these windows, is ever applied.
* The annotation is made at admission.  If the class is re-created while the claim is
  pending, the volume is provisioned with a class that the annotation never names, and
  the label sync leaves the volume alone for good; `LabelsSynced` is about a class that
  stays.
* The collector lists Kubernetes before StorageOS (`ListKubernetes`,
  `ListExternal`): what is created in between is picked for removal, and removed
  unless StorageOS has it in use.
* A claim whose StorageClass is not there, or that has none where there is no default,
  is denied by either mutator on every try, also a claim of another driver
  (`MutatePVCFails`, `AnnotateClassFails`).  `controllers/pvc-mutator/storageclass/README.md:22`
  says "Failure to set the StorageClass annotation should not cause the PVC creation to
  fail."  `ValidAdmitted` is about claims whose class is there for good.
* A claim that asks for encryption is admitted without a secret when the webhook does
  not answer (`CallFails`, `Crash`).  `AdmittedHasKey` and `ValidAdmitted` leave out the claims
  admitted in this way.
* A secret that a user names is taken as it is, also one without a key (`Ensure`).  That
  of the namespace key is accepted as a name too, and the claim then has a secret that is
  not wrapped; `AdmittedHasKey` speaks of wrapped keys for generated names only.
* An error for one volume of a pod is the answer for the pod (`MutatePod`), and is
  ignored: a claim that is not there yet, or that has no class when there is no
  default, leaves the pod with its scheduler although another volume is of StorageOS.
  `PodsScheduled` is about pods whose claims and classes exist.
* The default class is looked up in the cache only, and for a claim with an empty
  class (`""`, which asks Kubernetes for none) as well as for one with no class
  (`DefaultStorageClasses`, `PVCStorageClassName`).  `PodsScheduled` takes the class
  of both for the default, and assumes that the cache has it.
* A class, or a claim, that was deleted and created again otherwise is answered from the
  cache as it was (`Get` of `PodMutator`); `PodsScheduled` assumes that the cache has the
  pod's own claims and their classes as they are, or lacks them (`Behind`, `NotOutdated`).
* The key manager's client reads a cache first (`Get` of `KeyManager`), so a secret
  that a user deleted is still found, and a claim is admitted with it; `AdmittedHasKey`
  leaves those out.

### Bounds

The bounds are on the environment, never on the controllers, whose loops go round
without limit.  Two nodes, processes, pollers, claims or volumes are what the races
need; two or three changes are enough for "fails and comes back", "is deleted and
re-created" and "changes between a read and a write".  One fault is enough for each
call to fail once at any point, and for a crash at any point.  `Actions` bounds
the goroutines of the fencer that run at once; the proofs are for any number.
The first states are restricted where they only repeat each other.  `LabelledInit` of
`MCFencer` starts with all pods there and labelled, which are the states in which there is
something to fence; others come later.  `LiveInit` of `MCVolumeLabels` starts with given
unreserved labels, which is any, and has fixed labels, which are one error more, with one
class only.  `RivalInit` of `MCKeyManager` has one claim of every kind that the mutators
tell apart, beside one to be encrypted, and of the classes those that the two may ask for.
The runs of refuted sentences and the proofs are about all first states.
Symmetry is used in runs of safety properties only, over sets whose members the
module does not tell apart.

`ApiManager` checks its webhook on every cluster and cache of the given size, not on
the ones some run happens to reach.  A pod of two volumes is the smallest one for
which the answers for its volumes may disagree.

Runs of `ApiManager`, `NodeLabels`, `VolumeLabels` and `KeyManager` switch the
deadlock check off: the process may have exited, all claims may be admitted, or
the controllers may rest with nothing queued.

### Fairness

Weak fairness is on steps of goroutines: the Go scheduler runs what can run, every
call of the API has a timeout and returns, a poller's timer fires, a resync goes on with
what it listed, an informer (of StorageClasses too) delivers, a user repeats a denied claim, and entries expire from a cache.  Strong fairness is where a
`select` or a queue decides between several ready parties: a poller's send to the
reset channel against the timer (`ReceiveReset`), cancellation (`RefreshStops`),
a request against others for a worker (`Reconcile` of the fencer)
and the deadline of an action against its next round (`ContextDone`): each is ready
again and again and chosen at random or in turn.  The environment has no fairness
except the binding of a claim, the garbage collectors and the informers: nothing
that StorageOS or users do is assumed to happen.  Neither is it assumed that a
process ever leads or that its pollers go on polling.

## 4. The proofs

Eight modules hold proofs.  Each is about the unbounded component: any sets of nodes,
pods, claims, volumes, processes, pollers, names or objects, and any `MaxEnv` and
`MaxFaults`, so any number of changes, faults and restarts.  The assumptions are the
`ConstantsAssumption` of the module: `None` is nothing else, sets of names are disjoint,
functions have their types, bounds are naturals.  Those of the webhook are
`PodConstants`, which has finitely many classes.  TLC evaluates them in every run.

| Module | Theorem | Statement |
|---|---|---|
| `FencerProofs` | `Inductive` | `Spec => []IInv` |
| | `TypeCorrect` | `Spec => []TypeOK` |
| | `OfflineOnly` | `Spec => []OnlyOfflineNodesFenced` |
| | `SickVolumesRespected` | `Spec => []SickVolumePodsKept` |
| | `AttachmentsKept` | `Spec => HealthyAttachmentsKept` |
| | `EvictionImplemented` | `Spec => ImplementsEviction` |
| `SharedVolumeProofs` | `VolumesInductive` | `Spec => []IInv` |
| | `VolumesTypeCorrect` | `Spec => []TypeOK` |
| | `PublishedServed` | `Spec => []PublishedIsServed` |
| | `DirectoryImplemented` | `Spec => ImplementsDirectory` |
| | `EndpointsStable` | `Spec => EndpointStable` |
| | `VolumesStaySettled` | `Spec => SettledStays` |
| | `ServicesStayGone` | `Spec => GoneStays` |
| `KeyManagerProofs` | `KeysInductive` | `Spec => []IInv` |
| | `KeysTypeCorrect` | `Spec => []TypeOK` |
| | `KeysReadable` | `Spec => []VolumeKeysReadable` |
| | `ClaimsHaveKeys` | `Spec => []AdmittedHasKey` |
| | `StoreImplemented` | `Spec => ImplementsKeyStore` |
| `VolumeLabelsProofs` | `LabelsInductive` | `Spec => []IInv` |
| | `LabelsTypeCorrect` | `Spec => []TypeOK` |
| | `DefaultsKept` | `Spec => []ProvisionedDefaultKept` |
| | `SyncedStays` | `Spec => SyncStays` |
| `ExternalSyncProofs` | `DeletesInductive` | `Spec => []IInv` |
| | `DeletesTypeCorrect` | `Spec => []TypeOK` |
| | `NoDeleteDropped` | `Spec => []DeletesRetried` |
| | `PresentNeverTaken` | `Spec => []PresentSpared` |
| `NodeLabelsProofs` | `NodeLabelsInductive` | `Spec => []IInv` |
| | `NodeLabelsTypeCorrect` | `Spec => []TypeOK` |
| | `SyncedStays` | `Spec => SyncStays` |
| `ApiClientProofs` | `ClientTypeCorrect` | `Spec => []TypeOK` |
| `ApiManagerProofs` | `PodsScheduledAlways` | `Spec => []PodsScheduled` |

Hardly any of the properties is inductive.  Each `IInv` adds to `TypeOK` what the steps
between a read and a write have to remember.

**Fencer.**  `OfflineReported`: a node object with health offline, whether in the list
being sent, the cache or a worker's hands, is of a node that was offline; it carries
the fact from the poll to the action, however long the object is held.  `VolumesRead`:
at the reads of a pod's volumes each volume is either still to be read or not among
those sick since the run began, and at the delete none is left to be read; the volumes to
read are those of every StorageOS claim of the pod but the ones whose lookup failed.
`AttachmentsOfNode`: what an action has listed for removal is of its own node.
`SeenPlaced` and `PodsPlaced` follow a labelled pod from the cluster
through the informer and `getTargetPods` to `fencePod`: whichever of them holds its name,
a labelled pod of that name was on the node in question.  With these each step is a
step of `Eviction` or a stutter (`EvictionStep`).
`TypeOK` includes the coherence of an action's fields (a free action has no node, an
action that reads volumes has a pod), which the proofs of the others use.

**SharedVolume.**  The processes share nothing but Kubernetes and StorageOS, which
they read from views of any age.  `Copies`: every copy of a service, in the cluster, in
a view or in hand, has a cluster IP that was allocated to this volume, and is as
the code made it unless others touched it.  `OneService`: a volume that nobody
touched has had at most one service.  `EndpointsExisted`: who knows endpoints, or is
past them, knows of some that existed.  `PublishedIsCopy`: the published
address is that of such a copy.  From these each step of a process is a step of
`Directory` or a stutter (`DirectoryStep`), and `EndpointStable` follows.
`SettledStays` is the stable half of `Converges`.  Agreement alone is not stable: a
process that still holds a list with the old NFS server, or a service with an old
address, would undo it.  `InStep` says that nothing held leads elsewhere, and is
kept together with the agreement: no listed server changes (`ListedStep`), a service or
endpoints that are created again find the present ones and fail, and an update writes
what is there (`ServiceKept`, `EndpointsKept`).  `GoneStays` is that half of
`ServicesCollected`: a process starts on a volume only with its claim in view
(`ClaimsStep`) and creates the service only of a volume at hand (`CreatedAtHand`).

**KeyManager.**  A request goes by what it read, which may be old.  `CacheBehind`: the
cache has only secrets that are there or that users deleted, and of the namespace
secret the very one, since a secret is never changed.  `KeyAtHand`: a request about to create a
volume key has the stored namespace key at hand, also when it was another request
that created it.  `KeysDone`: a request past the key manager has its secret.
`GeneratedWrapped`: under a generated name there never is a secret without a wrapped
key, since neither users nor `ensureNamespaceKey` write there.  A request that the API
server gave up on is kept by the same facts, since its handler may still write.

**VolumeLabels.**  `Known`: the claim is only annotated with a class that counts as
older than itself, also in the informer and in the worker.  `BoundSeen`, `Unasked`:
what informer and worker take for bound is bound, and a label the claim never had is
in no copy of its labels.  `HeldBehind`: the cache never goes back behind the class it held at
the provisioning.  `WantedDefault`: so what the worker is about to apply is the default
of the class that the volume was provisioned with, or of one that the cache has had since
and that counts as older than the claim (`Defaults`, which only grows, `DefaultsStep`).  `SyncStays` is the
stable half of `LabelsSynced`: once informer and worker have no labels but the present
ones (`CaughtUp`, which lasts, `CaughtUpStep`), each of the three updates writes what
agrees or leaves it (`AgreementStep`).

**ExternalSync.**  `OwedUnseen`: a deletion that is owed is of an object that the
informer does not have, so that `Reconcile` does not skip it.  `GoneRequeued`: if the
collector deleted the object under the worker's hands, and the object came back and
was deleted again since, it is in the queue again.  `NoGarbage`: the collector has
nothing to delete before it has read both lists.  `GarbageSpares`: what has
been kept since the collector began is in its list of Kubernetes, so that it is not in
the difference of the two lists, however long the collector takes over that.

**NodeLabels.**  `FreshKnown`: a thread has read the node only if StorageOS knows it.
Then nothing is written to an unknown node, and no label that is not for nodes to any.
`SyncStays` is proved as that of `VolumeLabels`, here for two threads: what either
one still has to write is what the node is to have.

**ApiClient.**  `TypeOK` is inductive as it stands.  It says that a poller only runs
in a process that has a token and that has started `Refresh`, which receives from
the reset channel.

**ApiManager.**  A request leaves no state, so `PodsScheduled` holds of every cluster and
cache and needs no induction.  The proof goes from the answers of the cache (`GetFinds`,
`OnlyDefault`) to the answer for one volume (`VolumeAnswer`) and for the pod
(`PodAnswer`), where the loop over the volumes is a quantifier over their indices.

The refinements are proved as usual: the initial states map to initial states, and each
step from `IInv` maps to a step or a stutter.

Only model-checked are the liveness properties, which need fairness and `ENABLED`.  Of
`Converges`, `ServicesCollected`, `ComputeOnlySynced`, `UnreservedSynced` and
`LabelsSynced` the proofs have the other half: what TLC shows to be reached on a small
instance is kept in every one.

## 5. What is not modelled

* Lengths, block sizes and algorithms of keys; what is computed from what is modelled.
* Metrics, tracing, events, logs, flags; the labels on created secrets, and the
  namespace of the process.
* The renewal of the webhook's certificate by the operator toolkit; its first
  provision is part of `Setup`.
* Parsing of endpoints: only volumes with a valid one are listed.
* Inline volumes of other drivers (see the hazards).
* The memory held by the contexts and deferred calls of the refresh loop.
* The generated deep copies and mocks, and the declarations of the node resource: what
  the controllers use of a node is the record `Object` of `Fencer`.
* That StorageOS or Kubernetes keep their own promises: versions, unique cluster IPs
  and names are taken from how the code uses them.

## 6. Plan

1. The PVC mutator with the PVC label sync over one annotation, and the label sync
   with the shared volume controller over the version of one volume: now each is the
   other's environment.
