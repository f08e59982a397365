# Verification of the TensorFusion operator

TLA+ models of the TensorFusion operator, a Kubernetes operator written in Go
that shares GPUs between pods. TLC checks the models on small instances; TLAPS
proves every safety property of the passing runs for every instance. `PROJECT.json` lists the
components, the runs, the line ranges each definition models, the hazards and the
theorems; this file explains them.

To run a check: `tlc -config AllocFaults.cfg MCGPUAllocation`; to check the
proofs: `tlapm GPUAllocation_proofs.tla`.

## 1. The system

The operator is one process with several controllers. Each has a workqueue and one
worker (no controller sets `MaxConcurrentReconciles`), reads objects from informer
caches that lag behind the API server, and writes to the API server, which refuses
a write that carries an old `resourceVersion`. Different controllers, the
informers' event handlers, the provisioner's goroutines and the HTTP server run
concurrently.

| Component | State it keeps | Operations | What is hard, and what makes it correct |
|---|---|---|---|
| Connection controller, `tensorfusionconnection_controller.go` | status of `TensorFusionConnection` (phase, GPU), finalizer | `Reconcile`, `tryStartWorker`, `handleDeletion`, `mustUpdateTFConnectionStatus` | reserves in memory first and persists with two API writes later; stale cache, conflicts, retries, restarts. A share is reserved only for an object that cannot vanish, is returned before the object goes, and the books balance |
| `NaiveScheduler`, `scheduler/naive.go` | map from GPU name to a GPU object that it shares with the informer's store | `Schedule`, `Release`, `OnAdd`, `OnUpdate`, `OnDelete` | its objects are changed in place and replaced by watch events. Never below zero, never overcommitted |
| GPU controller, `gpu_controller.go` | none | predicates that feed the scheduler | runs after the informer's store has changed |
| `HandleFinalizer`, `utils/reconcile.go` | the finalizer of any object | add, run hook, drop | works on a cached copy; shared by the controllers of connections, pools, GPUNodes and clusters |
| Worker generator, `worker/worker.go` | worker pods | `GenerateWorkerPod`, `AllocPort` | pod bound to the GPU chosen; random port |
| Node discovery job, `cmd/nodediscovery/main.go` | GPU objects, totals of a GPUNode | create, patch status | runs again after failures and after its TTL |
| Connection router, `server/router/connection.go` | subscriber map under a read-write lock, channels | `Get`, `subscribe`, `cancelFunc`, `watchConnections` | sends, closes and locks of several goroutines. No send on a closed channel, no blocked broadcast, every waiting client answered |
| GPUPool controller and provisioner, `gpupool_controller.go`, `gpupool_node_provision.go` | pool status (totals, phase), GPUNodes, cloud instances | capacity refresh, scale-up with one goroutine per node | API writes and cloud calls that cannot be one transaction. No instance without a GPUNode that names it; minimum capacity reached and restored |
| GPUNode controller, `gpunode_controller.go` | GPUNode finalizer and phase, discovery job, hypervisor pod | `Reconcile` | races with the provisioner's status writes. An instance is terminated before its GPUNode goes |
| Node controller, `node_controller.go` | GPUNodes of selected Kubernetes nodes, `KubernetesNodeName` | `Reconcile` | writes the same status as the two above and the discovery job, and learns of changed selectors late. A node has a GPUNode exactly while a pool selects it; discovered capacity is never overwritten |
| Instance choice, `cloudprovider/common/utils.go` | none (pure) | `CalculateLeastCostGPUNodes` | rounding and units; the batch covers the gap at the least cost |
| Pool compaction, `gpupool_compaction_controller.go` | deletes GPUNodes | `checkNodeCompaction` | several deletions decided on one cached snapshot; a node known to have capacity must remain (true only of pools that are not in provisioning mode) |
| Cluster controller, `tensorfusioncluster_controller.go` | cluster status, pools, phases, retry count | `Reconcile` and sub-reconcilers | phase machine over several objects, stale lists, a vendor that may fail. The pools end up as specified, Running only on a tested vendor, status accurate |
| Pod webhook and pod controller, `webhook/v1/pod_webhook.go`, `pod_controller.go` | pod patches, connections | `Handle`, `ParseTFResources`, `Reconcile` | parsing of annotations; one connection per container, created once and never updated, claiming what the pod asked for in one version of its annotations, gone with the pod |
| Cloud providers, `cloudprovider/*` | alibaba's cached client | `GetProvider`, `TestConnection`, prices, creation and termination | a client outlives the configuration it was made from |
| Configuration, metrics, wiring | none of the protocol | files | I/O |

How they interact: the pod controller creates a connection for a client pod; the
connection controller asks the scheduler for a GPU, starts a worker pod and
publishes its URL in the status; the router hands the URL to the client, waiting
for the status if need be. GPUs come from the discovery job that the GPUNode
controller starts on a node; nodes come from the provisioner or from Kubernetes
nodes that match a pool's selector. The cluster controller creates the pools and
tests the vendor that the provisioner buys from; pools decide how many instances of
which type to buy, and compaction throws empty nodes away.

## 2. Modules

| Module | Models | Used by |
|---|---|---|
| `GPUAllocation` | connection controller, `HandleFinalizer`, scheduler, GPU controller, discovery's GPU writes, the parts of the API server, kubelet and garbage collector they need | `MCGPUAllocation`, `GPUAllocation_proofs` |
| `AllocationLedger` | abstract specification: what `Schedule` and `Release` promise | refined by `GPUAllocation`; `AllocationLedger_proofs` |
| `ConnectionRouter` | the HTTP endpoint and its watch goroutine | `MCConnectionRouter`, `ConnectionRouter_proofs` |
| `NodeProvisioning` | pool controller, provisioner and its goroutines, GPUNode controller, the Node controller's binding of provisioned nodes, discovery's GPUNode write, an external cloud | `MCNodeProvisioning`, `NodeProvisioning_proofs` |
| `InstanceChoice` | requirements, prices and the least-cost choice of instances, as operators | `PoolCapacity` |
| `PoolCapacity` | the pool's decision in both resources, several nodes per round, and the status it sums up | `MCPoolCapacity`, `PoolCapacity_proofs` |
| `NodeSelection` | Node controller for nodes selected by label, GPUNode controller for them, discovery job, compaction controller | `MCNodeSelection`, `NodeSelection_proofs` |
| `ClusterController` | cluster controller, `GetProvider`, the providers' test of a connection | `MCClusterController`, `ClusterController_proofs` |
| `PodAdmission` | admission webhook and pod controller | `MCPodAdmission`, `PodAdmission_proofs` |
| `MC*` | constants for TLC | |
| `*_proofs` | theorems and proofs | |

Definitions named as mutants stand beside the definition they alter; no
specification uses them. `PROJECT.json` pairs each property with one: with the
mutant in place TLC finds the property violated.

### GPUAllocation

*State.* `conn`, `gpu`, `pod`, `pool` are the API server's objects. Per object
there is the queue of watch events that the informer has not received
(`connWatch`, `gpuWatch`), the informer's store (`connCache`, `gpuStore`,
`podCache`), and for GPUs the objects that are in the store but not yet handed to
the predicates (`gpuNotif`). `sched` is `NaiveScheduler.gpus`. `queue` and `w` are
the workqueue and the worker, with the local variables of `Reconcile`.

*resourceVersion* is not represented. A cached copy is the current version exactly
when no event of its object is undelivered, and `w.fresh` says that nobody else
has changed the object since the worker copied it; a write from a copy that is not
current is refused.

*Aliasing.* `Schedule` and `Release` change the object the scheduler points to.
That is the object of the informer's store unless a newer one has already replaced
it there, that is unless `gpuNotif[g]` is non-empty. `SetAvailable` changes both
in the first case. The worker's `gpu` obtained by `r.Get` is a copy.

*Actions.* One per API call or scheduler call of `Reconcile`:
`Start` (the reads, up to the first call), `AddFinalizer`, `SchedulePick`,
`ScheduleNone`, `SchedulePanic` (nil `Status.Available`), `GetGPU`, `StartWorker`,
`UpdateConn` and `UpdateGPU` (the two writes of `mustUpdateTFConnectionStatus`,
whose retry repeats both), `Release`, `DropFinalizer`. `Abort` is a call that
fails, or whose effect happens but whose answer is lost; `Crash` a restart, which
empties the caches, the scheduler and the queue and lists everything anew. The
informers are `ConnEvent`, `PodEvent`, `GPUEvent`, `GPUNotify`; the surroundings
`CreateConn`, `DeleteConn`, `RunPod`, `CollectPod`, `LosePod`, `DiscoverCreate`,
`DiscoverPatch`, `LoseGPU`, `PoolChange`.

*Faults.* Each of `"stale"` (a reconcile starts while events are undelivered),
`"abort"`, `"crash"`, `"rediscover"`, `"gpuLoss"`, `"podLoss"`, `"poolLoss"` is
possible if it is in `Kinds`, `MaxFaults` times in all. Lateness of events *during*
a reconcile is not a fault and always possible.

*Left out.* Resource limits, the URL and port of a worker, the text of events and
conditions, and the pod controller's parsing (the connection appears whole). Requests
are natural numbers; a negative annotation, which the webhook lets through, would add
to what a GPU has left. The read of the worker pod comes from the cache and is
taken to fail only when there is no pod; another error would be swallowed and the status
written without one (`tensorfusionconnection_controller.go:153-170`). An error of the URL
(line 125) ends the reconcile as an `Abort` does. `RetryOnConflict` gives up after a bounded
number of tries, which is an `Abort` as well; `UpdateConn` and `UpdateGPU` may be
repeated any number of times.

### ConnectionRouter

`phase` and `events` are the API server and its watch, `watching`, `ev`, `todo`
the goroutine `watchConnections`, which holds the read lock while `todo` is not
empty, `subs` the subscriber map, `chan` and `closed` the channels (capacity 1),
`pc`, `key`, `answer` the request handlers. The critical sections of `subscribe`
and `cancelFunc` are one action each; the goroutine sends one channel at a time.
The handler reads the API server directly; whatever error that read has, not only a
missing object, it answers 404. The client's disconnection does not
appear: the handler never looks at the request's context.

### NodeProvisioning

`pool` and `node[n]` are sequences of versions, from the one in the informer's cache
(`Cached`) to the one in the API server (`Current`). A write from a copy that is not
the current version is refused (`client.Merge` sends the whole object, with its
`resourceVersion`, so the patches behave like updates). A read of the cache followed
by one such write is a single action: if the write succeeds nothing has changed in
between, and if it is refused it has no effect. `pw` is the pool controller's worker
with the copy of the pool it read first; `go[n]` the provisioner's goroutine for `n`
with its copy of the GPUNode, one step per API or cloud call; `nw` the GPUNode
controller's worker. `inst` is the cloud, `joined` the Kubernetes nodes, `job` and
`hyper` the discovery jobs and hypervisor pods.

Capacity is counted in instances of the type `CalculateLeastCostGPUNodes` chooses
(each offers 1), which replaces the two quantities by one. The pool's available
capacity, which nothing writes, is zero. The race of the goroutines on `errList` has
no action of its own: whichever `append` wins, the list is not empty afterwards, and
only that is read. A finished discovery job stays (its TTL is ten hours). That
`TerminateNode` succeeds for an instance that is already gone is assumed of the cloud,
and so is that `CreateNode` answers the id of the instance it created: the alibaba
provider returns the request's id (`ecs.go:123`) and the one of aws none
(`ec2.go:74`), so that with them even a recorded id names no instance. A cluster or a
vendor that is missing for good (`gpunode_controller.go:74-106`), with which a GPUNode
never goes, does not occur: these lookups fail now and then.

Disturbances (`Kinds`): `"api"` and `"lost"` (a call fails; it works but its answer is
lost), `"cloud"` (the call has no effect), `"answer"` (an instance is created or
terminated, but the cloud's answer is lost), `"get"` (the goroutine's read finds the cache behind), `"panic"`
(line 186), `"crash"`, `"delete"`, `"early"` (a deletion before the finalizer is
there), `"deletePool"`. `seen` remembers which have happened, so that a property can
say under which of them it holds.

### InstanceChoice and PoolCapacity

`InstanceChoice` has the parts of `CalculateLeastCostGPUNodes` by name: which of
several requirements of a key counts (the first loop takes any operator, the second
only `In`), the eligible types, the price, the number of instances. VRAM gaps are in
bytes, offers in GiB. `PoolCapacity` decides with them: `status` is the pool's status
and `seen` the cached one, `node` and `cache` the GPUNodes likewise, `w.obj` the copy
of the status that `Reconcile` reads before the refresh and goes on with. `waste` is a
ghost: it counts the rounds in which fewer instances would have done, judged on the
GPUNodes that really exist. A creation is one step (`NodeProvisioning` takes it apart)
that may fail with nothing, a bare GPUNode or a complete one left behind. Two caches
of one version each, which may be old, suffice: the pool controller has one worker.

Amounts are whole numbers; `AsInt64` (`gpupool_node_provision.go:30-46`) takes a
fractional one for zero, which is not modelled. The available capacity is never written,
so a pool with a warm-up capacity lacks it in every round; such rounds are not waste
(`Justifies`), and only the maximum ends them.

### NodeSelection

`knode` are the Kubernetes nodes, `sel` and `seen` the pools and their cached
version, `gnode` and `cache` the GPUNodes. `behind` holds the GPUNodes whose cached
version is not the current one; a write from such a copy is refused, which is also
how a new annotation (a version that differs in nothing else) is represented. `w` and
`cw` are the workers of Node and compaction controller, which take several steps;
a reconcile of the GPUNode controller is one step (`Served`): its writes all carry the
version read first, so the first that is refused ends it. A broken selector stands for
one that cannot be evaluated and for a missing one. `wrong` is a ghost: it collects
the pairs of a node and the pool for which compaction picked it although the current
version of its GPUNode shows capacity. In a pool in provisioning mode the pick is a
`Delete` by name (`CompactDelete`), which carries no version; in another it is an update
of the version that was listed (`CompactUpdate`), refused if there is a newer one.

The discovery job either writes or is run again: its exits and a failing `nvml`
(`main.go:71-146`) change nothing. The name it takes from `HOSTNAME` (lines 42-44) is
assumed to be that of its node.

Compaction is modelled as it runs: a GPUNode's name is taken for a pool's, so the
instance has a pool with the name of the node; no connection carries the label it
looks for; no node is created five minutes in the future; the available capacity of a
pool is never written and counts as zero.

### ClusterController

`cluster` and `pool[p]` are sequences of versions like those of `NodeProvisioning`;
`w.fresh` says that the worker's cluster is the current version, and a call on a pool
is `"stale"` if its copy is not. One action per API call, so that specification, pools
and caches change between any two. `client` is alibaba's `cachedClient`, `tested` a
ghost with the configurations used in successful tests. The slots of `RefreshStatus`
are modelled by their effect: with more owned than wanted pools a running one may have
none, and the index panics. Conditions, totals and the length of delays are left out. The
retry count stops at `MaxRetry`, where the code goes on counting (line 145); beyond it
only the length of the delay would differ.

### PodAdmission

`pod` and `conn` are sequences of versions. A connection's name is the pair of pod
and container for which the webhook drew it, since a drawn name never recurs; `env`
is the sequence of values of the container's variable, because the webhook appends
and the parser takes the first. `ParseQuantity` turns texts into numbers, with zero
for the absent and the unreadable; quantities may be negative, as `resource.ParseQuantity`
accepts them. After admission a user may add the pod's label and change its annotations
(`LabelPod`, `EditPod`); the webhook is not asked again, and a connection that exists is
not updated. `asked[p]` is a ghost: everything the pod has asked for, one entry per
version. The patches an administrator configures, and metrics, are left out.

## 3. Runs

| Run | Expected | Instance | Question |
|---|---|---|---|
| `AllocFaults` | pass | 1 connection, 1 GPU, any 2 of the 7 kinds of fault, fairness | `TypeOK`, `AvailableNotNegative`, `FinalizerGuardsReservation`, `ReleasedBeforeGone`, `DeletionCompletes` |
| `AllocLedger` | pass | 2 connections, 2 GPUs, no faults, fairness | `LedgerBalanced`, `WorkerOnStatusGPU`, `LedgerSpec` (refinement), `NoStarvation` |
| `AllocOvercommit` | violation | 3 equal connections, 1 GPU, 2 stale reconciles | `NoOvercommit` |
| `AllocLeak` | violation | 1 connection, 1 GPU, the pool missing once | `NoStarvation` |
| `RouterWatch` | pass | 2 requests, 2 connections, a watch that may end | `TypeOK`, `NoSendOnClosed`, `SubscribersExact`, `BroadcastCompletes`, `AnsweredIfUpdated` |
| `RouterLostUpdate` | violation | 1 request, 1 connection | `AnsweredWhenRunning` |
| `Provision` | pass | 1 GPUNode, any 2 of the 10 kinds of disturbance, fairness | `TypeOK`, `OrphansExplained`, `RecordedRuns`, `TerminatedBeforeGone`, `NodeDeletionCompletes` |
| `ProvisionRestore` | violation | 2 names, 1 deletion, fairness | `CapacityMet` |
| `Capacity` | pass | 96 undisturbed pools with every minimum up to 5 TFLOPS and 7 units of VRAM, one without a zone, four with warm-up capacity or maximum and 1 or 2 disturbances; 4 instance types, 8 nodes, fairness | `TypeOK`, `PlanOptimal`, `WasteBounded`, `MinReached`, `StatusConverges` |
| `Selection` | pass | 1 node, 2 pools, 2 labels, 1 or 2 disturbances, fairness | `TypeOK`, `UsefulKept`, `CapacityKept`, `SelectionConverges`, `RunningReached`, `Collected` |
| `Cluster` | pass | 2 pools, 4 vendors (tested, refused, unsupported), specifications that change once, 1 disturbance of 7 kinds, fairness | `TypeOK`, `TestedBeforeReady`, `PoolsConverge`, `ReadyReached`, `StatusAccurate` |
| `Admission` | pass | 2 pods with 2 containers, 4 manifests, 1 disturbance of 8 kinds, fairness | `TypeOK`, `ClaimsMatch`, `Connected`, `Collected` |

*Bounds.* Quantities are chosen so that the interesting cases occur: `c1` fits on
both GPUs, `c2` only on `g1` and, for lack of video memory alone, not together with
`c1`; so a comparison of one quantity only goes wrong, one connection has to wait
for the other, and a second reservation for `c1` may land on the other GPU. Two
faults suffice for the combinations the code is exposed to, such as a failed status
write followed by a stale retry. `MaxNotif = 1` lets the informer's store run ahead
of the scheduler by one event, which is all that is needed to separate their
objects; further events wait in `gpuWatch`, whose length is not bounded. In the
router, two requests on two connections show both subscribers of one key and
different keys; one undelivered event besides the one being sent lets a channel be
full when the next arrives. In the provisioner one GPUNode meets every interleaving of its goroutine with the
two controllers, the informer and the surroundings, and two disturbances combine any
two of the kinds; `MaxLag = 2` lets a cache be two versions behind, enough for a
copy that misses both the finalizer and a status write. A warm-up capacity of one
with a maximum of one exercises the gap that the maximum stops. `ProvisionRestore`
needs a second name, for the node that should replace the deleted one; with one name
`CapacityMet` would hold as soon as that name is used, so no passing run has it. That
failed creations are made up for is `MinReached` in `Capacity`. In `Capacity`
one GiB is 2 bytes and a round may create 2 instances, so that rounding matters and
several rounds are needed; one of the types offers no TFLOPS and must be skipped, and
prices, regions and architectures make each of the others the best for some gap. In
`Selection` the two pools overlap in labels, and one has the node's name, without
which compaction does nothing; in one setup it is in provisioning mode, where
compaction deletes GPUNodes, with and without capacity, that come back. In `Cluster` caches may be one version
behind and every disturbance meets every step; the vendors are two of alibaba, the
second refused, one of aws that is refused and one without support. In `Admission`
the manifests have a limit without its request, an unreadable text, a missing pool,
no label, a negative quantity, and the variables of an admitted pod; an edit changes
the pool and annotations of a live pod to those of any manifest, so that a connection may
be created from an older version than the current one. Deadlock is not checked because every
one of these systems may really stop: when all connections are gone, all requests are
answered, the pool has its nodes, the cluster is as specified, nothing happens.

*Fairness.* The worker and the informers run (weak fairness of `WorkerStep` and of
the event actions). `Start(c)` is strongly fair because the workqueue is first-in
first-out, so a queued connection is not passed over however often it is disabled
by the worker being busy. Kubelet starts pods, the garbage collector collects, a
discovery job that failed is run again by the Job controller, and a missing pool is
created in the end; nothing makes users create or delete connections, and faults
have no fairness. In the router the goroutines run (weak fairness of `Receive`,
`Send`, `Wait`); `Subscribe` and `Cancel` are strongly fair because a writer that
waits for a `sync.RWMutex` holds back new readers. In the provisioner the workers,
goroutines, informers, jobs and pods run; `NodeStart(n)` is strongly fair because of
the workqueue; nothing makes an instance join the cluster or anybody delete. The
other models assume the same of workers, informers, garbage collector, jobs and pods.
`NodeSelection` adds that kubelet keeps reporting the state of a live node
(`Heartbeat`): the code relies on it, because no other event carries a changed selector
to the Node controller. There the choice of a request is strongly fair for the reason
given for `Start(c)`. In `PoolCapacity` and `ClusterController` nothing makes a GPUNode
or a pool ready.

*Exceptions in the properties.* Where the code has a gap that no line of the
repository denies, the property names the gap, and the run shows that it is the only
one: `ReadyReached` and `StatusAccurate` except reconciles that start from an old
version of the cluster; `TestedBeforeReady` the cached client of alibaba; `Connected` a
swallowed read error, copies of pods, and edits that take the marks off a container or put
them on one without a connection's name; `UsefulKept` pools in provisioning mode, whose
GPUNodes with capacity are deleted (section 4); `OrphansExplained` the five events it names;
`NodeDeletionCompletes` lookups of cluster and vendor that never succeed; `StatusConverges` the number of nodes of an
empty pool, which the merge patch leaves out; `MinReached` deletions, which
`ProvisionRestore` is about; `SelectionConverges` broken selectors; `RunningReached` a
GPUNode whose pool is gone. `WasteBounded` counts instead: a superfluous round of
creations needs a disturbance each time.

*What holds only without faults.* `LedgerBalanced`, `WorkerOnStatusGPU`
and `LedgerSpec` are checked when every reconcile starts with
caches that have caught up and no call fails; in this setting they are also proved
for every instance. None of them survives a fault: a
cached phase that is older than the controller's own write is scheduled again, and
a status write that fails after the pod has been created may lead to a retry on
another GPU. The runs that are expected to be violated show the cases where a line
of the repository says otherwise.

## 4. What the code does otherwise

* `AllocOvercommit`: `OnUpdate` (`naive.go:52`) replaces the scheduler's object by
  that of a watch event, which may be older than a reservation made in place. The
  reservation is forgotten and the GPU handed out again, although "the first gpu
  that has enough resources" is to be returned.
* `AllocLeak`: `Schedule` reserves before the pool is looked up
  (`tensorfusionconnection_controller.go:111`); the error return keeps the
  reservation, every retry makes another, and the connection cannot be scheduled
  once the pool exists.
* Also met with the same model (`Kinds = {"rediscover"}` violates `LedgerBalanced`): node discovery (`main.go:165`) takes `available` from the status
  it has just built, where it is always nil, and so resets a GPU in use to its full
  capacity.
* The channel of a subscriber stays open when the connection is deleted, contrary to
  the comment on `subscribe` (`connection.go:88`); `ClosedOnDelete` in
  `ConnectionRouter` states the comment and is violated.
* `RouterLostUpdate`: the connection becomes Running after `Get` has read it and
  before it subscribes; the event reaches no channel and the client waits for ever.
  `AnsweredIfUpdated` says what does hold: a later write of the connection answers.
* `NoOrphan`, the comment at `gpupool_node_provision.go:158`, does not hold: after `CreateNode` the goroutine reads the GPUNode from the cache
  (`gpupool_node_provision.go:168`) and returns on an error without terminating the
  instance, which then runs without an owner. `OrphansExplained` shows that, this
  read, a lost answer of the cloud, a panic, a restart and a deletion before the finalizer
  apart, nothing else leaves an instance behind.
* `ProvisionRestore`: the reconcile after a deletion refreshes the pool's status but
  decides on the copy it read before (`gpupool_controller.go:90`); nothing starts
  another reconcile, and the pool stays below its minimum.
* `NothingUsefulPicked` in `NodeSelection`, violated on the instance of the run
  `Selection` (give it as its `INVARIANT`): compaction compares the capacity of a cached GPUNode, and in
  provisioning mode deletes by name (`gpupool_compaction_controller.go:98`); a GPUNode
  whose capacity the discovery job has written since is deleted, although line 95
  announces that the "deletion won't impact warm-up capacity". `UsefulKept` says what
  does hold: for other pools the version check of the update at line 105 prevents this.
* Annotations edited after admission change no connection that exists: the pod controller
  passes over one that it finds (`pod_controller.go:72-79`). No line says otherwise;
  `ClaimsMatch` speaks of one version the pod had, not of its current one.

## 5. What is proved

Every safety property of the passing runs, invariants and action properties, for
every value of the constants. The argument is the same throughout: the properties are
about the API server's current objects, the code acts on copies of them, so the
inductive invariant says what a copy (cached, under way, or in a worker's hands) tells
of the current object. These invariants stand at the end of the models (`RouterInv` and
`Books` with the proofs). TLC finds those in the models to hold on the instances of the
passing runs: give one as the `INVARIANT` of a run's configuration.

*GPUAllocation_proofs*, for any finite set of connections, any GPUs, requests and
capacities in the natural numbers, any kinds and numbers of faults:

* `TypeCorrect`: the type invariant.
* `AvailabilitySafe`: `AvailableNotNegative`. Inductive with the types and with the
  fact that the value the worker is about to write is not negative; it has to speak
  of every copy (API, watch queue, store, notifications, scheduler), since any of
  them may become the scheduler's object.
* `ReservationGuarded` and `NoEarlyRemoval`: `FinalizerGuardsReservation` and
  `ReleasedBeforeGone`. `DeletionInv` adds: the last version under way is the current
  one (`ChainEnds`); no live version follows one that is being deleted
  (`DeletionOrdered`); while a live version with the finalizer is cached or under way,
  the current object has it, because only a worker that has seen the deletion drops it
  (`FinalizerSeen`); an object waits for its deletion, or has a GPU, only with the
  finalizer (`FinalizerNeeded`); and what each step of `Reconcile` knows of its object
  (`WorkerKnows`).

*AllocationLedger_proofs*, in the setting of `AllocLedger`: no call fails and
reconciles start with caches that have caught up (`Kinds = {}`), though events still
arrive late during them; for any GPUs and any finite set of connections.

* `ImplementsLedger`: `LedgerSpec`, the refinement of `AllocationLedger`. A share counts
  as reserved from the status write of the GPU on and as returned likewise, so
  `UpdateGPU` is a `Reserve` or a `GiveBack`; only a connection that asks for nothing is
  reserved by `UpdateConn`, because its GPU's status does not change; every other action
  leaves `free` and `holder` alone. The proof needs `LedgerInv`: the last version of a
  GPU under way is the current one (`GPUChain`); copies with a status are equal to
  it unless the worker has changed the GPU in memory (`CopiesAgree`), and while the worker is at
  work nothing follows such a copy that could replace it in the scheduler
  (`ReadyLast`); the worker's GPU differs from the API server's by exactly one share
  (`HandCalm`); a connection is bound exactly when its phase says so (`ConnCalm`).
* `PodOnItsGPU`: `WorkerOnStatusGPU`, with `PodCalm` for the pod that exists before its
  connection is bound.
* `BooksBalance`: `LedgerBalanced`. `Books` says of the abstract ledger that what a GPU
  has left and the sum of the requests that hold a share of it make up its capacity; that
  a sum over a finite set changes by the request of the one connection that was added or
  removed is proved without an induction theorem, from a least counterexample.

*ConnectionRouter_proofs*, for any requests and connections:

* `RouterTypes`, with the fact that a channel never holds more than one event.
* `SendsAreSafe` and `SubscribersTracked`: `NoSendOnClosed` and `SubscribersExact`,
  from `RouterInv`, which adds that the channels still to be served are subscribed
  under the event's key and that a channel is closed exactly when its handler has
  passed `cancelFunc`.

*NodeProvisioning_proofs*, for any finite set of GPUNodes, any capacities and any
disturbances:

* `ProvisionTypes`: the type invariant.
* `NoUnexplainedOrphan`, `RecordedInstanceRuns` and `TerminatedFirst`:
  `OrphansExplained`, `RecordedRuns` and `TerminatedBeforeGone`, the first for
  every combination of disturbances outside the five events it names. `ProvisionInv` adds that
  every version a cache or a worker shows came before the current one (`VersionsFollow`;
  an id once recorded stays); what the goroutine knows of its instance and its GPUNode at
  each of its calls, since nobody else writes the id (`GoKnows`); that a GPUNode which is
  gone had an instance unless it was deleted before its finalizer was there (`GoneKnows`); and
  that a GPUNode controller about to drop the finalizer has terminated the instance
  (`WorkerKnows`).

*PoolCapacity_proofs*, for any catalog, prices, requirements and pools:

* `CapacityTypes`: the type invariant.
* `PlansAreOptimal`: `PlanOptimal`, from lemmas on rounding up (`Ceiling`,
  `CeilingLeast`) and the fact that every type to choose from offers both resources.
* `OneRoundPerDisturbance`: `WasteBounded`. Not inductive: `WastePaid` says
  that the disturbances so far have paid not only for the superfluous rounds so far but
  also for the next one, if the next decision may overlook a GPUNode. It overlooks none
  while the cache and both statuses cover what exists, or once a second refresh is sure
  to come (`Clean`). Sums over GPUNodes are handled as in `BooksBalance`.

*NodeSelection_proofs*, for any nodes, pools and setups:

* `SelectionTypes`: the type invariant.
* `CompactionSafe` and `CapacityNeverReset`: `UsefulKept` (compaction for a pool that is
  not in provisioning mode picks no GPUNode whose current version shows capacity, however
  old the list it works on) and `CapacityKept`.
  `SelectionInv` adds that a cached GPUNode that is not behind is the current one
  (`CacheKnows`), that only a GPUNode on a node with GPUs has a capacity
  (`CapacityKnows`), and that a version which a worker holds and which is not stale
  still shows what it read there (`WorkerKnows`, `CompactKnows`): the refused write is
  what protects the discovered capacity.

*ClusterController_proofs*, for any pools, vendors and specifications:

* `ClusterTypes`: the type invariant.
* `VendorTestedFirst`: `TestedBeforeReady`. `ClusterInv` adds that the hash in every
  version of the cluster, and in the copy `Reconcile` carries, names a tested
  configuration (`HashesTested`, `WorkerTested`); that past the vendor the copy's hash is
  that of the vendor it specifies; that a copy that is not outdated specifies what the
  object does (`FreshKnows`), so that the write which makes it Running cannot pair a
  new vendor with an old hash; and that the kept client is one of alibaba
  (`ClientKnows`).
* `EditsSurvive`: no reconcile, however old its copy, undoes an edit of the
  specification. A consequence of `FreshKnows`; no run has it.

*PodAdmission_proofs*, for any pods, containers and manifests:

* `AdmissionTypes`: the type invariant; a connection claims quantities whatever text
  the annotations hold.
* `ClaimsAreAnnotations`: `ClaimsMatch`, through any edits of the annotations.
  `AdmissionInv` adds that what each live version of a pod asks for, and what the worker's
  copy asks for, is in `asked`, which only grows (`PodKeeps`, `WorkerKnows`), and that
  a connection's owner asked in one version for what it claims, also after either is gone
  (`Owned`).

*Assumptions.* Only the named `ASSUME`s of the models, which TLC evaluates on
the runs' constants: `None` and `Absent` are no objects and no quantities; requests,
capacities, offers, prices and bounds are natural numbers, a GiB and the bounds of caches
and loops not zero; connections and GPUNodes are finitely many; catalogs, manifests,
specifications and setups are well-typed; the region of every pool has a price ratio.

*Only model-checked.* The liveness properties (`DeletionCompletes`, `NoStarvation`,
`BroadcastCompletes`, `AnsweredIfUpdated`, `NodeDeletionCompletes`,
`MinReached`, `StatusConverges`, `SelectionConverges`, `RunningReached`, both
`Collected`, `PoolsConverge`, `ReadyReached`, `StatusAccurate`, `Connected`), since
fairness and `ENABLED` are beyond the prover. The library's induction theorems cannot
be used either, because they take an operator as a parameter; where numbers or finite sets
need induction, the proofs look at a least counterexample instead (`Least`).

## 6. Plan

The models and the theorems planned so far are done. What would add most:

1. An abstract specification of an instance's life (created, recorded, terminated),
   refined by `NodeProvisioning`, with the proof in `NodeProvisioning_proofs`.
2. What survives of the ledger under each kind of fault taken alone, such as a bound on
   the shares that a failed call can leak.

## 7. Not modelled

GPUNodeClass and SchedulingConfigTemplate controllers (their `Reconcile` does
nothing); how the cloud providers fill in a request to a vendor's library, and
`GetNodeStatus`, which nothing calls; `CalculateVirtualCapacity` and `SetAsUnknown`,
which nothing calls; the worker's template, port and URL; configuration files and
metrics (I/O); generated deep copies; process wiring and leader election.
