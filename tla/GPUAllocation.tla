----------------------------- MODULE GPUAllocation -----------------------------
(***************************************************************************)
(* How a TensorFusionConnection obtains and returns a share of a GPU.      *)
(*                                                                         *)
(* Modelled code: the connection reconciler with its deletion hook and its *)
(* status writer (tensorfusionconnection_controller.go), HandleFinalizer   *)
(* (utils/reconcile.go), the in-memory NaiveScheduler (scheduler/naive.go) *)
(* fed by the GPU controller's predicates (gpu_controller.go), and the     *)
(* node-discovery job's writes to GPU objects (cmd/nodediscovery/main.go). *)
(*                                                                         *)
(* The API server is external: it keeps the objects, rejects a write that  *)
(* carries an old resourceVersion, and sends every change to the informers *)
(* in order but late.  A resourceVersion is never represented: a cached    *)
(* copy is current exactly when no event of its object is undelivered, and *)
(* the reconciler's local copy is current while w.fresh holds.             *)
(***************************************************************************)
EXTENDS Integers, Sequences, FiniteSets, FiniteSetsExt

CONSTANTS
    Conns,      \* names of TensorFusionConnections; each is created at most once
    GPUs,       \* names of GPU objects
    None,       \* no GPU (the empty Status.GPU) or no connection
    Req,        \* Spec.Resources.Requests of each connection
    Cap,        \* Status.Capacity of each GPU, as node discovery measures it
    Kinds,      \* the kinds of fault that may happen
    MaxFaults,  \* bound on the number of faults
    MaxNotif    \* bound on the GPU events waiting for the scheduler's handler

Dim    == {"tflops", "vram"}
\* "stale" counts the reconciles that start before the caches have caught up.
Faults == {"stale", "abort", "crash", "rediscover", "gpuLoss", "podLoss", "poolLoss"}

ASSUME ConnsAssumption  == IsFiniteSet(Conns)
ASSUME NoneAssumption   == None \notin Conns /\ None \notin GPUs
ASSUME ReqAssumption    == Req \in [Conns -> [Dim -> Nat]]
ASSUME CapAssumption    == Cap \in [GPUs -> [Dim -> Nat]]
ASSUME FaultAssumption  == Kinds \subseteq Faults /\ MaxFaults \in Nat
ASSUME NotifAssumption  == MaxNotif \in Nat \ {0}

VARIABLES
    conn,       \* API server: the connection objects
    connWatch,  \*   their events not yet delivered to the connection informer
    connCache,  \* connection informer's store
    gpu,        \* API server: the GPU objects
    gpuWatch,   \*   their events not yet delivered to the GPU informer
    gpuStore,   \* GPU informer's store
    gpuNotif,   \*   objects in the store not yet handed to the predicates
    sched,      \* NaiveScheduler.gpus
    pod,        \* API server: the worker pods, named after their connection
    podCache,   \* pod informer's store
    pool,       \* whether the connections' GPUPool exists
    queue,      \* the connection controller's workqueue
    w,          \* the one worker of the connection controller
    left        \* faults that may still happen

connVars  == <<conn, connWatch, connCache>>
gpuVars   == <<gpu, gpuWatch>>
cacheVars == <<gpuStore, gpuNotif, sched>>
podVars   == <<pod, podCache>>
vars == <<connVars, gpuVars, cacheVars, podVars, pool, queue, w, left>>

--------------------------------------------------------------------------------
(* Objects *)

Phases == {"", "Pending", "Starting", "Running"}
Vector == [Dim -> Int]
Zero   == [d \in Dim |-> 0]

ConnObj == [state : {"none", "live", "deleting", "gone"}, fin : BOOLEAN,
            phase : Phases, gpu : GPUs \cup {None}]
\* A GPU is "bare" between its creation and the first write of its status:
\* Status.Available is then a nil pointer.
GPUObj  == [state : {"absent", "bare", "ready"}, free : Vector]
PodObj  == [phase : {"none", "Pending", "Running"}, gpu : GPUs \cup {None}]

NoConn(s) == [state |-> s, fin |-> FALSE, phase |-> "", gpu |-> None]
Absent    == [state |-> "absent", free |-> Zero]
Bare      == [state |-> "bare", free |-> Zero]
Ready(f)  == [state |-> "ready", free |-> f]
NoPod     == [phase |-> "none", gpu |-> None]

\* Where the worker stands in Reconcile, with the variables it carries:
\* connection (obj), gpu and its Status.Available (gpu, val).  freed is the GPU
\* whose share this reconcile has returned, kept for the properties only.
Steps == {"idle", "addFinalizer", "release", "dropFinalizer", "schedule",
          "getGPU", "startWorker", "updateConn", "updateGPU"}
Worker == [pc : Steps, c : Conns \cup {None}, obj : ConnObj, fresh : BOOLEAN,
           gpu : GPUs \cup {None}, val : GPUObj, freed : GPUs \cup {None}]
IdleWorker == [pc |-> "idle", c |-> None, obj |-> NoConn("none"), fresh |-> FALSE,
               gpu |-> None, val |-> Absent, freed |-> None]

\* Mutants: Release forgets to add, Schedule forgets one resource.
PlusNothing(f, r) == f
MinusTflops(f, r) == [f EXCEPT !["tflops"] = @ - r["tflops"]]

Plus(f, r)  == [d \in Dim |-> f[d] + r[d]]
Minus(f, r) == [d \in Dim |-> f[d] - r[d]]

Init ==
    /\ conn = [c \in Conns |-> NoConn("none")]
    /\ connWatch = [c \in Conns |-> <<>>]
    /\ connCache = conn
    /\ gpu = [g \in GPUs |-> Absent]
    /\ gpuWatch = [g \in GPUs |-> <<>>]
    /\ gpuStore = gpu
    /\ gpuNotif = [g \in GPUs |-> <<>>]
    /\ sched = gpu
    /\ pod = [c \in Conns |-> NoPod]
    /\ podCache = pod
    /\ pool = TRUE
    /\ queue = {}
    /\ w = IdleWorker
    /\ left = MaxFaults

Drained ==
    /\ \A c \in Conns : connWatch[c] = <<>> /\ podCache[c] = pod[c]
    /\ \A g \in GPUs : gpuWatch[g] = <<>> /\ gpuNotif[g] = <<>>

--------------------------------------------------------------------------------
(* API server: a write that changes an object becomes an event *)

PutConn(c, o) ==
    /\ conn' = [conn EXCEPT ![c] = o]
    /\ connWatch' = IF o = conn[c] THEN connWatch
                    ELSE [connWatch EXCEPT ![c] = Append(@, o)]
    /\ UNCHANGED connCache

PutGPU(g, o) ==
    /\ gpu' = [gpu EXCEPT ![g] = o]
    /\ gpuWatch' = IF o = gpu[g] THEN gpuWatch
                   ELSE [gpuWatch EXCEPT ![g] = Append(@, o)]

\* A change of c by somebody else makes the worker's copy of it out of date.
Outdate(c) == w' = [w EXCEPT !.fresh = @ /\ w.c # c]

Spend(f) == f \in Kinds /\ left > 0 /\ left' = left - 1

--------------------------------------------------------------------------------
(* Reconcile of one connection, by the controller's single worker *)

Goto(step) == w' = [w EXCEPT !.pc = step]

\* Reconcile returns.  An error, a recovered panic and a pending connection put
\* the connection back in the queue.
Return  == w' = IdleWorker /\ UNCHANGED queue
\* Mutant of Requeue: an error is dropped.
Forget  == w' = IdleWorker /\ queue' = queue
Requeue == w' = IdleWorker /\ queue' = queue \cup {w.c}

\* Mutant of AfterFinalizer: only a running connection counts as scheduled.
UntilRunning(o) == IF o.phase # "Running" THEN "schedule" ELSE "getGPU"

\* The steps after HandleFinalizer found, or added, the finalizer.
AfterFinalizer(o) == IF o.phase \in {"", "Pending"} THEN "schedule" ELSE "getGPU"

FirstStep(o) == IF o.state = "deleting" THEN "release"
                ELSE IF o.fin THEN AfterFinalizer(o) ELSE "addFinalizer"

\* Get the connection and decide what HandleFinalizer has to do; a connection
\* that is not found, or is on its way out, needs nothing.
Start(c) ==
    /\ w.pc = "idle"
    /\ c \in queue
    /\ IF Drained THEN UNCHANGED left ELSE Spend("stale")
    /\ queue' = queue \ {c}
    /\ LET o == connCache[c] IN
       IF o.state \in {"none", "gone"} \/ (o.state = "deleting" /\ ~o.fin)
       THEN w' = IdleWorker
       ELSE w' = [IdleWorker EXCEPT !.pc = FirstStep(o), !.c = c, !.obj = o,
                                    !.fresh = (connWatch[c] = <<>>)]
    /\ UNCHANGED <<connVars, gpuVars, cacheVars, podVars, pool>>

\* Mutant of AddFinalizer: the error of the Update is ignored.
AddFinalizerUnchecked ==
    /\ w.pc = "addFinalizer"
    /\ LET o == [w.obj EXCEPT !.fin = TRUE] IN
       /\ IF w.fresh THEN PutConn(w.c, o) ELSE UNCHANGED connVars
       /\ w' = [w EXCEPT !.obj = o, !.pc = AfterFinalizer(o)]
    /\ UNCHANGED <<gpuVars, cacheVars, podVars, pool, queue, left>>

\* HandleFinalizer of a live connection: Update, or an error on a conflict.
AddFinalizer ==
    /\ w.pc = "addFinalizer"
    /\ IF w.fresh
       THEN LET o == [w.obj EXCEPT !.fin = TRUE] IN
            /\ PutConn(w.c, o)
            /\ w' = [w EXCEPT !.obj = o, !.pc = AfterFinalizer(o)]
            /\ UNCHANGED queue
       ELSE Requeue /\ UNCHANGED connVars
    /\ UNCHANGED <<gpuVars, cacheVars, podVars, pool, left>>

\* The scheduler holds the very object of the informer's store once the
\* predicate has received it, so a change made in place is a change of both.
SetAvailable(g, f) ==
    /\ sched' = [sched EXCEPT ![g].free = f]
    /\ gpuStore' = IF gpuNotif[g] = <<>> THEN [gpuStore EXCEPT ![g].free = f]
                   ELSE gpuStore
    /\ UNCHANGED gpuNotif

\* Mutant of Fits: one resource is not compared.
FitsTflops(f, r) == f["tflops"] >= r["tflops"]

Fits(f, r) == \A d \in Dim : f[d] >= r[d]

\* NaiveScheduler.Schedule: any GPU with enough of both resources (the order of
\* a Go map is random) ...
SchedulePick(g) ==
    /\ w.pc = "schedule"
    /\ sched[g].state = "ready"
    /\ Fits(sched[g].free, Req[w.c])
    /\ LET f == Minus(sched[g].free, Req[w.c]) IN
       /\ SetAvailable(g, f)
       /\ w' = [w EXCEPT !.pc = "startWorker", !.obj.phase = "Starting",
                         !.obj.gpu = g, !.gpu = g, !.val = Ready(f)]
    /\ UNCHANGED <<connVars, gpuVars, podVars, pool, queue, left>>

\* Mutant of ScheduleNone: a phase that the API does not define.
ScheduleFailed ==
    /\ w.pc = "schedule"
    /\ \A g \in GPUs : sched[g].state = "absent"
    /\ w' = [w EXCEPT !.pc = "getGPU", !.obj.phase = "Failed"]
    /\ UNCHANGED <<connVars, gpuVars, cacheVars, podVars, pool, queue, left>>

\* ... an error when there is none, and the connection is Pending ...
ScheduleNone ==
    /\ w.pc = "schedule"
    /\ \A g \in GPUs : /\ sched[g].state # "bare"
                       /\ sched[g].state = "ready" => ~Fits(sched[g].free, Req[w.c])
    /\ w' = [w EXCEPT !.pc = "getGPU", !.obj.phase = "Pending"]
    /\ UNCHANGED <<connVars, gpuVars, cacheVars, podVars, pool, queue, left>>

\* ... or a nil dereference when the iteration meets a GPU without a status.
SchedulePanic ==
    /\ w.pc = "schedule"
    /\ \E g \in GPUs : sched[g].state = "bare"
    /\ Requeue
    /\ UNCHANGED <<connVars, gpuVars, cacheVars, podVars, pool, left>>

\* Whether Get finds the GPU in the informer's store.
InStore(g) == g # None /\ gpuStore[g].state # "absent"

\* "check schedule result": a connection bound earlier reads its GPU.
GetGPU ==
    /\ w.pc = "getGPU"
    /\ IF InStore(w.obj.gpu)
       THEN w' = [w EXCEPT !.gpu = w.obj.gpu, !.val = gpuStore[w.obj.gpu],
                           !.pc = IF w.obj.phase = "Pending" THEN "updateConn"
                                  ELSE "startWorker"]
       ELSE Goto("updateConn")
    /\ UNCHANGED <<connVars, gpuVars, cacheVars, podVars, pool, queue, left>>

\* Get the pool, then tryStartWorker: the pod in the cache, or a new one.
StartWorker ==
    /\ w.pc = "startWorker"
    /\ \/ /\ pool
          /\ podCache[w.c].phase # "none"
          /\ w' = [w EXCEPT !.pc = "updateConn",
                            !.obj.phase = IF podCache[w.c].phase = "Running"
                                          THEN "Running" ELSE @]
          /\ UNCHANGED <<pod, queue>>
       \/ /\ pool
          /\ podCache[w.c].phase = "none"
          /\ pod[w.c].phase = "none"
          /\ pod' = [pod EXCEPT ![w.c] = [phase |-> "Pending", gpu |-> w.gpu]]
          /\ Goto("updateConn")
          /\ UNCHANGED queue
       \/ /\ \/ ~pool                        \* "gpu pool(%s) does not exist"
             \/ podCache[w.c].phase = "none" /\ pod[w.c].phase # "none"
          /\ Requeue
          /\ UNCHANGED pod
    /\ UNCHANGED <<connVars, gpuVars, cacheVars, podCache, pool, left>>

\* Mutant of AfterUpdate: a pending connection is not queued again.
AfterUpdateNoRetry(fresh) ==
    IF w.obj.state = "deleting"
    THEN w' = [w EXCEPT !.pc = "dropFinalizer", !.fresh = fresh] /\ UNCHANGED queue
    ELSE Return

\* What follows mustUpdateTFConnectionStatus: in handleDeletion the removal of
\* the finalizer, in Reconcile the return.
AfterUpdate(fresh) ==
    IF w.obj.state = "deleting"
    THEN w' = [w EXCEPT !.pc = "dropFinalizer", !.fresh = fresh] /\ UNCHANGED queue
    ELSE IF w.obj.phase = "Pending" THEN Requeue ELSE Return

\* mustUpdateTFConnectionStatus, first half: the status of the local copy
\* replaces that of the latest cached copy.  A stale cache is a conflict, which
\* RetryOnConflict retries: the step stays where it is until the cache catches
\* up, or Abort gives up.
UpdateConn ==
    /\ w.pc = "updateConn"
    /\ \/ /\ connWatch[w.c] = <<>>
          /\ conn[w.c].state \notin {"none", "gone"}
          /\ LET o     == [conn[w.c] EXCEPT !.phase = w.obj.phase, !.gpu = w.obj.gpu]
                 fresh == w.fresh /\ o = conn[w.c]
             IN /\ PutConn(w.c, o)
                /\ IF w.gpu = None THEN AfterUpdate(fresh)
                   ELSE /\ w' = [w EXCEPT !.pc = "updateGPU", !.fresh = fresh]
                        /\ UNCHANGED queue
       \/ /\ conn[w.c].state \in {"none", "gone"}
          /\ Requeue
          /\ UNCHANGED connVars
    /\ UNCHANGED <<gpuVars, cacheVars, podVars, pool, left>>

\* Second half: Available as the local copy has it.  A conflict starts the
\* whole closure again.  A GPU that is gone is an error, and so is one without a
\* status, on either side: the CRD requires capacity and available together.
UpdateGPU ==
    /\ w.pc = "updateGPU"
    /\ \/ /\ InStore(w.gpu)
          /\ gpuWatch[w.gpu] = <<>>
          /\ w.val.state = "ready" /\ gpu[w.gpu].state = "ready"
          /\ PutGPU(w.gpu, w.val)
          /\ AfterUpdate(w.fresh)
       \/ /\ InStore(w.gpu)
          /\ gpuWatch[w.gpu] # <<>>
          /\ gpu[w.gpu].state # "absent"
          /\ Goto("updateConn")
          /\ UNCHANGED <<gpuVars, queue>>
       \/ /\ \/ ~InStore(w.gpu)
             \/ gpu[w.gpu].state = "absent"
             \/ gpuWatch[w.gpu] = <<>> /\ "bare" \in {w.val.state, gpu[w.gpu].state}
          /\ Requeue
          /\ UNCHANGED gpuVars
    /\ UNCHANGED <<connVars, cacheVars, podVars, pool, left>>

\* handleDeletion: nothing to do without a GPU or when it is gone; otherwise
\* NaiveScheduler.Release, an error when the scheduler does not know the GPU and
\* a nil dereference when it has no status yet.
Release ==
    /\ w.pc = "release"
    /\ LET g == w.obj.gpu IN
       \/ /\ ~InStore(g)
          /\ w' = [w EXCEPT !.pc = "dropFinalizer", !.freed = g]
          /\ UNCHANGED <<cacheVars, queue>>
       \/ /\ InStore(g)
          /\ sched[g].state = "ready"
          /\ LET f == Plus(sched[g].free, Req[w.c]) IN
             /\ SetAvailable(g, f)
             /\ w' = [w EXCEPT !.pc = "updateConn", !.gpu = g, !.val = Ready(f),
                               !.freed = g]
          /\ UNCHANGED queue
       \/ /\ InStore(g)
          /\ sched[g].state # "ready"
          /\ Requeue
          /\ UNCHANGED cacheVars
    /\ UNCHANGED <<connVars, gpuVars, podVars, pool, left>>

\* Mutant of DropFinalizer: a patch that does not carry the resourceVersion.
DropFinalizerForced ==
    /\ w.pc = "dropFinalizer"
    /\ PutConn(w.c, NoConn("gone")) /\ Return
    /\ UNCHANGED <<gpuVars, cacheVars, podVars, pool, left>>

\* HandleFinalizer after the hook: Update of the copy read at the start.
DropFinalizer ==
    /\ w.pc = "dropFinalizer"
    /\ IF w.fresh THEN PutConn(w.c, NoConn("gone")) /\ Return
                  ELSE Requeue /\ UNCHANGED connVars
    /\ UNCHANGED <<gpuVars, cacheVars, podVars, pool, left>>

\* The reconcile stops before its next step: a failed call, a lost answer, a
\* conflict that outlives the retries.
Abort ==
    /\ w.pc # "idle"
    /\ Spend("abort")
    /\ Requeue
    /\ UNCHANGED <<connVars, gpuVars, cacheVars, podVars, pool>>

\* The operator restarts: the caches are listed again, the scheduler is empty
\* until the predicates have received every GPU, and the initial list puts
\* every connection in the queue.
Crash ==
    /\ Spend("crash")
    /\ connCache' = conn
    /\ connWatch' = [c \in Conns |-> <<>>]
    /\ gpuStore' = gpu
    /\ gpuWatch' = [g \in GPUs |-> <<>>]
    /\ gpuNotif' = [g \in GPUs |-> IF gpu[g] = Absent THEN <<>> ELSE <<gpu[g]>>]
    /\ sched' = [g \in GPUs |-> Absent]
    /\ podCache' = pod
    /\ queue' = {c \in Conns : conn[c].state \notin {"none", "gone"}}
    /\ w' = IdleWorker
    /\ UNCHANGED <<conn, gpu, pod, pool>>

--------------------------------------------------------------------------------
(* Informers *)

ConnEvent(c) ==
    /\ connWatch[c] # <<>>
    /\ connCache' = [connCache EXCEPT ![c] = Head(connWatch[c])]
    /\ connWatch' = [connWatch EXCEPT ![c] = Tail(@)]
    /\ queue' = queue \cup {c}
    /\ UNCHANGED <<conn, gpuVars, cacheVars, podVars, pool, w, left>>

\* Owns(&corev1.Pod{}): a change of the worker pod queues its connection.
PodEvent(c) ==
    /\ podCache[c] # pod[c]
    /\ podCache' = [podCache EXCEPT ![c] = pod[c]]
    /\ queue' = queue \cup {c}
    /\ UNCHANGED <<connVars, gpuVars, cacheVars, pod, pool, w, left>>

GPUEvent(g) ==
    /\ gpuWatch[g] # <<>>
    /\ Len(gpuNotif[g]) < MaxNotif
    /\ gpuStore' = [gpuStore EXCEPT ![g] = Head(gpuWatch[g])]
    /\ gpuNotif' = [gpuNotif EXCEPT ![g] = Append(@, Head(gpuWatch[g]))]
    /\ gpuWatch' = [gpuWatch EXCEPT ![g] = Tail(@)]
    /\ UNCHANGED <<connVars, gpu, sched, podVars, pool, queue, w, left>>

\* OnAdd, OnUpdate and OnDelete put the object of the event in the place of the
\* one the scheduler held.
OnEvent(g, o) == sched' = [sched EXCEPT ![g] = o]

\* The predicates of the GPU controller.
GPUNotify(g) ==
    /\ gpuNotif[g] # <<>>
    /\ OnEvent(g, Head(gpuNotif[g]))
    /\ gpuNotif' = [gpuNotif EXCEPT ![g] = Tail(@)]
    /\ UNCHANGED <<connVars, gpuVars, gpuStore, podVars, pool, queue, w, left>>

--------------------------------------------------------------------------------
(* The rest of the cluster *)

\* The pod controller creates the connection; the status it sets is dropped,
\* because status is a subresource.
CreateConn(c) ==
    /\ conn[c].state = "none"
    /\ PutConn(c, NoConn("live"))
    /\ UNCHANGED <<gpuVars, cacheVars, podVars, pool, queue, w, left>>

\* The client pod's owner reference, or a user, deletes the connection.
DeleteConn(c) ==
    /\ conn[c].state = "live"
    /\ PutConn(c, IF conn[c].fin THEN [conn[c] EXCEPT !.state = "deleting"]
                  ELSE NoConn("gone"))
    /\ Outdate(c)
    /\ UNCHANGED <<gpuVars, cacheVars, podVars, pool, queue, left>>

\* Kubelet starts a worker pod.
RunPod(c) ==
    /\ pod[c].phase = "Pending"
    /\ pod' = [pod EXCEPT ![c].phase = "Running"]
    /\ UNCHANGED <<connVars, gpuVars, cacheVars, podCache, pool, queue, w, left>>

\* The garbage collector follows the owner reference of a worker pod.
CollectPod(c) ==
    /\ conn[c].state = "gone"
    /\ pod[c].phase # "none"
    /\ pod' = [pod EXCEPT ![c] = NoPod]
    /\ UNCHANGED <<connVars, gpuVars, cacheVars, podCache, pool, queue, w, left>>

\* A worker pod is deleted or evicted.
LosePod(c) ==
    /\ pod[c].phase # "none"
    /\ Spend("podLoss")
    /\ pod' = [pod EXCEPT ![c] = NoPod]
    /\ UNCHANGED <<connVars, gpuVars, cacheVars, podCache, pool, queue, w>>

\* Node discovery: CreateOrUpdate of the GPU, then a patch of its status.
DiscoverCreate(g) ==
    /\ gpu[g].state = "absent"
    /\ PutGPU(g, Bare)
    /\ UNCHANGED <<connVars, cacheVars, podVars, pool, queue, w, left>>

\* The status is new, so its Available is always nil and becomes the Capacity.
\* The job runs again when it failed, or when its TTL has removed it.
DiscoverPatch(g) ==
    /\ \/ gpu[g].state = "bare" /\ UNCHANGED left
       \/ gpu[g].state = "ready" /\ Spend("rediscover")
    /\ PutGPU(g, Ready(Cap[g]))
    /\ UNCHANGED <<connVars, cacheVars, podVars, pool, queue, w>>

\* The GPU object is collected with its GPUNode.
LoseGPU(g) ==
    /\ gpu[g].state # "absent"
    /\ Spend("gpuLoss")
    /\ PutGPU(g, Absent)
    /\ UNCHANGED <<connVars, cacheVars, podVars, pool, queue, w>>

PoolChange ==
    /\ \/ ~pool /\ UNCHANGED left
       \/ pool /\ Spend("poolLoss")
    /\ pool' = ~pool
    /\ UNCHANGED <<connVars, gpuVars, cacheVars, podVars, queue, w>>

--------------------------------------------------------------------------------

\* What the worker does next on its own, without a fault.
WorkerStep ==
    \/ AddFinalizer \/ Release \/ DropFinalizer
    \/ (\E g \in GPUs : SchedulePick(g)) \/ ScheduleNone \/ SchedulePanic
    \/ GetGPU \/ StartWorker \/ UpdateConn \/ UpdateGPU

ConnNext(c) == Start(c) \/ ConnEvent(c) \/ PodEvent(c) \/ CreateConn(c)
               \/ DeleteConn(c) \/ RunPod(c) \/ CollectPod(c) \/ LosePod(c)
GPUNext(g)  == GPUEvent(g) \/ GPUNotify(g) \/ DiscoverCreate(g)
               \/ DiscoverPatch(g) \/ LoseGPU(g)

Next == \/ WorkerStep \/ Abort \/ Crash \/ PoolChange
        \/ \E c \in Conns : ConnNext(c)
        \/ \E g \in GPUs : GPUNext(g)

Spec == Init /\ [][Next]_vars

\* The worker and the informers' goroutines keep running.  The workqueue is
\* first-in first-out, so a queued connection is not passed over for ever.
\* Kubelet, the garbage collector and a failed discovery job get done.
Fairness ==
    /\ WF_vars(WorkerStep)
    /\ \A c \in Conns : /\ SF_vars(Start(c))
                        /\ WF_vars(ConnEvent(c)) /\ WF_vars(PodEvent(c))
                        /\ WF_vars(RunPod(c)) /\ WF_vars(CollectPod(c))
    /\ \A g \in GPUs : /\ WF_vars(GPUEvent(g)) /\ WF_vars(GPUNotify(g))
                       /\ WF_vars(DiscoverCreate(g))
                       /\ WF_vars(gpu[g].state = "bare" /\ DiscoverPatch(g))
    /\ WF_vars(~pool /\ PoolChange)

FairSpec == Spec /\ Fairness

--------------------------------------------------------------------------------
(* Properties *)

\* Every variable keeps its type.
TypeOK ==
    /\ conn \in [Conns -> ConnObj] /\ connCache \in [Conns -> ConnObj]
    /\ connWatch \in [Conns -> Seq(ConnObj)]
    /\ gpu \in [GPUs -> GPUObj] /\ gpuStore \in [GPUs -> GPUObj]
    /\ sched \in [GPUs -> GPUObj]
    /\ gpuWatch \in [GPUs -> Seq(GPUObj)] /\ gpuNotif \in [GPUs -> Seq(GPUObj)]
    /\ pod \in [Conns -> PodObj] /\ podCache \in [Conns -> PodObj]
    /\ pool \in BOOLEAN /\ queue \subseteq Conns
    /\ w \in Worker /\ left \in Nat

\* NaiveScheduler never hands out more than a GPU has: Available is not negative
\* in the scheduler, the informer's store or the API, however late, lost or
\* repeated the events and the reconciles are.
AvailableNotNegative ==
    \A g \in GPUs, d \in Dim :
        /\ sched[g].free[d] >= 0 /\ gpuStore[g].free[d] >= 0 /\ gpu[g].free[d] >= 0
        /\ \A i \in DOMAIN gpuWatch[g] : gpuWatch[g][i].free[d] >= 0
        /\ \A i \in DOMAIN gpuNotif[g] : gpuNotif[g][i].free[d] >= 0

\* HandleFinalizer comes before scheduling so that a reservation is never made
\* for a connection that could vanish without handleDeletion: once the worker
\* is past it, the API server's object is there and has the finalizer.
FinalizerGuardsReservation ==
    w.pc \in {"schedule", "startWorker"} => conn[w.c].fin

\* A connection leaves the API server only in a reconcile that has returned the
\* share of the GPU its status names there, or found that GPU gone: no stale
\* copy, conflict, retry or restart lets the finalizer be dropped early.
ReleasedBeforeGone ==
    [][\A c \in Conns :
         conn[c].state # "gone" /\ conn'[c].state = "gone" /\ conn[c].gpu # None
           => w.pc = "dropFinalizer" /\ w.c = c /\ w.freed = conn[c].gpu]_vars

\* The finalizer does not block deletion for ever: under a bounded number of
\* faults every deleted connection goes away.
DeletionCompletes ==
    \A c \in Conns : conn[c].state = "deleting" ~> conn[c].state = "gone"

\* The connections whose status in the API server names a GPU.
Holds(c, g) == conn[c].state \in {"live", "deleting"} /\ conn[c].gpu = g
Load(g, d)  == MapThenSumSet(LAMBDA c : Req[c][d], {c \in Conns : Holds(c, g)})

\* Schedule picks a GPU "that has enough resources": the requests of the live
\* connections bound to a GPU never add up to more than its capacity.
NoOvercommit ==
    \A g \in GPUs, d \in Dim :
        MapThenSumSet(LAMBDA c : Req[c][d],
                      {c \in Conns : conn[c].state = "live" /\ conn[c].gpu = g})
          <= Cap[g][d]

\* Between reconciles the Available that is persisted is the capacity less the
\* requests of the connections bound to the GPU, and once the informers are idle
\* the scheduler agrees: nothing leaks and nothing is returned twice.
LedgerBalanced ==
    w.pc = "idle" => \A g \in GPUs : gpu[g].state = "ready" =>
        /\ \A d \in Dim : gpu[g].free[d] = Cap[g][d] - Load(g, d)
        /\ Drained => sched[g] = gpu[g]

\* Status.GPU, which handleDeletion will release, is the GPU that the worker pod
\* of the connection was started on.
WorkerOnStatusGPU ==
    \A c \in Conns : conn[c].gpu # None /\ pod[c].phase # "none"
                       => pod[c].gpu = conn[c].gpu

\* A pending connection is retried until it is scheduled: it does not stay
\* without a GPU for ever once no other connection holds one.
NoStarvation ==
    \A c \in Conns :
        <>[](conn[c].state = "live" /\ conn[c].gpu = None)
          => []<>(\E d \in Conns \ {c}, g \in GPUs : Holds(d, g))

\* The allocator as its users see it.  A reservation takes effect when the GPU's
\* Available is written, the last write of the reconcile that makes it, and a
\* release likewise.
Reserving(c) == /\ w.c = c /\ w.obj.state = "live"
                /\ w.pc \in {"updateConn", "updateGPU"}
                /\ w.gpu # None /\ w.val # gpu[w.gpu]
Released(c)  == w.c = c /\ w.pc = "dropFinalizer"
Ledger == INSTANCE AllocationLedger WITH
    free   <- [g \in GPUs |-> IF gpu[g].state = "ready" THEN gpu[g].free ELSE Cap[g]],
    holder <- [c \in Conns |-> IF Reserving(c) \/ Released(c) THEN None
                               ELSE conn[c].gpu]

\* With caches that catch up between reconciles and no faults, the steps of the
\* controller, the scheduler and the informers are atomic reservations and
\* releases.
LedgerSpec == Ledger!Spec

--------------------------------------------------------------------------------
(* The inductive invariant behind FinalizerGuardsReservation and               *)
(* ReleasedBeforeGone.                                                         *)

\* The states that a connection can only leave towards "gone".
Leaving == {"deleting", "gone"}

\* The newest version the informer has, or is about to get, is the current one.
ChainEnds ==
    \A c \in Conns :
        /\ connWatch[c] = <<>> => connCache[c] = conn[c]
        /\ connWatch[c] # <<>> => connWatch[c][Len(connWatch[c])] = conn[c]

\* Versions are delivered in order: none after a deletion is a live one.
DeletionOrdered ==
    \A c \in Conns : \A j \in 1..Len(connWatch[c]) :
        /\ connCache[c].state \in Leaving => connWatch[c][j].state \in Leaving
        /\ \A i \in 1..j : connWatch[c][i].state \in Leaving
                             => connWatch[c][j].state \in Leaving

\* While a live version with the finalizer is cached or under way, the current
\* object still has it: only a worker that has seen the deletion drops it.
FinalizerSeen ==
    \A c \in Conns :
        /\ connCache[c].state = "live" /\ connCache[c].fin => conn[c].fin
        /\ \A i \in 1..Len(connWatch[c]) :
             connWatch[c][i].state = "live" /\ connWatch[c][i].fin => conn[c].fin

\* Only an object with the finalizer waits for its deletion or has a GPU, and
\* only an object that exists has the finalizer.
FinalizerNeeded ==
    \A c \in Conns :
        /\ conn[c].state = "deleting" \/ conn[c].gpu # None => conn[c].fin
        /\ conn[c].fin => conn[c].state \in {"live", "deleting"}

\* What the worker knows of the connection it handles.
WorkerKnows ==
    w.pc # "idle" =>
      /\ w.c \in Conns
      /\ w.obj.state \in {"live", "deleting"}
      /\ w.pc \in {"addFinalizer", "schedule", "getGPU", "startWorker"}
           => w.obj.state = "live"
      /\ w.pc \in {"release", "dropFinalizer"} => w.obj.state = "deleting"
      /\ w.obj.state = "live" /\ w.pc # "addFinalizer" => conn[w.c].fin
      /\ w.obj.state = "deleting" =>
           /\ connCache[w.c].state \in Leaving
           /\ \A i \in 1..Len(connWatch[w.c]) : connWatch[w.c][i].state \in Leaving
      /\ w.fresh /\ (w.obj.state = "deleting" \/ w.pc = "addFinalizer")
           => w.obj = conn[w.c]
      /\ w.obj.state = "deleting" /\ w.pc # "release" => w.freed = w.obj.gpu

DeletionInv == /\ TypeOK /\ ChainEnds /\ DeletionOrdered /\ FinalizerSeen
               /\ FinalizerNeeded /\ WorkerKnows

--------------------------------------------------------------------------------
(* The inductive invariant behind LedgerSpec, LedgerBalanced and               *)
(* WorkerOnStatusGPU, which hold as long as nothing fails.                     *)

\* The worker is between the reads of Reconcile and its last write of a GPU.
AtWork == w.pc \notin {"idle", "dropFinalizer"}

\* The share of this GPU is changed in memory and not yet in the API server.
InHand(g) == AtWork /\ w.gpu = g

IsReady(o) == o.state = "ready"

\* The last version on its way is the next owner's, as ChainEnds says of connections.
GPUChain(g) ==
    /\ gpuNotif[g] = <<>> => sched[g] = gpuStore[g]
    /\ gpuNotif[g] # <<>> => gpuNotif[g][Len(gpuNotif[g])] = gpuStore[g]
    /\ gpuWatch[g] = <<>> /\ ~InHand(g) => gpuStore[g] = gpu[g]
    /\ gpuWatch[g] # <<>> => gpuWatch[g][Len(gpuWatch[g])] = gpu[g]

\* Nothing follows a version with a status.
ReadyLast(g) ==
    /\ IsReady(sched[g]) => gpuNotif[g] = <<>> /\ gpuWatch[g] = <<>>
    /\ \A i \in 1..Len(gpuNotif[g]) :
         IsReady(gpuNotif[g][i]) => i = Len(gpuNotif[g]) /\ gpuWatch[g] = <<>>
    /\ \A i \in 1..Len(gpuWatch[g]) : IsReady(gpuWatch[g][i]) => i = Len(gpuWatch[g])

AllReady(g) ==
    /\ IsReady(sched[g]) /\ IsReady(gpuStore[g])
    /\ \A i \in 1..Len(gpuNotif[g]) : IsReady(gpuNotif[g][i])
    /\ \A i \in 1..Len(gpuWatch[g]) : IsReady(gpuWatch[g][i])

\* Every version with a status is the current one.
CopiesAgree(g) ==
    ~InHand(g) => /\ \A o \in {sched[g], gpuStore[g]} : IsReady(o) => o = gpu[g]
                  /\ \A i \in 1..Len(gpuNotif[g]) :
                       IsReady(gpuNotif[g][i]) => gpuNotif[g][i] = gpu[g]
                  /\ \A i \in 1..Len(gpuWatch[g]) :
                       IsReady(gpuWatch[g][i]) => gpuWatch[g][i] = gpu[g]

GPUCalm(g) == /\ GPUChain(g) /\ CopiesAgree(g)
              /\ ReadyLast(g) \/ (~AtWork /\ AllReady(g))

\* A connection is bound exactly when its phase says so, to a GPU that the
\* scheduler knows.
ConnCalm(c) ==
    /\ conn[c].gpu = None <=> conn[c].phase \in {"", "Pending"}
    /\ conn[c].gpu # None => IsReady(sched[conn[c].gpu])

\* The worker's copy of the GPU is the scheduler's; it differs from the current one
\* by the share of a new reservation or of a release.
HandCalm ==
    AtWork /\ w.gpu # None =>
      /\ w.gpu = w.obj.gpu /\ IsReady(gpu[w.gpu]) /\ IsReady(w.val)
      /\ sched[w.gpu] = w.val
      /\ \/ /\ w.obj.state = "deleting"
            /\ w.val.free = Plus(gpu[w.gpu].free, Req[w.c])
         \/ /\ w.obj.state = "live" /\ Fits(gpu[w.gpu].free, Req[w.c])
            /\ w.val.free = Minus(gpu[w.gpu].free, Req[w.c])
            /\ conn[w.c].gpu = IF w.pc = "updateGPU" THEN w.gpu ELSE None
         \/ /\ w.obj.state = "live"
            /\ w.val = gpu[w.gpu] /\ conn[w.c].gpu = w.gpu

\* What the worker knows of the connection's binding.
WorkCalm ==
    /\ AtWork /\ w.obj.state = "live" =>
         /\ w.obj.gpu = None <=> w.obj.phase \in {"", "Pending"}
         /\ w.pc = "schedule" => w.obj.gpu = None
         /\ w.pc \in {"schedule", "getGPU"} => w.obj.gpu = conn[w.c].gpu
         /\ w.pc = "updateConn" /\ w.gpu = None => w.obj.gpu = None /\ conn[w.c].gpu = None
    /\ w.pc # "idle" /\ w.obj.state = "deleting" => w.fresh
    /\ w.pc = "updateGPU" \/ w.pc = "startWorker" => w.gpu # None
    /\ w.pc = "updateConn" /\ w.obj.state = "deleting" => w.gpu # None
    /\ w.pc \in {"addFinalizer", "schedule", "getGPU", "release"} => w.gpu = None
    /\ w.pc \in {"addFinalizer", "schedule", "getGPU", "startWorker"} =>
         (podCache[w.c].phase = "none" => pod[w.c].phase = "none")

\* A worker pod runs on the GPU that its connection is, or is about to be, bound to.
PodCalm(c) ==
    pod[c].phase # "none" =>
      \/ conn[c].state = "gone"
      \/ conn[c].gpu # None /\ conn[c].gpu = pod[c].gpu
      \/ /\ w.c = c /\ w.pc = "updateConn" /\ w.obj.state = "live"
         /\ w.gpu # None /\ w.gpu = pod[c].gpu

LedgerInv == /\ Kinds = {} /\ pool /\ DeletionInv /\ HandCalm /\ WorkCalm
             /\ \A g \in GPUs : GPUCalm(g)
             /\ \A c \in Conns : ConnCalm(c) /\ PodCalm(c)

================================================================================
