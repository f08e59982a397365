---------------------------- MODULE NodeProvisioning ----------------------------
(***************************************************************************)
(* How a GPUPool in provisioning mode obtains cloud instances.             *)
(*                                                                         *)
(* Modelled code: the pool reconciler (gpupool_controller.go) and its      *)
(* provisioner with one goroutine per new node                             *)
(* (gpupool_node_provision.go), the GPUNode reconciler with its deletion   *)
(* hook (gpunode_controller.go), the Node reconciler's binding of a        *)
(* Kubernetes node (node_controller.go) and the discovery job's write to a *)
(* GPUNode (cmd/nodediscovery/main.go).  The API server, kubelet and the   *)
(* cloud are external.                                                     *)
(*                                                                         *)
(* The pool and each GPUNode are sequences of versions, from the one the   *)
(* informer's cache shows to the one the API server holds.  A write names  *)
(* the version it was made from and is refused if that is not the current  *)
(* one; it then changes nothing, so a read of the cache followed by one    *)
(* write is a single step.  Capacity is counted in instances of the type   *)
(* the provisioner chooses.                                                *)
(***************************************************************************)
EXTENDS Naturals, Sequences, FiniteSets

CONSTANTS
    Nodes,      \* names of GPUNodes; a name is random and used once
    None,       \* no GPUNode
    MinNodes,   \* CapacityConfig.MinResources
    WarmNodes,  \* CapacityConfig.WarmResources
    MaxNodes,   \* CapacityConfig.MaxResources
    Kinds,      \* the kinds of disturbance that may happen
    MaxFaults,  \* bound on their number
    MaxLag      \* bound on the versions a cache is behind

\* "api": a call of the API server fails; "lost": it takes effect but its answer
\* is lost; "cloud": a call of the cloud fails; "answer": such a call takes effect
\* but its answer is lost; "get": a goroutine reads its
\* GPUNode before the cache has it; "panic": the termination of an instance that
\* could not be recorded fails; "crash": the operator restarts; "delete": a GPUNode
\* is deleted; "early": it is deleted before it has the finalizer; "deletePool":
\* the pool is deleted.
Faults == {"api", "lost", "cloud", "answer", "get", "panic", "crash", "delete", "early",
           "deletePool"}

ASSUME NodesAssumption    == None \notin Nodes /\ IsFiniteSet(Nodes)
ASSUME CapacityAssumption == MinNodes \in Nat /\ WarmNodes \in Nat /\ MaxNodes \in Nat
ASSUME FaultAssumption    == Kinds \subseteq Faults /\ MaxFaults \in Nat
ASSUME LagAssumption      == MaxLag \in Nat \ {0}

VARIABLES
    pool,       \* versions of the GPUPool
    node,       \* versions of each GPUNode
    inst,       \* cloud: the instance created for each GPUNode
    joined,     \* the GPUNodes whose instance has become a Kubernetes node
    job,        \* the discovery job of each GPUNode
    hyper,      \* phase of each GPUNode's hypervisor pod
    poolQueue,  \* whether the pool is in the pool controller's workqueue
    nodeQueue,  \* the GPUNode controller's workqueue
    pw,         \* the pool controller's worker
    go,         \* the provisioner's goroutines
    nw,         \* the GPUNode controller's worker
    seen,       \* the kinds of disturbance that have happened
    left        \* how many may still happen

queues  == <<poolQueue, nodeQueue>>
pods    == <<job, hyper>>
outside == <<inst, joined, pods>>
faults  == <<seen, left>>
workers == <<pw, go, nw>>
vars == <<pool, node, outside, queues, workers, faults>>

--------------------------------------------------------------------------------
(* Objects *)

\* total and running are what the status says of the pool's capacity and phase.
PoolObj == [state : {"live", "deleting", "gone"}, fin : BOOLEAN,
            total : Nat, running : BOOLEAN]
\* cap: the status shows the capacity; id: it names the cloud instance; k8s: it
\* names the Kubernetes node; ready: the phase is Running.
NodeObj == [state : {"none", "live", "deleting", "gone"}, fin : BOOLEAN,
            cap : BOOLEAN, id : BOOLEAN, k8s : BOOLEAN, ready : BOOLEAN]

NewPool == [state |-> "live", fin |-> FALSE, total |-> 0, running |-> FALSE]
NewNode(s) == [state |-> s, fin |-> FALSE, cap |-> FALSE, id |-> FALSE,
               k8s |-> FALSE, ready |-> FALSE]

\* The workers and goroutines with the copies of the objects they carry.
PoolSteps == {"idle", "refresh", "scale", "wait", "refreshAgain"}
GoSteps   == {"idle", "create", "status", "cloud", "get", "patch", "terminate",
              "done", "failed"}
NodeSteps == {"idle", "ready", "terminate", "drop"}

IdlePool == [pc |-> "idle", obj |-> NewPool]
IdleGo   == [n \in Nodes |-> [pc |-> "idle", obj |-> NewNode("none")]]
IdleNode == [pc |-> "idle", n |-> None, obj |-> NewNode("none")]

Newest(s)  == s[Len(s)]
Cached(n)  == Head(node[n])
Current(n) == Newest(node[n])
There(o)   == o.state \in {"live", "deleting"}
Fresh      == {n \in Nodes : Current(n).state = "none" /\ go[n].pc = "idle"}

Init ==
    /\ pool = <<NewPool>>
    /\ node = [n \in Nodes |-> <<NewNode("none")>>]
    /\ inst = [n \in Nodes |-> "none"]
    /\ joined = {}
    /\ job = [n \in Nodes |-> "none"]
    /\ hyper = [n \in Nodes |-> "none"]
    /\ poolQueue = TRUE
    /\ nodeQueue = {}
    /\ pw = IdlePool
    /\ go = IdleGo
    /\ nw = IdleNode
    /\ seen = {}
    /\ left = MaxFaults

--------------------------------------------------------------------------------
(* API server and informers *)

Push(s, o) == IF o = Newest(s) THEN s ELSE Append(s, o)
PutPool(o) == Len(pool) <= MaxLag /\ pool' = Push(pool, o)
Put(n, o)  == Len(node[n]) <= MaxLag /\ node' = [node EXCEPT ![n] = Push(@, o)]

Spend(f) == f \in Kinds /\ left > 0 /\ left' = left - 1 /\ seen' = seen \cup {f}

\* The pool controller takes every change of a GPUNode it owns, the GPUNode
\* controller only its creation and deletion (GenerationChangedPredicate).
NodeEvent(n) ==
    /\ Len(node[n]) > 1
    /\ node' = [node EXCEPT ![n] = Tail(@)]
    /\ poolQueue' = TRUE
    /\ nodeQueue' = IF node[n][2].state # Cached(n).state THEN nodeQueue \cup {n}
                    ELSE nodeQueue
    /\ UNCHANGED <<pool, outside, workers, faults>>

PoolEvent ==
    /\ Len(pool) > 1
    /\ pool' = Tail(pool)
    /\ poolQueue' = (poolQueue \/ pool[2].state # pool[1].state)
    /\ UNCHANGED <<node, outside, nodeQueue, workers, faults>>

--------------------------------------------------------------------------------
(* GPUPoolReconciler.Reconcile *)

PoolReturn == pw' = IdlePool /\ UNCHANGED poolQueue
PoolRetry  == pw' = IdlePool /\ poolQueue' = TRUE

\* The reads, and HandleFinalizer with its empty hook.
PoolStart ==
    /\ pw.pc = "idle" /\ poolQueue
    /\ LET p == Head(pool)
           ok == p = Newest(pool) IN
       \/ /\ p.state = "live" /\ p.fin
          /\ pw' = [pc |-> "refresh", obj |-> p]
          /\ poolQueue' = FALSE /\ UNCHANGED pool
       \/ /\ p.state = "live" /\ ~p.fin /\ ok
          /\ PutPool([p EXCEPT !.fin = TRUE])
          /\ pw' = [pc |-> "refresh", obj |-> [p EXCEPT !.fin = TRUE]]
          /\ poolQueue' = FALSE
       \/ /\ p.state = "deleting" /\ p.fin /\ ok
          /\ PutPool([p EXCEPT !.fin = FALSE, !.state = "gone"])
          /\ poolQueue' = FALSE /\ UNCHANGED pw
       \/ /\ p.state = "gone"
          /\ poolQueue' = FALSE /\ UNCHANGED <<pool, pw>>
    /\ UNCHANGED <<node, outside, nodeQueue, go, nw, faults>>

\* Mutant of Refreshed: GPUNodes that are being deleted count against the others.
RefreshedLess(p) ==
    LET live == {n \in Nodes : Cached(n).state = "live"}
        out  == {n \in Nodes : Cached(n).state = "deleting"} IN
    [p EXCEPT !.total   = Cardinality({n \in live : Cached(n).cap}) - Cardinality(out),
              !.running = \A n \in live : Cached(n).ready]

\* reconcilePoolCurrentCapacityAndReadiness: what the cached GPUNodes add up to.
Refreshed(p) ==
    LET list == {n \in Nodes : There(Cached(n))} IN
    [p EXCEPT !.total   = Cardinality({n \in list : Cached(n).cap}),
              !.running = \A n \in list : Cached(n).ready]

\* The refreshed pool is a second copy: pw.obj, which decides on scaling up,
\* keeps the status that was read at the start.
Refresh ==
    /\ pw.pc = "refresh"
    /\ IF Head(pool) = Newest(pool) /\ There(Head(pool))
       THEN /\ PutPool(Refreshed(Head(pool)))
            /\ pw' = [pw EXCEPT !.pc = "scale"]
            /\ UNCHANGED poolQueue
       ELSE PoolRetry /\ UNCHANGED pool
    /\ UNCHANGED <<node, outside, nodeQueue, go, nw, faults>>

\* The gap to be filled.  Nothing writes the pool's AvailableTFlops and
\* AvailableVRAM, so that the gap to the warm-up capacity is all of it.
Gap(p) == IF MinNodes > p.total THEN MinNodes - p.total
          ELSE IF p.running THEN WarmNodes ELSE 0
ShouldScaleUp(p) == Gap(p) > 0 /\ p.total < MaxNodes

\* reconcilePoolCapacityWithProvisioner up to the start of the goroutines.
ScaleUp ==
    /\ pw.pc = "scale"
    /\ IF ShouldScaleUp(pw.obj)
       THEN \E S \in SUBSET Fresh :
              /\ Cardinality(S) = Gap(pw.obj)
              /\ go' = [n \in Nodes |-> IF n \in S THEN [go[n] EXCEPT !.pc = "create"]
                                        ELSE go[n]]
              /\ pw' = [pw EXCEPT !.pc = "wait"]
              /\ UNCHANGED poolQueue
       ELSE PoolReturn /\ UNCHANGED go
    /\ UNCHANGED <<pool, node, outside, nodeQueue, nw, faults>>

Running(n) == go[n].pc \notin {"idle", "done", "failed"}

\* wg.Wait
WaitAll ==
    /\ pw.pc = "wait"
    /\ \A n \in Nodes : ~Running(n)
    /\ IF \E n \in Nodes : go[n].pc = "failed" THEN PoolRetry
       ELSE pw' = [pw EXCEPT !.pc = "refreshAgain"] /\ UNCHANGED poolQueue
    /\ go' = IdleGo
    /\ UNCHANGED <<pool, node, outside, nodeQueue, nw, faults>>

\* Requeued after three seconds, or at once if the write is refused.
RefreshAgain ==
    /\ pw.pc = "refreshAgain"
    /\ PoolRetry
    /\ IF Head(pool) = Newest(pool) /\ There(Head(pool))
       THEN PutPool(Refreshed(Head(pool))) ELSE UNCHANGED pool
    /\ UNCHANGED <<node, outside, nodeQueue, go, nw, faults>>

\* A read or write of the reconciler, or the choice of instances, fails.
PoolAbort ==
    /\ pw.pc \in {"refresh", "scale", "refreshAgain"}
    /\ Spend("api") /\ PoolRetry
    /\ UNCHANGED <<pool, node, outside, nodeQueue, go, nw>>

--------------------------------------------------------------------------------
(* The provisioner's goroutine for one new GPUNode *)

Go(n, pc, o) == go' = [go EXCEPT ![n] = [pc |-> pc, obj |-> o]]
Step(n, pc)  == Go(n, pc, go[n].obj)
goUnchanged  == <<pool, joined, pods, queues, pw, nw>>

Create(n) ==
    /\ go[n].pc = "create"
    /\ Put(n, NewNode("live"))
    /\ Go(n, "status", NewNode("live"))
    /\ UNCHANGED <<inst, faults, goUnchanged>>

\* InitializeStatus and the write of it, from the copy that Create returned.
WriteStatus(n) ==
    /\ go[n].pc = "status"
    /\ IF go[n].obj = Current(n)
       THEN /\ Put(n, [go[n].obj EXCEPT !.cap = TRUE])
            /\ Step(n, "cloud")
       ELSE Step(n, "failed") /\ UNCHANGED node
    /\ UNCHANGED <<inst, faults, goUnchanged>>

CreateNode(n) ==
    /\ go[n].pc = "cloud"
    /\ \/ inst' = [inst EXCEPT ![n] = "running"] /\ Step(n, "get") /\ UNCHANGED faults
       \/ Spend("cloud") /\ Step(n, "failed") /\ UNCHANGED inst
       \/ Spend("answer") /\ inst' = [inst EXCEPT ![n] = "running"] /\ Step(n, "failed")
    /\ UNCHANGED <<node, goUnchanged>>

\* Client.Get reads the cache.
GetNode(n) ==
    /\ go[n].pc = "get"
    /\ \/ /\ There(Cached(n))
          /\ Go(n, "patch", Cached(n)) /\ UNCHANGED faults
       \/ /\ Cached(n).state = "gone"
          /\ Step(n, "failed") /\ UNCHANGED faults
       \/ /\ Cached(n).state = "none" /\ Spend("get")
          /\ Step(n, "failed")
    /\ UNCHANGED <<node, inst, goUnchanged>>

\* Mutants of PatchNode: no undoing of the creation; undoing it in any case.
PatchNodeOnly(n) ==
    /\ go[n].pc = "patch"
    /\ IF go[n].obj = Current(n)
       THEN Put(n, [go[n].obj EXCEPT !.id = TRUE]) /\ Step(n, "done")
       ELSE Step(n, "failed") /\ UNCHANGED node
    /\ UNCHANGED <<inst, faults, goUnchanged>>

PatchNodeUndone(n) ==
    /\ go[n].pc = "patch"
    /\ IF go[n].obj = Current(n) THEN Put(n, [go[n].obj EXCEPT !.id = TRUE])
       ELSE UNCHANGED node
    /\ Step(n, "terminate")
    /\ UNCHANGED <<inst, faults, goUnchanged>>

PatchNode(n) ==
    /\ go[n].pc = "patch"
    /\ IF go[n].obj = Current(n)
       THEN Put(n, [go[n].obj EXCEPT !.id = TRUE]) /\ Step(n, "done")
       ELSE Step(n, "terminate") /\ UNCHANGED node
    /\ UNCHANGED <<inst, faults, goUnchanged>>

TerminateNew(n) ==
    /\ go[n].pc = "terminate"
    /\ inst' = [inst EXCEPT ![n] = "terminated"]
    /\ Step(n, "failed")
    /\ UNCHANGED <<node, faults, goUnchanged>>

\* A write of the goroutine fails, or has its effect and loses its answer.
GoAbort(n) ==
    /\ go[n].pc \in {"create", "status", "patch"}
    /\ Step(n, IF go[n].pc = "patch" THEN "terminate" ELSE "failed")
    /\ \/ Spend("api") /\ UNCHANGED node
       \/ /\ Spend("lost")
          /\ go[n].pc # "create" => go[n].obj = Current(n)
          /\ Put(n, IF go[n].pc = "create" THEN NewNode("live")
                    ELSE IF go[n].pc = "status" THEN [go[n].obj EXCEPT !.cap = TRUE]
                    ELSE [go[n].obj EXCEPT !.id = TRUE])
    /\ UNCHANGED <<inst, goUnchanged>>

--------------------------------------------------------------------------------
(* GPUNodeReconciler.Reconcile, NodeReconciler.Reconcile *)

\* Mutant of NodeRetry: an error ends the matter.
NodeForget(n) == nw' = IdleNode /\ nodeQueue' = nodeQueue

NodeReturn   == nw' = IdleNode /\ UNCHANGED nodeQueue
NodeRetry(n) == nw' = IdleNode /\ nodeQueue' = nodeQueue \cup {n}
nwUnchanged  == <<pool, joined, poolQueue, pw, go>>

NodeStart(n) ==
    /\ nw.pc = "idle" /\ n \in nodeQueue
    /\ LET o == Cached(n)
           At(pc, c) == nw' = [pc |-> pc, n |-> n, obj |-> c] IN
       /\ \/ /\ o.state = "deleting" /\ o.fin
             /\ At("terminate", o) /\ UNCHANGED node
          \/ /\ o.state = "live" /\ o.fin
             /\ At("ready", o) /\ UNCHANGED node
          \/ /\ o.state = "live" /\ ~o.fin /\ o = Current(n)
             /\ Put(n, [o EXCEPT !.fin = TRUE])
             /\ At("ready", [o EXCEPT !.fin = TRUE])
          \/ o.state \in {"none", "gone"} /\ UNCHANGED <<nw, node>>
       /\ nodeQueue' = nodeQueue \ {n}
    /\ UNCHANGED <<inst, pods, faults, nwUnchanged>>

\* Mutant of Terminate: the answer of the cloud is not looked at.
TerminateUnchecked(n) ==
    /\ nw.pc = "terminate" /\ nw.n = n
    /\ \/ ~nw.obj.id /\ NodeRetry(n) /\ UNCHANGED <<inst, faults>>
       \/ /\ nw.obj.id
          /\ nw' = [nw EXCEPT !.pc = "drop"]
          /\ \/ inst' = [inst EXCEPT ![n] = "terminated"] /\ UNCHANGED faults
             \/ Spend("cloud") /\ UNCHANGED inst
          /\ UNCHANGED nodeQueue
    /\ UNCHANGED <<node, pods, nwUnchanged>>

\* The deletion hook: an error if the status names no instance.
Terminate(n) ==
    /\ nw.pc = "terminate" /\ nw.n = n
    /\ \/ /\ ~nw.obj.id
          /\ NodeRetry(n) /\ UNCHANGED <<inst, faults>>
       \/ /\ nw.obj.id
          /\ inst' = [inst EXCEPT ![n] = "terminated"]
          /\ nw' = [nw EXCEPT !.pc = "drop"]
          /\ UNCHANGED <<nodeQueue, faults>>
       \/ nw.obj.id /\ Spend("cloud") /\ NodeRetry(n) /\ UNCHANGED inst
       \/ /\ nw.obj.id /\ Spend("answer") /\ NodeRetry(n)
          /\ inst' = [inst EXCEPT ![n] = "terminated"]
    /\ UNCHANGED <<node, pods, nwUnchanged>>

DropFinalizer(n) ==
    /\ nw.pc = "drop" /\ nw.n = n
    /\ IF nw.obj = Current(n)
       THEN Put(n, [nw.obj EXCEPT !.state = "gone", !.fin = FALSE]) /\ NodeReturn
       ELSE NodeRetry(n) /\ UNCHANGED node
    /\ UNCHANGED <<inst, pods, faults, nwUnchanged>>

\* Both create what is not there.
reconcileNodeDiscoveryJob(n) ==
    job' = [job EXCEPT ![n] = IF @ = "none" THEN "active" ELSE @]
reconcileHypervisorPod(n) ==
    hyper' = [hyper EXCEPT ![n] = IF @ = "none" THEN "Pending" ELSE @]

\* Discovery job and hypervisor pod are created once the Kubernetes node is
\* known; the phase follows the pod's, if the cache has the pod already.
MakeReady(n) ==
    /\ nw.pc = "ready" /\ nw.n = n
    /\ \/ /\ ~nw.obj.k8s \/ ~There(Head(pool))
          /\ NodeRetry(n) /\ UNCHANGED <<node, pods>>
       \/ /\ nw.obj.k8s /\ There(Head(pool))
          /\ reconcileNodeDiscoveryJob(n) /\ reconcileHypervisorPod(n)
          /\ \/ /\ nw.obj = Current(n)
                /\ Put(n, [nw.obj EXCEPT !.ready = hyper'[n] = "Running"])
                /\ IF hyper'[n] = "Running" THEN NodeReturn ELSE NodeRetry(n)
             \/ /\ nw.obj # Current(n) \/ hyper[n] = "none"
                /\ NodeRetry(n) /\ UNCHANGED node
    /\ UNCHANGED <<inst, faults, nwUnchanged>>

\* A call of the GPUNode controller fails.
NodeAbort(n) ==
    /\ nw.pc \in {"ready", "terminate", "drop"} /\ nw.n = n
    /\ Spend("api") /\ NodeRetry(n)
    /\ UNCHANGED <<node, inst, pods, nwUnchanged>>

\* The Node reconciler is called again until its write of the GPUNode succeeds.
BindNode(n) ==
    /\ n \in joined
    /\ There(Cached(n)) /\ Cached(n) = Current(n) /\ ~Cached(n).k8s
    /\ Put(n, [Cached(n) EXCEPT !.k8s = TRUE])
    /\ UNCHANGED <<pool, outside, queues, workers, faults>>

--------------------------------------------------------------------------------
(* Surroundings *)

\* The discovery job, which reads the API server and not a cache.
Discover(n) ==
    /\ job[n] = "active" /\ inst[n] = "running"
    /\ There(Current(n))
    /\ Put(n, [Current(n) EXCEPT !.cap = TRUE, !.k8s = TRUE, !.ready = TRUE])
    /\ job' = [job EXCEPT ![n] = "done"]
    /\ UNCHANGED <<pool, inst, joined, hyper, queues, workers, faults>>

Join(n) == /\ inst[n] = "running" /\ n \notin joined
           /\ joined' = joined \cup {n}
           /\ UNCHANGED <<pool, node, inst, pods, queues, workers, faults>>

\* The pod runs, and the GPUNode controller's cache shows it.
RunHypervisor(n) ==
    /\ hyper[n] = "Pending" /\ inst[n] = "running"
    /\ hyper' = [hyper EXCEPT ![n] = "Running"]
    /\ nodeQueue' = nodeQueue \cup {n}
    /\ UNCHANGED <<pool, node, inst, joined, job, poolQueue, workers, faults>>

\* By a user, by compaction, or by the garbage collector once the pool is gone.
DeleteNode(n) ==
    /\ Current(n).state = "live"
    /\ \/ /\ Current(n).fin /\ Spend("delete")
          /\ Put(n, [Current(n) EXCEPT !.state = "deleting"])
       \/ /\ ~Current(n).fin /\ Spend("early")
          /\ Put(n, [Current(n) EXCEPT !.state = "gone"])
    /\ UNCHANGED <<pool, outside, queues, workers>>

DeletePool ==
    /\ Newest(pool).state = "live"
    /\ PutPool([Newest(pool) EXCEPT !.state = IF Newest(pool).fin THEN "deleting"
                                              ELSE "gone"])
    /\ Spend("deletePool")
    /\ UNCHANGED <<node, outside, queues, workers>>

\* The operator restarts: the informers list everything and all of it is queued.
\* A goroutine whose TerminateNode fails panics, which has the same effect.
Crash ==
    /\ \/ Spend("crash")
       \/ (\E n \in Nodes : go[n].pc = "terminate") /\ Spend("panic")
    /\ pool' = <<Newest(pool)>>
    /\ node' = [n \in Nodes |-> <<Current(n)>>]
    /\ poolQueue' = TRUE
    /\ nodeQueue' = {n \in Nodes : There(Current(n))}
    /\ pw' = IdlePool /\ go' = IdleGo /\ nw' = IdleNode
    /\ UNCHANGED outside

--------------------------------------------------------------------------------

PoolStep == PoolStart \/ Refresh \/ ScaleUp \/ WaitAll \/ RefreshAgain
GoStep(n) == \/ Create(n) \/ WriteStatus(n) \/ CreateNode(n) \/ GetNode(n)
             \/ PatchNode(n) \/ TerminateNew(n)
NodeStep(n) == Terminate(n) \/ DropFinalizer(n) \/ MakeReady(n)

Next == \/ PoolStep \/ PoolAbort \/ PoolEvent \/ DeletePool \/ Crash
        \/ \E n \in Nodes : \/ GoStep(n) \/ GoAbort(n)
                            \/ NodeStart(n) \/ NodeStep(n) \/ NodeAbort(n)
                            \/ NodeEvent(n) \/ BindNode(n) \/ Discover(n) \/ Join(n)
                            \/ RunHypervisor(n) \/ DeleteNode(n)

Spec == Init /\ [][Next]_vars

\* Workers, goroutines, informers and jobs keep running, and a workqueue passes
\* nobody over for ever.  Nothing makes an instance join or anybody delete.
Fairness ==
    /\ WF_vars(PoolStep) /\ WF_vars(PoolEvent)
    /\ \A n \in Nodes :
         /\ WF_vars(GoStep(n)) /\ SF_vars(NodeStart(n)) /\ WF_vars(NodeStep(n))
         /\ WF_vars(NodeEvent(n)) /\ WF_vars(BindNode(n)) /\ WF_vars(Discover(n))
         /\ WF_vars(RunHypervisor(n))

FairSpec == Spec /\ Fairness

--------------------------------------------------------------------------------
(* Properties *)

\* Every variable keeps its type.
TypeOK ==
    /\ pool \in Seq(PoolObj) /\ pool # <<>>
    /\ \A n \in Nodes : node[n] \in Seq(NodeObj) /\ node[n] # <<>>
    /\ inst \in [Nodes -> {"none", "running", "terminated"}]
    /\ joined \subseteq Nodes
    /\ job \in [Nodes -> {"none", "active", "done"}]
    /\ hyper \in [Nodes -> {"none", "Pending", "Running"}]
    /\ poolQueue \in BOOLEAN /\ nodeQueue \subseteq Nodes
    /\ pw \in [pc : PoolSteps, obj : PoolObj]
    /\ go \in [Nodes -> [pc : GoSteps, obj : NodeObj]]
    /\ nw \in [pc : NodeSteps, n : Nodes \cup {None}, obj : NodeObj]
    /\ seen \subseteq Kinds /\ left \in 0..MaxFaults

Recorded(n) == There(Current(n)) /\ Current(n).id
InHand(n)   == go[n].pc \in {"get", "patch", "terminate"}

\* "Create node and update status must be atomic operation": an instance that
\* runs is named by its GPUNode, or the goroutine that created it has it in hand.
NoOrphan == \A n \in Nodes : inst[n] = "running" => Recorded(n) \/ InHand(n)

\* The same as long as none of the events happens that the provisioner has no
\* answer to: refused, failed and unanswered writes, calls that the cloud rejects and
\* deletions at any moment leave no instance behind.
OrphansExplained ==
    seen \cap {"answer", "get", "panic", "crash", "early"} = {} => NoOrphan

\* An instance that a GPUNode names is not terminated before the GPUNode is
\* deleted: undoing a creation never hits one that has been recorded, unless the
\* answer of the recording write was lost.
RecordedRuns ==
    "lost" \notin seen =>
      \A n \in Nodes : Current(n).state = "live" /\ Current(n).id
                        => inst[n] = "running"

\* The finalizer of a GPUNode is dropped only once the instance it names has been
\* terminated, although the hook works on a cached copy, the termination can fail
\* and other controllers write the object meanwhile.
TerminatedBeforeGone ==
    [][\A n \in Nodes : Current(n).fin /\ Current(n).id /\ Current(n)'.state = "gone"
                          => inst[n] = "terminated"]_vars

\* A deleted GPUNode that names its instance goes away, as long as the lookups of the
\* cluster and of its vendor fail only now and then (gpunode_controller.go:74-96).
NodeDeletionCompletes ==
    \A n \in Nodes : Current(n).state = "deleting" /\ Current(n).id
                        ~> Current(n).state = "gone"

\* "the GPUNode will be deleted, then the Pool reconcile loop can scale up and
\* meet the capacity constraint again": the capacity of a pool does not stay below
\* its minimum (while there are names for new GPUNodes).
CapacityMet ==
    []<>(\/ Newest(pool).state # "live" \/ Fresh = {}
         \/ Newest(pool).total >= MinNodes)

--------------------------------------------------------------------------------
(* What the proofs rest on *)

\* c is the version o of a GPUNode, or one that came after it.
Follows(o, c) ==
    /\ o.state # "none" => c.state # "none"
    /\ o.state \in {"deleting", "gone"} => c.state \in {"deleting", "gone"}
    /\ o.state = "gone" => c.state = "gone"
    /\ o.id => c.id

\* Whatever a cache shows, and has still to show, came before the current version.
VersionsFollow ==
    \A n \in Nodes : \A i \in DOMAIN node[n] : Follows(node[n][i], Current(n))

\* What a goroutine knows of its instance and its GPUNode at each step.  Nobody but
\* the goroutine writes the instance's id.
GoKnows(n) ==
    /\ Current(n).state = "none"
         => inst[n] = "none" /\ ~Current(n).id /\ go[n].pc \in {"idle", "create", "failed"}
    /\ go[n].pc = "create" => Current(n).state = "none"
    /\ go[n].pc \in {"status", "cloud"} => inst[n] = "none" /\ ~Current(n).id
    /\ go[n].pc \in {"get", "patch"} => inst[n] = "running" /\ ~Current(n).id
    /\ go[n].pc = "patch" => There(go[n].obj)
    /\ go[n].pc = "terminate" /\ "lost" \notin seen => ~Current(n).id

\* A GPUNode that is gone has lost its finalizer, and had an instance unless it was
\* deleted before it had the finalizer.
GoneKnows(n) ==
    Current(n).state = "gone" => ~Current(n).fin /\ ("early" \notin seen => Current(n).id)

\* RecordedRuns and OrphansExplained for one GPUNode.
InstanceKnows(n) ==
    /\ "lost" \notin seen /\ Current(n).state = "live" /\ Current(n).id
         => inst[n] = "running"
    /\ seen \cap {"answer", "get", "panic", "crash", "early"} = {} /\ inst[n] = "running"
         => Recorded(n) \/ InHand(n)

\* What the GPUNode controller knows of the GPUNode whose copy it carries.
WorkerKnows ==
    nw.pc # "idle" =>
      /\ nw.n \in Nodes /\ Follows(nw.obj, Current(nw.n))
      /\ nw.pc = "ready" => nw.obj.state = "live"
      /\ nw.pc \in {"terminate", "drop"} => nw.obj.state = "deleting"
      /\ nw.pc = "drop" => nw.obj.id /\ inst[nw.n] = "terminated"

ProvisionInv ==
    /\ TypeOK /\ node \in [Nodes -> Seq(NodeObj)]
    /\ VersionsFollow /\ WorkerKnows
    /\ \A n \in Nodes : GoKnows(n) /\ GoneKnows(n) /\ InstanceKnows(n)

=================================================================================
