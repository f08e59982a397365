--------------------------- MODULE ClusterController ---------------------------
(***************************************************************************)
(* The reconciler of a TensorFusionCluster.                                *)
(*                                                                         *)
(* Modelled code: tensorfusioncluster_controller.go, the phase and status  *)
(* functions of tensorfusioncluster_funcs.go, and what                     *)
(* cloudprovider.GetProvider and the providers' TestConnection do.  The    *)
(* API server, the pool controller and the clouds are external.            *)
(*                                                                         *)
(* The cluster and each GPUPool are sequences of versions, from the one in *)
(* the informer's cache to the one the API server holds.  The worker       *)
(* remembers whether the copy it carries is still the current version: a   *)
(* write from an older one is refused.  Conditions, totals and the text of *)
(* events are left out; no decision reads them.                            *)
(***************************************************************************)
EXTENDS Naturals, Sequences, FiniteSets

CONSTANTS
    Pools,      \* names of GPUPools
    Templates,  \* values of GPUPoolDefinition.SpecTemplate
    Vendors,    \* values of ComputingVendorConfig
    None,       \* no template, no vendor, no client
    TypeOf,     \* the Type of each vendor configuration
    Rejected,   \* the configurations whose credentials the cloud refuses
    Specs,      \* the specifications users give the cluster
    Kinds,      \* the kinds of disturbance that may happen
    MaxFaults,  \* bound on their number
    MaxEdits,   \* bound on the edits of the specification
    MaxFlips,   \* bound on the changes of a pool's phase
    MaxRetry,   \* where the model stops counting retries
    MaxLag      \* bound on the versions a cache is behind

\* "api": a call of the API server fails; "lost": it takes effect but its answer
\* is lost; "cloud": the test of a connection fails; "crash": the operator
\* restarts; "late": a reconcile starts before the cache has the cluster's last
\* version; "delete": the cluster is deleted; "meddle": a user deletes or edits a
\* GPUPool.
Faults == {"api", "lost", "cloud", "crash", "late", "delete", "meddle"}

\* TensorFusionClusterSpec.
SpecType == [pools : [Pools -> Templates \cup {None}], vendor : Vendors \cup {None}]

ASSUME NoneAssumption   == None \notin Templates \cup Vendors
ASSUME VendorAssumption == TypeOf \in [Vendors -> STRING] /\ Rejected \subseteq Vendors
ASSUME SpecAssumption   == Specs \subseteq SpecType /\ Specs # {}
ASSUME FaultAssumption  == Kinds \subseteq Faults /\ MaxFaults \in Nat
ASSUME BoundAssumption  == /\ MaxEdits \in Nat /\ MaxFlips \in Nat
                           /\ MaxRetry \in Nat \ {0} /\ MaxLag \in Nat \ {0}

VARIABLES
    cluster,    \* versions of the TensorFusionCluster
    pool,       \* versions of each GPUPool
    client,     \* the configuration of alibaba's cachedClient
    queue,      \* whether the cluster is in the workqueue
    w,          \* the worker with the local variables of Reconcile
    tested,     \* the configurations with which a connection has been tested
    late,       \* whether a reconcile has started from an old version
    left        \* how many disturbances, edits and phase changes may still happen

vars == <<cluster, pool, client, queue, w, tested, late, left>>

--------------------------------------------------------------------------------
(* Objects *)

ClusterObj == [state : {"live", "deleting", "gone"}, fin : BOOLEAN, spec : SpecType,
               phase : {"", "Pending", "Updating", "Running"}, retry : 0..MaxRetry,
               hash : Vendors \cup {None},
               ready : SUBSET Pools, notReady : SUBSET Pools]
PoolObj == [state : {"none", "live", "deleting", "gone"},
            spec : Templates \cup {None}, running : BOOLEAN]

NewCluster(s) == [state |-> "live", fin |-> FALSE, spec |-> s, phase |-> "",
                  retry |-> 0, hash |-> None, ready |-> {}, notReady |-> {}]
NewPool(t) == [state |-> "live", spec |-> t, running |-> FALSE]
NoPool     == [state |-> "none", spec |-> None, running |-> FALSE]

\* What is to be done to a pool; "stale" is an update from an old version.
Calls == {"none", "create", "update", "stale", "delete"}
Steps == {"idle", "phase", "list", "pools", "vendor", "unreachable", "status",
          "check", "refresh"}
NoCalls == [p \in Pools |-> "none"]
Idle == [pc |-> "idle", obj |-> NewCluster(CHOOSE s \in Specs : TRUE), fresh |-> FALSE,
         todo |-> NoCalls, changed |-> FALSE, failed |-> FALSE]

Newest(s)  == s[Len(s)]
Current(p) == Newest(pool[p])
Cached(p)  == Head(pool[p])
There(o)   == o.state \in {"live", "deleting"}
Wanted(s)  == {p \in Pools : s.pools[p] # None}
\* mustListOwnedGPUPools, and the same list where it is written out.
Owned      == {p \in Pools : There(Cached(p))}

Init ==
    /\ \E s \in Specs : cluster = <<NewCluster(s)>>
    /\ pool = [p \in Pools |-> <<NoPool>>]
    /\ client = None
    /\ queue = TRUE
    /\ w = Idle
    /\ tested = {}
    /\ late = FALSE
    /\ left = [faults |-> MaxFaults, edits |-> MaxEdits, flips |-> MaxFlips]

--------------------------------------------------------------------------------
(* API server and informers *)

Push(s, o) == IF o = Newest(s) THEN s ELSE Append(s, o)
PutCluster(o) == Len(cluster) <= MaxLag /\ cluster' = Push(cluster, o)
PutPool(p, o) == Len(pool[p]) <= MaxLag /\ pool' = [pool EXCEPT ![p] = Push(@, o)]

Spend(f) == f \in Kinds /\ left.faults > 0 /\ left' = [left EXCEPT !.faults = @ - 1]

\* A change by somebody else makes the worker's copy of the object an old one.
OutdateCluster == w' = [w EXCEPT !.fresh = FALSE]
OutdatePool(p) == w' = [w EXCEPT !.todo[p] = IF @ = "update" THEN "stale" ELSE @]

\* For(&TensorFusionCluster{}) with GenerationChangedPredicate.
ClusterEvent ==
    /\ Len(cluster) > 1
    /\ cluster' = Tail(cluster)
    /\ queue' = \/ queue
                \/ cluster[2].spec # cluster[1].spec
                \/ cluster[2].state # cluster[1].state
    /\ UNCHANGED <<pool, client, w, tested, late, left>>

\* Mutant of PoolEvent: changes of a pool's status are filtered out as well.
PoolEventGeneration(p) ==
    /\ Len(pool[p]) > 1
    /\ pool' = [pool EXCEPT ![p] = Tail(@)]
    /\ queue' = (queue \/ pool[p][2].spec # pool[p][1].spec
                       \/ pool[p][2].state # pool[p][1].state)
    /\ UNCHANGED <<cluster, client, w, tested, late, left>>

\* Owns(&GPUPool{}): every change of a pool.
PoolEvent(p) ==
    /\ Len(pool[p]) > 1
    /\ pool' = [pool EXCEPT ![p] = Tail(@)]
    /\ queue' = TRUE
    /\ UNCHANGED <<cluster, client, w, tested, late, left>>

--------------------------------------------------------------------------------
(* Reconcile *)

Return == w' = Idle /\ UNCHANGED queue
\* An error, Requeue and RequeueAfter.
Retry  == w' = Idle /\ queue' = TRUE
Goto(pc, o) == w' = [w EXCEPT !.pc = pc, !.obj = o] /\ UNCHANGED queue

\* The read of the cluster and HandleFinalizer, whose hook does nothing.
Start ==
    /\ w.pc = "idle" /\ queue
    /\ LET o == Head(cluster)
           now == Len(cluster) = 1
           At(c) == /\ w' = [Idle EXCEPT !.pc = IF c.phase = "" THEN "phase" ELSE "list",
                                         !.obj = c, !.fresh = now]
                    /\ queue' = FALSE IN
       /\ IF now THEN UNCHANGED <<late, left>> ELSE Spend("late") /\ late' = TRUE
       /\ \/ o.state = "gone" /\ queue' = FALSE /\ UNCHANGED <<cluster, w>>
          \/ /\ o.state = "deleting" /\ now
             /\ PutCluster([o EXCEPT !.fin = FALSE, !.state = "gone"])
             /\ queue' = FALSE /\ UNCHANGED w
          \/ o.state = "live" /\ o.fin /\ At(o) /\ UNCHANGED cluster
          \/ /\ o.state = "live" /\ ~o.fin /\ now
             /\ PutCluster([o EXCEPT !.fin = TRUE])
             /\ At([o EXCEPT !.fin = TRUE])
          \/ /\ o.state = "deleting" \/ (o.state = "live" /\ ~o.fin)
             /\ ~now /\ Retry /\ UNCHANGED cluster
    /\ UNCHANGED <<pool, client, tested>>

SetAsPending(o)  == [o EXCEPT !.phase = "Pending"]
SetAsUpdating(o) == [o EXCEPT !.phase = "Updating"]
SetAsReady(o)    == [o EXCEPT !.phase = "Running"]

\* updateTFClusterStatus: the merge patch carries the version it was made from.
updateTFClusterStatus(o) ==
    IF w.fresh THEN PutCluster(o) ELSE UNCHANGED cluster

\* A new cluster is Pending; the next loop creates the resources.
Phase ==
    /\ w.pc = "phase"
    /\ updateTFClusterStatus(SetAsPending(w.obj))
    /\ Retry
    /\ UNCHANGED <<pool, client, tested, late, left>>

\* Mutant of Call: pools that the specification no longer has are kept.
CallKeep(s, p) ==
    IF s.pools[p] = None THEN "none"
    ELSE IF p \notin Owned THEN "create"
    ELSE IF Cached(p).spec = s.pools[p] THEN "none"
    ELSE IF Len(pool[p]) = 1 THEN "update" ELSE "stale"

\* reconcileGPUPool: what the cached pools lack of the specification.
Call(s, p) ==
    IF s.pools[p] = None THEN IF p \in Owned THEN "delete" ELSE "none"
    ELSE IF p \notin Owned THEN "create"
    ELSE IF Cached(p).spec = s.pools[p] THEN "none"
    ELSE IF Len(pool[p]) = 1 THEN "update" ELSE "stale"

ListPools ==
    /\ w.pc = "list"
    /\ LET todo == [p \in Pools |-> Call(w.obj.spec, p)] IN
       w' = [w EXCEPT !.pc = "pools", !.todo = todo, !.changed = todo # NoCalls]
    /\ UNCHANGED <<cluster, pool, client, queue, tested, late, left>>

\* The call succeeds if the API server still has the pool as the cache showed it.
Accepted(p) ==
    \/ w.todo[p] = "create" /\ ~There(Current(p))
    \/ w.todo[p] = "update"
    \/ w.todo[p] = "delete" /\ There(Current(p))

\* A pool that the pool controller has not seen has no finalizer and goes at once.
Deleted(p) == {[Current(p) EXCEPT !.state = s] :
                 s \in IF Current(p).state = "live" THEN {"deleting", "gone"}
                       ELSE {"deleting"}}

Effect(p) ==
    \E o \in IF w.todo[p] = "create" THEN {NewPool(w.obj.spec.pools[p])}
             ELSE IF w.todo[p] = "update"
             THEN {[Current(p) EXCEPT !.spec = w.obj.spec.pools[p]]}
             ELSE Deleted(p) : PutPool(p, o)

\* One Create, Update or Delete; an error is kept and the others go on.
CallPool(p) ==
    /\ w.pc = "pools" /\ w.todo[p] # "none"
    /\ IF Accepted(p) THEN Effect(p) ELSE UNCHANGED pool
    /\ w' = [w EXCEPT !.todo[p] = "none", !.failed = @ \/ ~Accepted(p)]
    /\ UNCHANGED <<cluster, client, queue, tested, late, left>>

\* The first of the errors is returned, whatever else has been changed.
EndPools ==
    /\ w.pc = "pools" /\ w.todo = NoCalls
    /\ IF w.failed THEN Retry ELSE Goto("vendor", w.obj)
    /\ UNCHANGED <<cluster, pool, client, tested, late, left>>

\* What follows reconcileCloudVendorConnection.
Continue(o, changed) ==
    IF changed THEN Goto("status", SetAsUpdating(o))
    ELSE Goto(IF o.phase = "Updating" THEN "check" ELSE "refresh", o)

\* GetProvider: the configuration whose credentials the provider will use.
\* Alibaba's client is created once; its credentials are tested then, and a second
\* time by the reconciler.
Supported(v) == TypeOf[v] \in {"aws", "alibaba", "mock"}
Client(v)    == IF TypeOf[v] = "alibaba" /\ client # None THEN client ELSE v
Connects(v)  == TypeOf[v] = "mock" \/ Client(v) \notin Rejected
Constructs(v) == TypeOf[v] = "alibaba" /\ client = None
CachedClient(v) == IF TypeOf[v] = "alibaba" THEN Client(v) ELSE client

\* Mutant of Vendor: the configuration is recorded before it has been tested.
VendorUntested ==
    /\ w.pc = "vendor"
    /\ LET v == w.obj.spec.vendor IN
       Continue([w.obj EXCEPT !.hash = v], w.changed \/ (v # None /\ w.obj.hash # v))
    /\ UNCHANGED <<cluster, pool, client, tested, late, left>>

\* reconcileCloudVendorConnection; reconcileTimeSeriesDatabase does nothing.
Vendor ==
    /\ w.pc = "vendor"
    /\ LET v == w.obj.spec.vendor IN
       \/ /\ v = None \/ w.obj.hash = v
          /\ Continue(w.obj, w.changed)
          /\ UNCHANGED <<client, tested, late, left>>
       \/ /\ v # None /\ w.obj.hash # v /\ Supported(v) /\ Connects(v)
          /\ Continue([w.obj EXCEPT !.hash = v], TRUE)
          /\ client' = CachedClient(v)
          /\ tested' = tested \cup {Client(v)}
          /\ UNCHANGED left
       \/ /\ v # None /\ w.obj.hash # v /\ Supported(v) /\ TypeOf[v] # "mock"
          /\ IF Connects(v) THEN Spend("cloud") ELSE UNCHANGED left
          /\ \/ Constructs(v) /\ Retry /\ UNCHANGED <<client, tested>>
             \/ /\ Constructs(v) => Connects(v)
                /\ Goto("unreachable", SetAsUpdating(w.obj))
                /\ client' = CachedClient(v)
                /\ tested' = IF Constructs(v) THEN tested \cup {v} ELSE tested
       \/ /\ v # None /\ w.obj.hash # v /\ ~Supported(v)
          /\ Retry /\ UNCHANGED <<client, tested, late, left>>
    /\ UNCHANGED <<cluster, pool, late>>

\* Mutant of WriteStatus: the cluster is not looked at again.
WriteStatusOnce ==
    /\ w.pc \in {"unreachable", "status"}
    /\ updateTFClusterStatus(w.obj)
    /\ Return
    /\ UNCHANGED <<pool, client, tested, late, left>>

\* The status after a failed test, and after a change: requeued in either case.
WriteStatus ==
    /\ w.pc \in {"unreachable", "status"}
    /\ updateTFClusterStatus(w.obj)
    /\ Retry
    /\ UNCHANGED <<pool, client, tested, late, left>>

\* Mutant of Retried: counts down.
RetriedLess(o) == [SetAsUpdating(o) EXCEPT !.retry = @ - 1]

Retried(o) == [SetAsUpdating(o) EXCEPT !.retry = IF @ < MaxRetry THEN @ + 1 ELSE @]

\* checkTFClusterComponentsReady on an Updating cluster.
Check ==
    /\ w.pc = "check"
    /\ IF /\ Cardinality(Owned) = Cardinality(Wanted(w.obj.spec))
          /\ \A p \in Owned : Cached(p).running
       THEN Goto("refresh", w.obj) /\ UNCHANGED cluster
       ELSE updateTFClusterStatus(Retried(w.obj)) /\ Retry
    /\ UNCHANGED <<pool, client, tested, late, left>>

MadeReady(o) == IF o.phase = "Updating" THEN [SetAsReady(o) EXCEPT !.retry = 0]
                ELSE SetAsReady(o)

\* RefreshStatus has a slot for each wanted pool and fills it by the position in
\* the list, whose order is arbitrary: a running pool may have no slot.
RunningPools == {p \in Owned : Cached(p).running}
RefreshStatus(o) == [o EXCEPT !.ready = RunningPools, !.notReady = Owned \ RunningPools]

\* The end of Reconcile, for a cluster that is not Updating without any check.
\* A panic is recovered and counts as an error.
Refresh ==
    /\ w.pc = "refresh"
    /\ LET o == RefreshStatus(MadeReady(w.obj))
           slots == Cardinality(Wanted(w.obj.spec)) IN
       \/ /\ Cardinality(RunningPools) <= slots
          /\ IF o = w.obj THEN Return /\ UNCHANGED cluster
             ELSE /\ updateTFClusterStatus(o)
                  /\ IF w.fresh THEN Return ELSE Retry
       \/ /\ Cardinality(Owned) > slots /\ RunningPools # {}
          /\ Retry /\ UNCHANGED cluster
    /\ UNCHANGED <<pool, client, tested, late, left>>

--------------------------------------------------------------------------------
(* Disturbances and surroundings *)

\* A call of the API server fails, or has its effect and loses its answer.
Abort ==
    \/ /\ w.pc \in {"phase", "list", "unreachable", "status", "check", "refresh"}
       /\ Spend("api") /\ Retry
       /\ UNCHANGED <<cluster, pool>>
    \/ /\ w.pc = "status" /\ w.fresh
       /\ Spend("lost") /\ PutCluster(w.obj) /\ Retry
       /\ UNCHANGED pool
    \/ \E p \in Pools :
         /\ w.pc = "pools" /\ w.todo[p] # "none"
         /\ \/ Spend("api") /\ UNCHANGED pool
            \/ Spend("lost") /\ Accepted(p) /\ Effect(p)
         /\ w' = [w EXCEPT !.todo[p] = "none", !.failed = TRUE]
         /\ UNCHANGED <<cluster, queue>>

AbortStep == Abort /\ UNCHANGED <<client, tested, late>>

\* The operator restarts: the informers list everything anew.
Crash ==
    /\ Spend("crash")
    /\ cluster' = <<Newest(cluster)>>
    /\ pool' = [p \in Pools |-> <<Current(p)>>]
    /\ w' = Idle /\ queue' = TRUE /\ client' = None
    /\ UNCHANGED <<tested, late>>

EditSpec ==
    /\ left.edits > 0 /\ left' = [left EXCEPT !.edits = @ - 1]
    /\ Newest(cluster).state = "live"
    /\ \E s \in Specs \ {Newest(cluster).spec} :
         PutCluster([Newest(cluster) EXCEPT !.spec = s])
    /\ OutdateCluster
    /\ UNCHANGED <<pool, client, queue, tested, late>>

DeleteCluster ==
    /\ Spend("delete")
    /\ Newest(cluster).state = "live"
    /\ PutCluster([Newest(cluster) EXCEPT
                     !.state = IF Newest(cluster).fin THEN "deleting" ELSE "gone"])
    /\ OutdateCluster
    /\ UNCHANGED <<pool, client, queue, tested, late>>

\* The pool controller changes the phase of a pool, or lets a deleted one go.
PoolPhase(p) ==
    /\ left.flips > 0 /\ left' = [left EXCEPT !.flips = @ - 1]
    /\ Current(p).state = "live"
    /\ PutPool(p, [Current(p) EXCEPT !.running = ~@])
    /\ OutdatePool(p)
    /\ UNCHANGED <<cluster, client, queue, tested, late>>

PoolGone(p) ==
    /\ Current(p).state = "deleting"
    /\ PutPool(p, [Current(p) EXCEPT !.state = "gone"])
    /\ OutdatePool(p)
    /\ UNCHANGED <<cluster, client, queue, tested, late, left>>

\* A user deletes or edits a pool.
Meddle(p) ==
    /\ Spend("meddle")
    /\ Current(p).state = "live"
    /\ \E o \in Deleted(p) \cup {[Current(p) EXCEPT !.spec = t] : t \in Templates} :
         PutPool(p, o)
    /\ OutdatePool(p)
    /\ UNCHANGED <<cluster, client, queue, tested, late>>

\* The garbage collector deletes a pool whose owner is gone.
CollectPool(p) ==
    /\ Newest(cluster).state = "gone" /\ Current(p).state = "live"
    /\ \E o \in Deleted(p) : PutPool(p, o)
    /\ OutdatePool(p)
    /\ UNCHANGED <<cluster, client, queue, tested, late, left>>

--------------------------------------------------------------------------------

WorkerStep == \/ Start \/ Phase \/ ListPools \/ EndPools \/ Vendor \/ WriteStatus
              \/ Check \/ Refresh \/ \E p \in Pools : CallPool(p)

Next == \/ WorkerStep \/ ClusterEvent \/ AbortStep \/ Crash
        \/ EditSpec \/ DeleteCluster
        \/ \E p \in Pools : \/ PoolEvent(p) \/ PoolPhase(p) \/ PoolGone(p)
                            \/ Meddle(p) \/ CollectPool(p)

Spec == Init /\ [][Next]_vars

\* The worker, the informers, the pool controller's finalizer and the garbage
\* collector run.  Nothing makes a pool ready or a user act.
Fairness ==
    /\ WF_vars(WorkerStep) /\ WF_vars(ClusterEvent)
    /\ \A p \in Pools : WF_vars(PoolEvent(p)) /\ WF_vars(PoolGone(p))
                          /\ WF_vars(CollectPool(p))

FairSpec == Spec /\ Fairness

--------------------------------------------------------------------------------
(* Properties *)

\* Every variable keeps its type.
TypeOK ==
    /\ cluster \in Seq(ClusterObj) /\ cluster # <<>>
    /\ \A p \in Pools : pool[p] \in Seq(PoolObj) /\ pool[p] # <<>>
    /\ DOMAIN pool = Pools
    /\ client \in Vendors \cup {None}
    /\ queue \in BOOLEAN
    /\ w \in [pc : Steps, obj : ClusterObj, fresh : BOOLEAN, todo : [Pools -> Calls],
              changed : BOOLEAN, failed : BOOLEAN]
    /\ tested \subseteq Vendors /\ late \in BOOLEAN
    /\ left \in [faults : 0..MaxFaults, edits : 0..MaxEdits, flips : 0..MaxFlips]

\* What stands for the test of a configuration: one with the configuration itself,
\* or with another one of alibaba, whose client is kept.
TestedAs(v) == \E t \in tested : t = v \/ (TypeOf[t] = "alibaba" /\ TypeOf[v] = "alibaba")

\* The cluster becomes Running only with a vendor configuration that a connection
\* has been tested with, although the specification changes while Reconcile runs;
\* except that a changed configuration of alibaba is tested with the client of the
\* one before (alibaba/ecs.go:29).
TestedBeforeReady ==
    [][LET o == Newest(cluster)
           n == Newest(cluster') IN
       n.phase = "Running" /\ o.phase # "Running"
         => n.spec.vendor = None \/ TestedAs(n.spec.vendor)]_vars

Settled ==
    LET c == Newest(cluster) IN
    \A p \in Pools :
      IF c.state = "live" /\ c.spec.pools[p] # None
      THEN Current(p).state = "live" /\ Current(p).spec = c.spec.pools[p]
      ELSE ~There(Current(p))

\* In the end the pools are those of the specification, and none is left once the
\* cluster has been deleted: whatever the caches showed, whichever calls failed,
\* and although users change specification and pools meanwhile.
PoolsConverge == <>[]Settled

Usable(v) == v = None \/ (Supported(v) /\ (TypeOf[v] = "mock" \/ v \notin Rejected))
AllReady ==
    LET c == Newest(cluster) IN
    /\ c.state = "live" /\ Settled /\ Usable(c.spec.vendor)
    /\ \A p \in Wanted(c.spec) : Current(p).running

\* A cluster whose pools stay Running, with a usable vendor, becomes Running,
\* unless a reconcile takes an old version for the current one.
ReadyReached ==
    <>[](AllReady /\ ~late) => <>[](Newest(cluster).phase = "Running")

\* The status of a Running cluster with a usable vendor ends up naming the pools that
\* are ready and those that are not, with the same exception.
StatusAccurate ==
    <>[](LET c == Newest(cluster)
             r == {p \in Wanted(c.spec) : Current(p).running} IN
         c.state = "live" /\ c.phase = "Running" /\ Usable(c.spec.vendor) /\ ~late
           => c.ready = r /\ c.notReady = Wanted(c.spec) \ r)

--------------------------------------------------------------------------------
(* What the proofs rest on *)

\* A configuration is recorded in the status only once it has been tested.
HashTested(o) == o.hash # None => TestedAs(o.hash)
HashesTested  == \A i \in DOMAIN cluster : HashTested(cluster[i])

\* What Reconcile knows of the copy it carries: once it is past the vendor, the copy
\* records the vendor it specifies, if any, or is about to be written as Updating.
WorkerTested ==
    /\ HashTested(w.obj)
    /\ w.pc \in {"check", "refresh"} => w.obj.spec.vendor \in {None, w.obj.hash}
    /\ w.pc \in {"unreachable", "status"} => w.obj.phase = "Updating"

\* A copy that is not outdated differs from the object in its status only.
SameButStatus(o, c) == o.spec = c.spec /\ o.state = c.state /\ o.fin = c.fin
FreshKnows == w.fresh => w.pc # "idle" /\ SameButStatus(w.obj, Newest(cluster))

\* The client that is kept is one of alibaba.
ClientKnows == client # None => TypeOf[client] = "alibaba"

ClusterInv ==
    /\ TypeOK /\ pool \in [Pools -> Seq(PoolObj)]
    /\ HashesTested /\ WorkerTested /\ FreshKnows /\ ClientKnows

=================================================================================
