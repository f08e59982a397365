------------------------------ MODULE PoolCapacity ------------------------------
(***************************************************************************)
(* How much capacity a GPUPool in provisioning mode asks the cloud for.    *)
(*                                                                         *)
(* Modelled code: the decision of gpupool_node_provision.go in both        *)
(* dimensions with the choice of instances (InstanceChoice), and the       *)
(* status that gpupool_controller.go sums up and decides on.  A creation   *)
(* is one step here; NodeProvisioning takes it apart, and has the          *)
(* finalizers and deletions.                                               *)
(*                                                                         *)
(* The cache of the pool and of each GPUNode is one version, which may be  *)
(* an older one than the API server's.                                     *)
(***************************************************************************)
EXTENDS InstanceChoice, FiniteSets

CONSTANTS
    Configs,    \* CapacityConfig and GPURequirements of pools
    None,       \* a resource that is not configured
    Default,    \* the cluster's DefaultRegion
    MaxNodes,   \* bound on the GPUNodes that are ever created
    Kinds,      \* the kinds of disturbance that may happen
    MaxFaults   \* bound on their number, for each pool

\* "late": a reconcile starts before the cache has the pool's status; "behind": the
\* last refresh sums up old versions of GPUNodes; "api": a call fails; "create": a
\* creation fails; "crash": the operator restarts; "delete": a GPUNode is deleted.
Faults == {"late", "behind", "api", "create", "crash", "delete"}

Names == 1..MaxNodes
Amounts == [Dims -> Nat]

ASSUME FaultAssumption  == Kinds \subseteq Faults /\ MaxNodes \in Nat /\ MaxFaults \in [Configs -> Nat]
ASSUME ConfigAssumption ==
    /\ Configs # {} /\ None \notin Amounts /\ Default \in DOMAIN Ratio
    /\ \A c \in Configs : /\ {c.min, c.warm, c.max} \subseteq Amounts \cup {None}
                          /\ Region(c.reqs, Default) \in DOMAIN Ratio

VARIABLES
    config,   \* the pool's specification
    prices,   \* the instance types its requirements leave, with their prices
    status,   \* the pool's status
    seen,     \* the same in the cache
    node,     \* the GPUNodes
    cache,    \* the same in the cache
    queue,    \* whether the pool is in the workqueue
    w,        \* the worker with the local variables of Reconcile
    waste,    \* how often more has been asked for than the pool lacked
    deleted,  \* whether a GPUNode has been deleted
    left      \* how many disturbances may still happen

vars == <<config, prices, status, seen, node, cache, queue, w, waste, deleted, left>>

--------------------------------------------------------------------------------
(* Objects *)

\* count: TotalNodes; running: the phase is Running.
Status  == [count : Nat, total : Amounts, running : BOOLEAN]
Zero    == [d \in Dims |-> 0]
NoStatus == [count |-> 0, total |-> Zero, running |-> FALSE]
\* type 0: the GPUNode's status shows no capacity.
NodeObj == [state : {"none", "live", "gone"}, type : 0..Len(Catalog), ready : BOOLEAN]
NoNode  == [state |-> "none", type |-> 0, ready |-> FALSE]
Steps   == {"idle", "refresh", "scale", "create", "refreshAgain"}
Idle    == [pc |-> "idle", obj |-> NoStatus, gap |-> Zero, type |-> 0, num |-> 0,
            todo |-> {}, failed |-> FALSE]

Live(f)   == {n \in Names : f[n].state = "live"}
Shown(o)  == IF o.state = "live" /\ o.type # 0 THEN Offered(o.type) ELSE Zero
Total(f)  ==
    LET upTo[n \in 0..MaxNodes] ==
          IF n = 0 THEN Zero ELSE [d \in Dims |-> upTo[n - 1][d] + Shown(f[n])[d]]
    IN  upTo[MaxNodes]
Unused    == {n \in Names : node[n].state = "none"}

Init ==
    /\ config \in Configs
    /\ prices = Prices(config.reqs, Default)
    /\ status = NoStatus /\ seen = NoStatus
    /\ node = [n \in Names |-> NoNode] /\ cache = node
    /\ queue = TRUE /\ w = Idle
    /\ waste = 0 /\ deleted = FALSE /\ left = MaxFaults[config]

Spend(f) == f \in Kinds /\ left > 0 /\ left' = left - 1

--------------------------------------------------------------------------------
(* Informers *)

\* Mutant of NodeEvent: the pool controller ignores changes of a GPUNode's status.
NodeEventGeneration(n) ==
    /\ cache[n] # node[n]
    /\ cache' = [cache EXCEPT ![n] = node[n]]
    /\ queue' = (queue \/ cache[n].state # node[n].state)
    /\ UNCHANGED <<config, prices, status, seen, node, w, waste, deleted, left>>

\* Owns(&GPUNode{}).
NodeEvent(n) ==
    /\ cache[n] # node[n]
    /\ cache' = [cache EXCEPT ![n] = node[n]]
    /\ queue' = TRUE
    /\ UNCHANGED <<config, prices, status, seen, node, w, waste, deleted, left>>

\* A change of the status alone starts no reconcile (GenerationChangedPredicate).
PoolEvent ==
    /\ seen # status
    /\ seen' = status
    /\ UNCHANGED <<config, prices, status, node, cache, queue, w, waste, deleted, left>>

--------------------------------------------------------------------------------
(* Reconcile *)

Return == w' = Idle /\ UNCHANGED queue
Retry  == w' = Idle /\ queue' = TRUE

Start ==
    /\ w.pc = "idle" /\ queue
    /\ IF seen = status THEN UNCHANGED left ELSE Spend("late")
    /\ w' = [Idle EXCEPT !.pc = "refresh", !.obj = seen]
    /\ queue' = FALSE
    /\ UNCHANGED <<config, prices, status, seen, node, cache, waste, deleted>>

\* reconcilePoolCurrentCapacityAndReadiness on the cached GPUNodes.  A merge patch
\* leaves out a count of zero, so that the old one stays.
Refreshed ==
    [count   |-> IF Live(cache) = {} THEN seen.count ELSE Cardinality(Live(cache)),
     total   |-> Total(cache),
     running |-> \A n \in Live(cache) : cache[n].ready]

\* The refreshed status is not the one that w.obj goes on with.
Refresh ==
    /\ w.pc = "refresh"
    /\ IF seen = status
       THEN status' = Refreshed /\ w' = [w EXCEPT !.pc = "scale"] /\ UNCHANGED queue
       ELSE Retry /\ UNCHANGED status
    /\ UNCHANGED <<config, prices, seen, node, cache, waste, deleted, left>>

\* Mutant of Positive: both dimensions have to lack something.
PositiveBoth(a) == \A d \in Dims : a[d] > 0

Positive(a) == \E d \in Dims : a[d] > 0

\* The gap to the minimum, or else, for a pool that runs, to the warm-up capacity:
\* all of it, because nothing writes the available capacity.
Gap(o) ==
    LET toMin == [d \in Dims |-> config.min[d] - o.total[d]] IN
    IF config.min # None /\ Positive(toMin) THEN toMin
    ELSE IF config.warm # None /\ o.running THEN config.warm ELSE Zero

\* Mutant of MaxReached: both dimensions have to be reached.
MaxReachedBoth(o) == config.max # None /\ \A d \in Dims : o.total[d] >= config.max[d]

MaxReached(o) == config.max # None /\ \E d \in Dims : o.total[d] >= config.max[d]

\* What justifies k + 1 instances of a type when GPUNodes of the size real exist: k
\* of them leave the pool without its minimum or its warm-up capacity.
Justifies(k, i, real) ==
    /\ config.max = None \/ \A d \in Dims : real[d] < config.max[d]
    /\ \/ config.min # None
          /\ \E d \in Dims : real[d] + k * Offered(i)[d] < config.min[d]
       \/ config.warm # None /\ \E d \in Dims : k * Offered(i)[d] < config.warm[d]

\* reconcilePoolCapacityWithProvisioner up to the start of the goroutines.  The
\* names of the model run out like the quota of a cloud, which is an error.
ScaleUp ==
    /\ w.pc = "scale"
    /\ \E gap \in {Gap(w.obj)} : \E c \in {Choose(prices, gap)}, real \in {Total(node)} :
       IF ~Positive(gap) \/ MaxReached(w.obj) THEN Return /\ UNCHANGED waste
       ELSE IF c.type = 0 \/ Cardinality(Unused) < c.num THEN Retry /\ UNCHANGED waste
       ELSE /\ w' = [w EXCEPT !.pc = "create", !.gap = gap, !.type = c.type, !.num = c.num,
                              !.todo = {n \in Unused : n < Min(Unused) + c.num}]
            /\ waste' = IF Justifies(c.num - 1, c.type, real) THEN waste ELSE waste + 1
            /\ UNCHANGED queue
    /\ UNCHANGED <<config, prices, status, seen, node, cache, deleted, left>>

\* One goroutine.  A failure leaves nothing, a GPUNode without capacity, or one
\* with capacity; the appends to errList race, but one error always remains.
Create(n) ==
    /\ w.pc = "create" /\ n \in w.todo
    /\ \/ /\ node' = [node EXCEPT ![n] = [NoNode EXCEPT !.state = "live", !.type = w.type]]
          /\ w' = [w EXCEPT !.todo = @ \ {n}]
          /\ UNCHANGED left
       \/ /\ Spend("create")
          /\ \E o \in {[NoNode EXCEPT !.state = "gone"]}
                        \cup {[NoNode EXCEPT !.state = "live", !.type = i] :
                                i \in {0, w.type}} :
               node' = [node EXCEPT ![n] = o]
          /\ w' = [w EXCEPT !.todo = @ \ {n}, !.failed = TRUE]
    /\ UNCHANGED <<config, prices, status, seen, cache, queue, waste, deleted>>

\* Mutant of WaitAll: the capacity is not refreshed after the creation.
WaitAllOnly ==
    /\ w.pc = "create" /\ w.todo = {}
    /\ Retry
    /\ UNCHANGED <<config, prices, status, seen, node, cache, waste, deleted, left>>

\* wg.Wait: any error ends the reconcile before the second refresh.
WaitAll ==
    /\ w.pc = "create" /\ w.todo = {}
    /\ IF w.failed THEN Retry ELSE w' = [w EXCEPT !.pc = "refreshAgain"] /\ UNCHANGED queue
    /\ UNCHANGED <<config, prices, status, seen, node, cache, waste, deleted, left>>

\* The second refresh, on what the cache has by then, and RequeueAfter.
RefreshAgain ==
    /\ w.pc = "refreshAgain"
    /\ IF seen = status THEN status' = Refreshed ELSE UNCHANGED status
    /\ IF seen = status /\ cache = node THEN UNCHANGED left ELSE Spend("behind")
    /\ Retry
    /\ UNCHANGED <<config, prices, seen, node, cache, waste, deleted>>

--------------------------------------------------------------------------------
(* Disturbances and surroundings *)

Abort ==
    /\ w.pc \in {"refresh", "scale", "refreshAgain"} /\ Spend("api") /\ Retry
    /\ UNCHANGED <<config, prices, status, seen, node, cache, waste, deleted>>

Crash ==
    /\ Spend("crash")
    /\ seen' = status /\ cache' = node
    /\ w' = Idle /\ queue' = TRUE
    /\ UNCHANGED <<config, prices, status, node, waste, deleted>>

Ready(n) ==
    /\ node[n].state = "live" /\ node[n].type # 0 /\ ~node[n].ready
    /\ node' = [node EXCEPT ![n].ready = TRUE]
    /\ UNCHANGED <<config, prices, status, seen, cache, queue, w, waste, deleted, left>>

DeleteNode(n) ==
    /\ node[n].state = "live" /\ Spend("delete")
    /\ node' = [node EXCEPT ![n].state = "gone"]
    /\ deleted' = TRUE
    /\ UNCHANGED <<config, prices, status, seen, cache, queue, w, waste>>

--------------------------------------------------------------------------------

WorkerStep == \/ Start \/ Refresh \/ ScaleUp \/ WaitAll \/ RefreshAgain
              \/ \E n \in Names : Create(n)

Next == \/ WorkerStep \/ PoolEvent \/ Abort \/ Crash
        \/ \E n \in Names : NodeEvent(n) \/ Ready(n) \/ DeleteNode(n)

Spec == Init /\ [][Next]_vars

\* The worker and the informers run.  Nothing makes a GPUNode ready.
Fairness == /\ WF_vars(WorkerStep) /\ WF_vars(PoolEvent)
            /\ \A n \in Names : WF_vars(NodeEvent(n))

FairSpec == Spec /\ Fairness

--------------------------------------------------------------------------------
(* Properties *)

\* Every variable keeps its type.
TypeOK ==
    /\ config \in Configs /\ DOMAIN prices \subseteq 1..Len(Catalog)
    /\ status \in Status /\ seen \in Status
    /\ node \in [Names -> NodeObj] /\ cache \in [Names -> NodeObj]
    /\ queue \in BOOLEAN /\ deleted \in BOOLEAN
    /\ w \in [pc : Steps, obj : Status, gap : [Dims -> Int], type : 0..Len(Catalog),
              num : 0..MaxPerLoop, todo : SUBSET Names, failed : BOOLEAN]
    /\ waste \in Nat /\ left \in 0..MaxFaults[config]

\* As many as fill any gap.
Bound == Max({w.gap[d] : d \in Dims})
Fills(i, k) == \A d \in Dims : k * Offered(i)[d] >= w.gap[d]

\* The instances that are asked for fill the gap in both dimensions, unless the
\* bound of the loop stops them; one less would not do; and no number of any type
\* that the requirements admit and that has both would fill it for less.
PlanOptimal ==
    w.pc = "create" =>
      /\ w.num = MaxPerLoop \/ Fills(w.type, w.num)
      /\ w.num > 0 /\ ~Fills(w.type, w.num - 1)
      /\ w.num < MaxPerLoop =>
           \A i \in DOMAIN prices, k \in 0..Bound :
             Fills(i, k) => prices[i] * k >= prices[w.type] * w.num

\* "avoid duplicated creation in next reconciliation" (gpupool_node_provision.go:118):
\* more than the pool lacks of its minimum or warm-up capacity, or above its maximum,
\* is asked for at most once per disturbance; an old status, an old list of
\* GPUNodes, a failed creation and a restart each cost one superfluous round.
WasteBounded == waste <= MaxFaults[config] - left

Satisfied ==
    \/ config.min = None
    \/ \A d \in Dims : Total(node)[d] >= config.min[d]
    \/ config.max # None /\ \E d \in Dims : Total(node)[d] >= config.max[d]

\* A pool reaches its minimum (or maximum) in the end, over several rounds if one
\* may not create enough, unless no instance may be chosen or a GPUNode is deleted.
MinReached ==
    <>[](Satisfied \/ deleted \/ DOMAIN prices = {})

\* In the end the status says what the GPUNodes add up to, and whether all of them
\* are ready.  Their number is right unless there is none.
StatusConverges ==
    <>[](/\ status.total = Total(node)
         /\ status.running <=> \A n \in Live(node) : node[n].ready
         /\ Live(node) # {} => status.count = Cardinality(Live(node)))

--------------------------------------------------------------------------------
(* What the proofs rest on *)

\* The instance types to choose from have a price and both resources.
PricesKnown == \A i \in DOMAIN prices : /\ i \in DOMAIN Catalog /\ prices[i] \in Nat
                                        /\ \A d \in Dims : Offered(i)[d] > 0

\* No less than the GPUNodes add up to.
Enough(t) == \A d \in Dims : Total(node)[d] <= t[d]

\* The cache shows no GPUNode with less than it has.
Covered == \A n \in Names, d \in Dims : Shown(node[n])[d] <= Shown(cache[n])[d]

\* The next decision overlooks no GPUNode.  While GPUNodes are created the status
\* does not show them, but the second refresh will, unless one of the creations fails.
Clean == \/ w.pc = "refreshAgain" \/ (w.pc = "create" /\ ~w.failed)
         \/ /\ w.pc \in {"idle", "refresh", "scale"}
            /\ Covered /\ Enough(status.total)
            /\ w.pc # "idle" => Enough(w.obj.total)

\* The disturbances so far have paid for the superfluous rounds so far, and for the
\* next one if it may come.
WastePaid == waste + (IF Clean THEN 0 ELSE 1) <= MaxFaults[config] - left

\* Only a round that creates has failed.
FailedCreates == w.failed => w.pc = "create"

CapacityInv == TypeOK /\ PricesKnown /\ PlanOptimal /\ FailedCreates /\ WastePaid

================================================================================
