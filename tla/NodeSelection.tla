----------------------------- MODULE NodeSelection -----------------------------
(***************************************************************************)
(* Kubernetes nodes that GPUPools select, and the compaction of the pools. *)
(*                                                                         *)
(* Modelled code: the Node reconciler's select mode (node_controller.go),  *)
(* the GPUNode reconciler (gpunode_controller.go) and the discovery job    *)
(* (cmd/nodediscovery/main.go) for GPUNodes that select mode creates, and  *)
(* the compaction reconciler (gpupool_compaction_controller.go).  A        *)
(* GPUNode has the name of its node.  The API server, its garbage          *)
(* collector and kubelet are external.                                     *)
(*                                                                         *)
(* One cache of GPUNodes serves all controllers.  An update is refused     *)
(* unless it was made from the current version; it then changes nothing    *)
(* and the reconcile is retried.                                           *)
(***************************************************************************)
EXTENDS FiniteSets, Integers

CONSTANTS
    Nodes,       \* names of Kubernetes nodes with the initial label
    Pools,       \* names of GPUPools; one may be the name of a node
    Labels,      \* what selectors tell apart in a node's labels
    Setups,      \* [prov, warm, gpus, kinds, faults]: the pools in provisioning mode,
                 \* the warm-up capacity of each pool, the nodes that have GPUs, the
                 \* kinds of disturbance that may happen and a bound on their number
    Selectors,   \* the labels that each pool selects at first
    None         \* no pool, no node, or no warm-up capacity

\* "label": a node's labels change; "pool": a pool's selector changes; "delete": a
\* pool, a node or a GPUNode is deleted; "api": a call fails; "crash": the operator
\* restarts.
Faults == {"label", "pool", "delete", "api", "crash"}

ASSUME SetupAssumption ==
    /\ None \notin Nodes \cup Pools \cup Nat
    /\ Setups \subseteq [prov : SUBSET Pools, warm : [Pools -> Nat \cup {None}],
                         gpus : SUBSET Nodes, kinds : SUBSET Faults, faults : Nat]
    /\ Selectors \subseteq [Pools -> SUBSET Labels]

VARIABLES
    setup,   \* what does not change
    knode,   \* the Kubernetes nodes
    sel,     \* the pools and their selectors
    seen,    \* the same in the cache
    gnode,   \* the GPUNodes
    cache,   \* the same in the cache
    behind,  \* the GPUNodes whose version in the cache is not the current one
    pods,    \* discovery job and hypervisor of each GPUNode
    queue,   \* workqueue of the Node controller
    gqueue,  \* of the GPUNode controller
    cqueue,  \* of the compaction controller
    w,       \* worker of the Node controller
    cw,      \* worker of the compaction controller
    wrong,   \* nodes that compaction picked although their status showed a capacity,
             \* each with the pool it was picked for
    left     \* how many disturbances may still happen

queues == <<queue, gqueue, cqueue>>
gstate == <<gnode, behind, pods>>
vars == <<setup, knode, sel, seen, gstate, cache, queues, w, cw, wrong, left>>

--------------------------------------------------------------------------------
(* Objects *)

\* broken: the selector is missing or cannot be evaluated.
Pool    == [live : BOOLEAN, picks : SUBSET Labels, broken : BOOLEAN]
Node    == [live : BOOLEAN, label : Labels, mark : BOOLEAN]
\* pool: the one its label names; init: the status names the node; run: the phase is
\* Running; cap: the status shows capacity.
GPUNode == {g \in [state : {"none", "live", "deleting"}, pool : Pools \cup {None},
                   owners : SUBSET {"node", "pool"}, fin : BOOLEAN, init : BOOLEAN,
                   run : BOOLEAN, cap : BOOLEAN] : g.run \/ g.cap => g.init}
NoGPUNode == [state |-> "none", pool |-> None, owners |-> {}, fin |-> FALSE,
              init |-> FALSE, run |-> FALSE, cap |-> FALSE]
Pods    == [job : {"none", "run", "done"}, hyper : {"none", "pending", "running"}]
NoPods  == [job |-> "none", hyper |-> "none"]

\* stale: the worker's GPUNode is not the current version.
Idle    == [pc |-> "idle", node |-> None, pool |-> None, init |-> FALSE, stale |-> FALSE]
CIdle   == [pc |-> "idle", pool |-> None, node |-> None, todo |-> {}, stale |-> {}]

Init ==
    /\ setup \in Setups
    /\ knode \in [Nodes -> {[live |-> TRUE, label |-> l, mark |-> FALSE] : l \in Labels}]
    /\ \E f \in Selectors :
         sel = [p \in Pools |-> [live |-> TRUE, picks |-> f[p], broken |-> FALSE]]
    /\ seen = sel
    /\ gnode = [n \in Nodes |-> NoGPUNode] /\ cache = gnode /\ behind = {}
    /\ pods = [n \in Nodes |-> NoPods]
    /\ queue = Nodes /\ gqueue = {} /\ cqueue = {}
    /\ w = Idle /\ cw = CIdle /\ wrong = {} /\ left = setup.faults

Spend(f) == f \in setup.kinds /\ left > 0 /\ left' = left - 1

\* A write of the API server; what a removed GPUNode owned goes with it.
Put(n, g, p) ==
    /\ gnode' = [gnode EXCEPT ![n] = g]
    /\ behind' = IF g = gnode[n] THEN behind ELSE behind \cup {n}
    /\ pods' = [pods EXCEPT ![n] = IF g.state = "none" THEN NoPods ELSE p]

\* What a write by somebody else makes of the versions the workers hold.
Outdated(n) == IF n \in cw.todo THEN [cw EXCEPT !.stale = @ \cup {n}] ELSE cw

Outdate(n, g) ==
    /\ w' = IF w.node = n /\ g # gnode[n] THEN [w EXCEPT !.stale = TRUE] ELSE w
    /\ cw' = IF g # gnode[n] THEN Outdated(n) ELSE cw

Deleted(g) == IF g.state = "live" /\ ~g.fin THEN NoGPUNode
              ELSE IF g.state = "live" THEN [g EXCEPT !.state = "deleting"] ELSE g

--------------------------------------------------------------------------------
(* Informers *)

\* A GPUNode's event.  The GPUNode controller looks at the generation, which changes
\* with the existence and the deletion, not with annotations or the status.
SyncGPUNode(n) ==
    /\ n \in behind
    /\ cache' = [cache EXCEPT ![n] = gnode[n]] /\ behind' = behind \ {n}
    /\ gqueue' = IF cache[n].state # gnode[n].state THEN gqueue \cup {n} ELSE gqueue
    /\ cqueue' = cqueue \cup {n}
    /\ UNCHANGED <<setup, knode, sel, seen, gnode, pods, queue, w, cw, wrong, left>>

\* The watch on pools asks for the GPUNodes with the initial label of nodes, which
\* no GPUNode has.
SyncPools ==
    /\ seen # sel
    /\ seen' = sel
    /\ UNCHANGED <<setup, knode, sel, gstate, cache, queues, w, cw, wrong, left>>

--------------------------------------------------------------------------------
(* Node controller *)

Hits(n, s) == {p \in Pools : s[p].live /\ (s[p].broken \/ knode[n].label \in s[p].picks)}

Return   == w' = Idle /\ UNCHANGED queue
Retry    == w' = Idle /\ queue' = queue \cup {w.node}

\* Mutant of Start: the GPUNode of a node without a pool stays.
StartKeep(n) ==
    /\ w.pc = "idle" /\ n \in queue
    /\ queue' = queue \ {n}
    /\ \E p \in Hits(n, seen) \cup {None} :
         w' = IF p = None THEN w ELSE [Idle EXCEPT !.pc = "get", !.node = n, !.pool = p]
    /\ UNCHANGED <<setup, knode, sel, seen, gstate, cache, gqueue, cqueue, cw, wrong, left>>

\* Reconcile up to the deletion for a node without a pool.  The list of pools has no
\* order; an error ends the search at the pool where it occurs.
Start(n) ==
    /\ w.pc = "idle" /\ n \in queue
    /\ \/ /\ ~knode[n].live
          /\ queue' = queue \ {n}
          /\ UNCHANGED <<gstate, w, cw>>
       \/ /\ knode[n].live /\ Hits(n, seen) = {}
          /\ Put(n, Deleted(gnode[n]), pods[n]) /\ Outdate(n, Deleted(gnode[n]))
          /\ queue' = queue \ {n}
       \/ /\ knode[n].live
          /\ \E p \in Hits(n, seen) :
               IF seen[p].broken THEN UNCHANGED <<w, queue>>
               ELSE /\ w' = [Idle EXCEPT !.pc = "get", !.node = n, !.pool = p]
                    /\ queue' = queue \ {n}
          /\ UNCHANGED <<gstate, cw>>
    /\ UNCHANGED <<setup, knode, sel, seen, cache, gqueue, cqueue, wrong, left>>

\* A GPUNode in the cache gets a new annotation, hence a new version.
Get ==
    /\ w.pc = "get"
    /\ LET n == w.node IN
       \/ /\ cache[n].state = "none"
          /\ w' = [w EXCEPT !.pc = "create"]
          /\ UNCHANGED <<behind, queue, cw>>
       \/ /\ cache[n].state # "none" /\ n \notin behind
          /\ behind' = behind \cup {n}
          /\ w' = [w EXCEPT !.pc = "status", !.init = cache[n].init, !.stale = FALSE]
          /\ cw' = Outdated(n)
          /\ UNCHANGED queue
       \/ /\ cache[n].state # "none" /\ n \in behind
          /\ Retry
          /\ UNCHANGED <<behind, cw>>
    /\ UNCHANGED <<setup, knode, sel, seen, gnode, pods, cache, gqueue, cqueue, wrong, left>>

\* Mutant of GenerateGPUNode: nothing owns the GPUNode.
GenerateGPUNodeFree(pool) == [NoGPUNode EXCEPT !.state = "live", !.pool = pool]

\* generateGPUNode and the controller reference.
GenerateGPUNode(pool) ==
    [NoGPUNode EXCEPT !.state = "live", !.pool = pool, !.owners = {"node", "pool"}]

\* CreateOrUpdate reads the cache once more; one that is there is left as it is.
Create ==
    /\ w.pc = "create"
    /\ LET n == w.node IN
       \/ /\ cache[n].state # "none"
          /\ w' = [w EXCEPT !.pc = "status", !.init = cache[n].init, !.stale = n \in behind]
          /\ UNCHANGED <<gstate, queue, cw>>
       \/ /\ cache[n].state = "none" /\ gnode[n].state = "none"
          /\ Put(n, GenerateGPUNode(w.pool), pods[n])
          /\ w' = [w EXCEPT !.pc = "status", !.stale = FALSE]
          /\ UNCHANGED <<queue, cw>>
       \/ /\ cache[n].state = "none" /\ gnode[n].state # "none"
          /\ Retry
          /\ UNCHANGED <<gstate, cw>>
    /\ UNCHANGED <<setup, knode, sel, seen, cache, gqueue, cqueue, wrong, left>>

Initialized(g) == [g EXCEPT !.init = TRUE, !.run = FALSE, !.cap = FALSE]

InitStatus ==
    /\ w.pc = "status"
    /\ LET n == w.node IN
       IF w.init THEN Return /\ UNCHANGED <<gstate, cw>>
       ELSE IF w.stale THEN Retry /\ UNCHANGED <<gstate, cw>>
       ELSE /\ Put(n, Initialized(gnode[n]), pods[n])
            /\ cw' = Outdated(n)
            /\ Return
    /\ UNCHANGED <<setup, knode, sel, seen, cache, gqueue, cqueue, wrong, left>>

--------------------------------------------------------------------------------
(* GPUNode controller and discovery job *)

Started(n) == [job   |-> IF pods[n].job = "none" THEN "run" ELSE pods[n].job,
               hyper |-> IF pods[n].hyper = "none" THEN "pending" ELSE pods[n].hyper]

\* Mutant of Served: a GPUNode that names no node is served, too.
ServedUnnamed(n) ==
    [gpu   |-> IF n \in behind THEN gnode[n]
               ELSE [cache[n] EXCEPT !.fin = TRUE, !.run = (pods[n].hyper = "running")],
     pods  |-> Started(n), again |-> TRUE]

\* Mutant of Served: the status is written whatever the version is.
ServedForced(n) ==
    LET c == [cache[n] EXCEPT !.fin = TRUE, !.state = gnode[n].state]
        run == c.init /\ pods[n].hyper = "running" IN
    [gpu   |-> IF gnode[n].state # "live" THEN gnode[n]
               ELSE IF c.init /\ seen[c.pool].live THEN [c EXCEPT !.run = run]
               ELSE [gnode[n] EXCEPT !.fin = TRUE],
     pods  |-> IF c.init /\ seen[c.pool].live THEN Started(n) ELSE pods[n],
     again |-> ~run]

\* What Reconcile makes of a live GPUNode: how far it comes before a write is refused,
\* and whether it comes again: after ten seconds if no node is named, after five
\* seconds if the hypervisor does not run, and after an error.
Served(n) ==
    LET c == [cache[n] EXCEPT !.fin = TRUE]
        run == pods[n].hyper = "running" IN
    IF ~cache[n].fin /\ n \in behind
    THEN [gpu |-> gnode[n], pods |-> pods[n], again |-> TRUE]
    ELSE IF ~c.init \/ ~seen[c.pool].live
    THEN [gpu |-> IF cache[n].fin THEN gnode[n] ELSE c, pods |-> pods[n], again |-> TRUE]
    ELSE IF n \in behind
    THEN [gpu |-> gnode[n], pods |-> Started(n), again |-> TRUE]
    ELSE [gpu |-> [c EXCEPT !.run = run], pods |-> Started(n), again |-> ~run]

\* Mutant of GPUNodeReconcile: a GPUNode without a node's name is not polled.
GPUNodeReconcileOnce(n) ==
    /\ n \in gqueue /\ cache[n].state = "live"
    /\ Put(n, Served(n).gpu, Served(n).pods) /\ Outdate(n, Served(n).gpu)
    /\ gqueue' = IF Served(n).again /\ cache[n].init THEN gqueue ELSE gqueue \ {n}
    /\ UNCHANGED <<setup, knode, sel, seen, cache, queue, cqueue, wrong, left>>

GPUNodeReconcile(n) ==
    /\ n \in gqueue /\ cache[n].state = "live"
    /\ Put(n, Served(n).gpu, Served(n).pods) /\ Outdate(n, Served(n).gpu)
    /\ gqueue' = IF Served(n).again THEN gqueue ELSE gqueue \ {n}
    /\ UNCHANGED <<setup, knode, sel, seen, cache, queue, cqueue, wrong, left>>

\* HandleFinalizer of a deleted GPUNode; there is nothing else to clean up.
GPUNodeFinalize(n) ==
    /\ n \in gqueue /\ cache[n].state # "live"
    /\ IF cache[n].state = "deleting" /\ n \in behind
       THEN UNCHANGED <<gstate, gqueue, w, cw>>
       ELSE /\ LET g == IF cache[n].state = "deleting" THEN NoGPUNode ELSE gnode[n] IN
               Put(n, g, pods[n]) /\ Outdate(n, g)
            /\ gqueue' = gqueue \ {n}
    /\ UNCHANGED <<setup, knode, sel, seen, cache, queue, cqueue, wrong, left>>

\* The job's last write; one that is refused fails the job, which runs again.
Discover(n) ==
    /\ pods[n].job = "run" /\ gnode[n].state # "none"
    /\ LET g == [gnode[n] EXCEPT !.init = TRUE, !.run = TRUE, !.cap = n \in setup.gpus] IN
       Put(n, g, [pods[n] EXCEPT !.job = "done"]) /\ Outdate(n, g)
    /\ gqueue' = gqueue \cup {n}
    /\ UNCHANGED <<setup, knode, sel, seen, cache, queue, cqueue, wrong, left>>

HypervisorRuns(n) ==
    /\ pods[n].hyper = "pending"
    /\ pods' = [pods EXCEPT ![n].hyper = "running"]
    /\ gqueue' = gqueue \cup {n}
    /\ UNCHANGED <<setup, knode, sel, seen, gnode, behind, cache, queue, cqueue, w, cw,
                   wrong, left>>

--------------------------------------------------------------------------------
(* Compaction *)

\* Whether checkNodeCompaction comes to the comparison of capacities.  No connection
\* carries the label it looks for, and no node is created five minutes ahead.
Candidates(p) == {n \in Nodes : cache[n].state # "none" /\ cache[n].pool = p /\ cache[n].run}

\* Nothing writes a pool's available capacity.
Removable(n, p) == setup.warm[p] = 0 /\ ~cache[n].cap

\* Mutant of CompactList: the versions of the list are taken for current.
CompactListFresh(p) ==
    /\ cw.pc = "idle" /\ p \in cqueue /\ p \in Pools
    /\ IF seen[p].live /\ setup.warm[p] # None
          /\ \E n \in Candidates(p) : Removable(n, p)
       THEN /\ cw' = [CIdle EXCEPT !.pc = "check", !.pool = p,
                                   !.todo = {n \in Candidates(p) : Removable(n, p)}]
            /\ cqueue' = cqueue \ {p}
       ELSE UNCHANGED <<cw, cqueue>>
    /\ UNCHANGED <<setup, knode, sel, seen, gstate, cache, queue, gqueue, w, wrong, left>>

\* The request of a GPUNode is taken for one of a pool; only one that a pool has the
\* name of has an effect, and is repeated.  A candidate in a pool without a warm-up
\* capacity makes the controller panic and retry.
CompactList(p) ==
    /\ cw.pc = "idle" /\ p \in cqueue
    /\ IF p \notin Pools THEN cqueue' = cqueue \ {p} /\ UNCHANGED cw
       ELSE IF ~seen[p].live THEN cqueue' = cqueue \ {p} /\ UNCHANGED cw
       ELSE IF setup.warm[p] # None /\ \E n \in Candidates(p) : Removable(n, p)
       THEN /\ cw' = [CIdle EXCEPT !.pc = "check", !.pool = p, !.stale = behind,
                                   !.todo = {n \in Candidates(p) : Removable(n, p)}]
            /\ cqueue' = cqueue \ {p}
       ELSE UNCHANGED <<cw, cqueue>>
    /\ UNCHANGED <<setup, knode, sel, seen, gstate, cache, queue, gqueue, w, wrong, left>>

CRetry == cw' = CIdle /\ cqueue' = cqueue \cup {cw.pool}

Next1(todo) == IF todo = {} THEN CRetry
               ELSE cw' = [cw EXCEPT !.pc = "check", !.todo = todo] /\ UNCHANGED cqueue

Pick(n) == wrong' = IF gnode[n].cap THEN wrong \cup {<<n, cw.pool>>} ELSE wrong

\* A GPUNode of a pool in provisioning mode is deleted by its name, whatever its
\* version; an error if there is none.
CompactDelete(n) ==
    /\ cw.pc = "check" /\ n \in cw.todo /\ cw.pool \in setup.prov
    /\ Put(n, Deleted(gnode[n]), pods[n])
    /\ w' = IF w.node = n /\ Deleted(gnode[n]) # gnode[n] THEN [w EXCEPT !.stale = TRUE] ELSE w
    /\ IF gnode[n].state = "none" THEN CRetry ELSE Next1(cw.todo \ {n})
    /\ Pick(n)
    /\ UNCHANGED <<setup, knode, sel, seen, cache, queue, gqueue, left>>

\* One of another pool is updated, with a phase that the update leaves out.
CompactUpdate(n) ==
    /\ cw.pc = "check" /\ n \in cw.todo /\ cw.pool \notin setup.prov
    /\ IF n \in cw.stale THEN CRetry /\ UNCHANGED wrong
       ELSE /\ cw' = [cw EXCEPT !.pc = "mark", !.node = n, !.todo = @ \ {n}]
            /\ Pick(n) /\ UNCHANGED cqueue
    /\ UNCHANGED <<setup, knode, sel, seen, gstate, cache, queue, gqueue, w, left>>

CompactNode(n) == CompactDelete(n) \/ CompactUpdate(n)

CompactMark ==
    /\ cw.pc = "mark"
    /\ IF knode[cw.node].live
       THEN /\ knode' = [knode EXCEPT ![cw.node].mark = TRUE]
            /\ queue' = queue \cup {cw.node}
            /\ Next1(cw.todo)
       ELSE CRetry /\ UNCHANGED <<knode, queue>>
    /\ UNCHANGED <<setup, sel, seen, gstate, cache, gqueue, w, wrong, left>>

--------------------------------------------------------------------------------
(* Disturbances and surroundings *)

\* kubelet writes the status of a live node again and again.
Heartbeat(n) ==
    /\ knode[n].live /\ n \notin queue
    /\ queue' = queue \cup {n}
    /\ UNCHANGED <<setup, knode, sel, seen, gstate, cache, gqueue, cqueue, w, cw, wrong, left>>

\* The garbage collector deletes what has lost all of its owners.
Collect(n) ==
    /\ gnode[n].state = "live" /\ gnode[n].owners # {}
    /\ "node" \in gnode[n].owners => ~knode[n].live
    /\ "pool" \in gnode[n].owners => ~sel[gnode[n].pool].live
    /\ Put(n, Deleted(gnode[n]), pods[n]) /\ Outdate(n, Deleted(gnode[n]))
    /\ UNCHANGED <<setup, knode, sel, seen, cache, queues, wrong, left>>

Relabel(n) ==
    /\ Spend("label") /\ knode[n].live
    /\ \E l \in Labels : knode' = [knode EXCEPT ![n].label = l]
    /\ queue' = queue \cup {n}
    /\ UNCHANGED <<setup, sel, seen, gstate, cache, gqueue, cqueue, w, cw, wrong>>

ChangePool(p) ==
    /\ sel[p].live
    /\ \/ /\ Spend("pool")
          /\ \E s \in SUBSET Labels, b \in BOOLEAN :
               sel' = [sel EXCEPT ![p].picks = s, ![p].broken = b]
       \/ Spend("delete") /\ sel' = [sel EXCEPT ![p].live = FALSE]
    /\ UNCHANGED <<setup, knode, seen, gstate, cache, queues, w, cw, wrong>>

DeleteNode(n) ==
    /\ Spend("delete") /\ knode[n].live
    /\ knode' = [knode EXCEPT ![n].live = FALSE]
    /\ queue' = queue \cup {n}
    /\ UNCHANGED <<setup, sel, seen, gstate, cache, gqueue, cqueue, w, cw, wrong>>

DeleteGPUNode(n) ==
    /\ Spend("delete") /\ gnode[n].state = "live"
    /\ Put(n, Deleted(gnode[n]), pods[n]) /\ Outdate(n, Deleted(gnode[n]))
    /\ UNCHANGED <<setup, knode, sel, seen, cache, queues, wrong>>

Abort ==
    /\ Spend("api")
    /\ \/ w.pc # "idle" /\ Retry /\ UNCHANGED <<cw, cqueue>>
       \/ cw.pc # "idle" /\ CRetry /\ UNCHANGED <<w, queue>>
    /\ UNCHANGED <<setup, knode, sel, seen, gstate, cache, gqueue, wrong>>

Crash ==
    /\ Spend("crash")
    /\ w' = Idle /\ cw' = CIdle /\ seen' = sel /\ cache' = gnode /\ behind' = {}
    /\ queue' = {n \in Nodes : knode[n].live}
    /\ gqueue' = {n \in Nodes : gnode[n].state # "none"} /\ cqueue' = gqueue'
    /\ UNCHANGED <<setup, knode, sel, gnode, pods, wrong>>

--------------------------------------------------------------------------------

Step(n) == \/ Start(n) \/ GPUNodeReconcile(n) \/ GPUNodeFinalize(n)
           \/ SyncGPUNode(n) \/ Discover(n) \/ HypervisorRuns(n) \/ Collect(n)

Next ==
    \/ \E n \in Nodes : Step(n) \/ Heartbeat(n) \/ CompactNode(n)
    \/ Get \/ Create \/ InitStatus \/ SyncPools \/ CompactMark
    \/ \E x \in Nodes \cup Pools : CompactList(x)
    \/ \E n \in Nodes : Relabel(n) \/ DeleteNode(n) \/ DeleteGPUNode(n)
    \/ \E p \in Pools : ChangePool(p)
    \/ Abort \/ Crash

Spec == Init /\ [][Next]_vars

\* Workers and informers run, nodes report, jobs and pods get to run, and the garbage
\* collector works.  A version the cache lacks may come and go, a request may be
\* taken by another reconcile: the worker's choice of a request is strongly fair.
Fairness ==
    /\ WF_vars(Get) /\ WF_vars(Create) /\ WF_vars(InitStatus) /\ WF_vars(SyncPools)
    /\ WF_vars(CompactMark)
    /\ \A x \in Nodes \cup Pools : WF_vars(CompactList(x))
    /\ \A n \in Nodes :
         /\ SF_vars(Start(n)) /\ SF_vars(GPUNodeReconcile(n)) /\ SF_vars(GPUNodeFinalize(n))
         /\ WF_vars(SyncGPUNode(n)) /\ WF_vars(Discover(n)) /\ WF_vars(HypervisorRuns(n))
         /\ WF_vars(Collect(n)) /\ WF_vars(Heartbeat(n)) /\ WF_vars(CompactNode(n))

FairSpec == Spec /\ Fairness

--------------------------------------------------------------------------------
(* Properties *)

\* Every variable keeps its type; a GPUNode that runs or has capacity names its node.
TypeOK ==
    /\ setup \in Setups /\ knode \in [Nodes -> Node]
    /\ sel \in [Pools -> Pool] /\ seen \in [Pools -> Pool]
    /\ gnode \in [Nodes -> GPUNode] /\ cache \in [Nodes -> GPUNode]
    /\ behind \subseteq Nodes /\ pods \in [Nodes -> Pods]
    /\ queue \subseteq Nodes /\ gqueue \subseteq Nodes /\ cqueue \subseteq Nodes \cup Pools
    /\ w \in [pc : {"idle", "get", "create", "status"}, node : Nodes \cup {None},
              pool : Pools \cup {None}, init : BOOLEAN, stale : BOOLEAN]
    /\ cw \in [pc : {"idle", "check", "mark"}, pool : Pools \cup {None},
               node : Nodes \cup {None}, todo : SUBSET Nodes, stale : SUBSET Nodes]
    /\ wrong \subseteq Nodes \X Pools /\ left \in 0..setup.faults

\* A capacity that the discovery job has written is not reset by a reconcile that
\* read the GPUNode before: neither InitializeStatus (node_controller.go:139) nor the
\* GPUNode controller's update of the whole status (gpunode_controller.go:159), made
\* from an older version, gets through.
CapacityKept ==
    [][\A n \in Nodes : gnode[n].cap /\ gnode'[n].state # "none" => gnode'[n].cap]_vars

\* "deletion won't impact warm-up capacity" (gpupool_compaction_controller.go:95): no
\* GPUNode that compaction picks has a capacity that its pool would miss.  It is violated:
\* a GPUNode is deleted by its name (line 98) after its capacity has been discovered.
NothingUsefulPicked == wrong = {}

\* That much holds of the pools that are not in provisioning mode.  Compaction lists
\* GPUNodes from a cache; there it marks a node only after an update of the version it
\* listed, so that one whose capacity is known when the update is made is not picked.
\* Where it deletes instead, no version protects the GPUNode.
UsefulKept == wrong \subseteq Nodes \X setup.prov

\* A live node, no broken selector, and no pool whose compaction deletes GPUNodes.
Settled(n) ==
    /\ knode[n].live
    /\ \A p \in Pools : sel[p].live => ~sel[p].broken
    /\ \A p \in setup.prov : setup.warm[p] # 0

\* A live node has a GPUNode that names it if some pool selects it, and none if no
\* pool does, once labels and selectors no longer change; unless a pool's selector
\* is broken, or compaction deletes the GPUNode of a pool in provisioning mode.
SelectionConverges ==
    <>[](\A n \in Nodes :
           Settled(n) =>
             IF Hits(n, sel) = {} THEN gnode[n].state = "none"
             ELSE gnode[n].state = "live" /\ gnode[n].init)

\* The GPUNode of a selected node runs in the end, with its capacity discovered, if
\* the pool that its label names is still there.
RunningReached ==
    <>[](\A n \in Nodes :
           Settled(n) /\ gnode[n].state = "live" /\ sel[gnode[n].pool].live =>
             gnode[n].run /\ (gnode[n].cap <=> n \in setup.gpus))

\* A GPUNode whose node and pool are both gone does not stay.
Collected ==
    <>[](\A n \in Nodes : gnode[n].state # "none" => knode[n].live \/ sel[gnode[n].pool].live)

--------------------------------------------------------------------------------
(* What the proofs rest on *)

\* What the workers carry while they are busy; w.init is set by the read.
Carried ==
    /\ w.pc = "idle" => w = Idle
    /\ w.pc # "idle" => w.node \in Nodes
    /\ w.pc \in {"get", "create"} => ~w.init
    /\ cw.pc = "idle" => cw = CIdle
    /\ cw.pc # "idle" => cw.pool \in Pools
    /\ cw.pc = "mark" => cw.node \in Nodes

\* A GPUNode that is not behind is in the cache as it is.
CacheKnows == \A n \in Nodes \ behind : cache[n] = gnode[n]

\* Only the discovery job of a GPUNode that is there, on a node with GPUs, finds a
\* capacity.
CapacityKnows == \A n \in Nodes : gnode[n].cap => n \in setup.gpus /\ gnode[n].state # "none"

\* A version that the workers hold and that is not stale shows what they read of it.
WorkerKnows  == w.pc = "status" /\ ~w.init /\ ~w.stale => ~gnode[w.node].cap
CompactKnows == \A n \in cw.todo \ cw.stale : ~gnode[n].cap

SelectionInv ==
    /\ TypeOK /\ Carried /\ CacheKnows /\ CapacityKnows /\ WorkerKnows /\ CompactKnows
    /\ UsefulKept

================================================================================
