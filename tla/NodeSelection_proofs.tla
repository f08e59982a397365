-------------------------- MODULE NodeSelection_proofs --------------------------
(***************************************************************************)
(* Proofs about NodeSelection, for any nodes, pools, labels and setups.    *)
(***************************************************************************)
EXTENDS NodeSelection, TLAPS

\* The invariant by the part of the state it is about.
Objects ==
    /\ setup \in Setups
    /\ gnode \in [Nodes -> GPUNode] /\ cache \in [Nodes -> GPUNode]
    /\ behind \subseteq Nodes /\ pods \in [Nodes -> Pods]
    /\ CacheKnows /\ CapacityKnows

Workers == [pc : {"idle", "get", "create", "status"}, node : Nodes \cup {None},
            pool : Pools \cup {None}, init : BOOLEAN, stale : BOOLEAN]

NodeWorker ==
    /\ w \in Workers /\ queue \subseteq Nodes
    /\ w.pc = "idle" => w = Idle
    /\ w.pc # "idle" => w.node \in Nodes
    /\ w.pc \in {"get", "create"} => ~w.init
    /\ WorkerKnows

Compactors == [pc : {"idle", "check", "mark"}, pool : Pools \cup {None},
               node : Nodes \cup {None}, todo : SUBSET Nodes, stale : SUBSET Nodes]

Compactor ==
    /\ cw \in Compactors /\ cqueue \subseteq Nodes \cup Pools
    /\ cw.pc = "idle" => cw = CIdle
    /\ cw.pc # "idle" => cw.pool \in Pools
    /\ cw.pc = "mark" => cw.node \in Nodes
    /\ CompactKnows

Around ==
    /\ knode \in [Nodes -> Node] /\ sel \in [Pools -> Pool] /\ seen \in [Pools -> Pool]
    /\ gqueue \subseteq Nodes /\ left \in 0..setup.faults
    /\ wrong \subseteq Nodes \X Pools /\ wrong \subseteq Nodes \X setup.prov

LEMMA InvParts == SelectionInv <=> Objects /\ NodeWorker /\ Compactor /\ Around
  BY DEF SelectionInv, Objects, NodeWorker, Compactor, Around, TypeOK, Carried, UsefulKept,
         Workers, Compactors

LEMMA InvPartsNext == SelectionInv' <=> Objects' /\ NodeWorker' /\ Compactor' /\ Around'
  BY DEF SelectionInv, Objects, NodeWorker, Compactor, Around, TypeOK, Carried, UsefulKept,
         Workers, Compactors

--------------------------------------------------------------------------------
(* Objects *)

\* The GPUNodes that the controllers write have their type.  A deletion leaves the
\* capacity alone or removes the GPUNode; a new one and an initialised one have none.
LEMMA Written ==
    ASSUME NEW g \in GPUNode
    PROVE  /\ NoGPUNode \in GPUNode /\ ~NoGPUNode.cap /\ NoGPUNode.state = "none"
           /\ Deleted(g) \in GPUNode
           /\ Deleted(g) = NoGPUNode \/ (Deleted(g).cap = g.cap /\ (g.state # "none" => Deleted(g).state # "none"))
           /\ Initialized(g) \in GPUNode /\ ~Initialized(g).cap
           /\ \A p \in Pools \cup {None} :
                GenerateGPUNode(p) \in GPUNode /\ ~GenerateGPUNode(p).cap
<1>1. NoGPUNode \in GPUNode /\ ~NoGPUNode.cap /\ NoGPUNode.state = "none"
  BY DEF NoGPUNode, GPUNode
<1>2. Initialized(g) \in GPUNode /\ ~Initialized(g).cap
  BY DEF Initialized, GPUNode
<1>3. ASSUME NEW p \in Pools \cup {None}
      PROVE  GenerateGPUNode(p) \in GPUNode /\ ~GenerateGPUNode(p).cap
  BY DEF GenerateGPUNode, NoGPUNode, GPUNode
<1>4. /\ [g EXCEPT !.state = "deleting"] \in GPUNode
      /\ [g EXCEPT !.state = "deleting"].cap = g.cap
      /\ [g EXCEPT !.state = "deleting"].state = "deleting"
  BY DEF GPUNode
<1>5. CASE g.state = "live" /\ ~g.fin
  BY <1>1, <1>2, <1>3, <1>5 DEF Deleted
<1>6. CASE g.state = "live" /\ g.fin
  BY <1>1, <1>2, <1>3, <1>4, <1>6 DEF Deleted
<1>7. CASE g.state # "live"
  BY <1>1, <1>2, <1>3, <1>7 DEF Deleted
<1>. QED
  BY <1>5, <1>6, <1>7

\* What a write does.
LEMMA Stored ==
    ASSUME Objects, NEW n \in Nodes, NEW g \in GPUNode, NEW p \in Pods, Put(n, g, p)
    PROVE  /\ gnode' \in [Nodes -> GPUNode] /\ gnode'[n] = g
           /\ \A m \in Nodes \ {n} : gnode'[m] = gnode[m]
           /\ behind' \subseteq Nodes /\ behind \subseteq behind'
           /\ n \in behind' \/ g = gnode[n]
           /\ pods' \in [Nodes -> Pods]
<1>1. NoPods \in Pods
  BY DEF NoPods, Pods
<1>. QED
  BY <1>1 DEF Put, Objects

\* A write that shows a capacity only where there is one.
LEMMA PutObjects ==
    ASSUME Objects, NEW n \in Nodes, NEW g \in GPUNode, NEW p \in Pods, Put(n, g, p),
           g.cap => n \in setup.gpus /\ g.state # "none", UNCHANGED <<setup, cache>>
    PROVE  Objects'
<1>1. /\ gnode' \in [Nodes -> GPUNode] /\ gnode'[n] = g
      /\ \A m \in Nodes \ {n} : gnode'[m] = gnode[m]
      /\ behind' \subseteq Nodes /\ behind \subseteq behind'
      /\ n \in behind' \/ g = gnode[n]
      /\ pods' \in [Nodes -> Pods]
  BY Stored
<1>2. CacheKnows'
  BY <1>1 DEF Objects, CacheKnows
<1>3. CapacityKnows'
  BY <1>1 DEF Objects, CapacityKnows
<1>. QED
  BY <1>1, <1>2, <1>3 DEF Objects

\* The Node controller's worker learns of a write by somebody else.
LEMMA OutdateWorker ==
    ASSUME NodeWorker, NEW n \in Nodes, NEW g, gnode'[n] = g,
           \A m \in Nodes \ {n} : gnode'[m] = gnode[m],
           w' = (IF w.node = n /\ g # gnode[n] THEN [w EXCEPT !.stale = TRUE] ELSE w),
           queue' \subseteq Nodes
    PROVE  NodeWorker'
<1>1. CASE w.node = n /\ g # gnode[n]
  <2>1. w.pc # "idle"
    BY <1>1, SetupAssumption DEF NodeWorker, Idle
  <2>2. w' \in Workers /\ w'.pc = w.pc /\ w'.node = w.node /\ w'.init = w.init /\ w'.stale
    BY <1>1 DEF NodeWorker, Workers
  <2>. QED
    BY <2>1, <2>2 DEF NodeWorker, WorkerKnows
<1>2. CASE ~(w.node = n /\ g # gnode[n])
  <2>1. w.pc # "idle" => gnode'[w.node] = gnode[w.node]
    BY <1>2 DEF NodeWorker
  <2>. QED
    BY <1>2, <2>1 DEF NodeWorker, WorkerKnows
<1>. QED
  BY <1>1, <1>2

\* So does the compaction controller's.
LEMMA OutdateCompactor ==
    ASSUME Compactor, NEW n \in Nodes, NEW g, gnode'[n] = g,
           \A m \in Nodes \ {n} : gnode'[m] = gnode[m],
           cw' = Outdated(n) \/ (cw' = cw /\ (gnode[n].cap = g.cap \/ ~g.cap)),
           cqueue' \subseteq Nodes \cup Pools
    PROVE  Compactor'
<1>1. CASE cw' = cw /\ (gnode[n].cap = g.cap \/ ~g.cap)
  <2>1. CompactKnows'
    BY <1>1 DEF Compactor, CompactKnows, Compactors
  <2>. QED
    BY <1>1, <2>1 DEF Compactor
<1>2. CASE cw' = Outdated(n) /\ n \notin cw.todo
  <2>1. CompactKnows'
    BY <1>2 DEF Compactor, CompactKnows, Compactors, Outdated
  <2>. QED
    BY <1>2, <2>1 DEF Compactor, Outdated
<1>3. CASE cw' = Outdated(n) /\ n \in cw.todo
  <2>1. cw.pc # "idle"
    BY <1>3 DEF Compactor, CIdle
  <2>2. /\ cw' \in Compactors /\ cw'.pc = cw.pc /\ cw'.pool = cw.pool /\ cw'.node = cw.node
        /\ cw'.todo = cw.todo /\ cw'.stale = cw.stale \cup {n}
    BY <1>3 DEF Outdated, Compactor, Compactors
  <2>3. CompactKnows'
    BY <2>2 DEF Compactor, CompactKnows, Compactors
  <2>. QED
    BY <2>1, <2>2, <2>3 DEF Compactor
<1>. QED
  BY <1>1, <1>2, <1>3

\* A write of the GPUNode controller, of the discovery job, of a user or of the
\* garbage collector.
LEMMA Rewritten ==
    ASSUME SelectionInv, NEW n \in Nodes, NEW g \in GPUNode, NEW p \in Pods, Put(n, g, p),
           Outdate(n, g), g.cap => n \in setup.gpus /\ g.state # "none",
           UNCHANGED <<setup, knode, sel, seen, cache, cqueue, wrong>>,
           queue' \subseteq Nodes, gqueue' \subseteq Nodes, left' \in 0..setup.faults
    PROVE  SelectionInv'
<1>p. Objects /\ NodeWorker /\ Compactor /\ Around
  BY InvParts
<1>1. Objects'
  BY <1>p, PutObjects
<1>2. gnode'[n] = g /\ \A m \in Nodes \ {n} : gnode'[m] = gnode[m]
  BY <1>p, Stored
<1>3. NodeWorker'
  BY <1>p, <1>2, OutdateWorker DEF Outdate
<1>4. cw' = Outdated(n) \/ (cw' = cw /\ gnode[n].cap = g.cap)
  BY DEF Outdate
<1>5. Compactor'
  BY <1>p, <1>2, <1>4, OutdateCompactor DEF Compactor
<1>6. Around'
  BY <1>p DEF Around
<1>. QED
  BY <1>1, <1>3, <1>5, <1>6, InvPartsNext

--------------------------------------------------------------------------------
(* Steps *)

\* A disturbance is counted.
LEMMA Spent ==
    ASSUME setup \in Setups, left \in 0..setup.faults, NEW f, Spend(f)
    PROVE  left' \in 0..setup.faults
<1>1. setup.faults \in Nat
  BY SetupAssumption
<1>. QED
  BY <1>1 DEF Spend

\* The GPUNode controller writes nothing from an older version, and what it writes
\* keeps the capacity.
LEMMA ServedKeeps ==
    ASSUME Objects, NEW n \in Nodes
    PROVE  /\ Served(n).gpu \in GPUNode /\ Served(n).pods \in Pods
           /\ Served(n).gpu.cap = gnode[n].cap /\ Served(n).gpu.state = gnode[n].state
<1>. DEFINE c   == [cache[n] EXCEPT !.fin = TRUE]
            run == pods[n].hyper = "running"
<1>1. gnode[n] \in GPUNode /\ cache[n] \in GPUNode /\ pods[n] \in Pods
  BY DEF Objects
<1>2. Started(n) \in Pods
  <2>1. /\ (IF pods[n].job = "none" THEN "run" ELSE pods[n].job) \in {"none", "run", "done"}
        /\ (IF pods[n].hyper = "none" THEN "pending" ELSE pods[n].hyper)
             \in {"none", "pending", "running"}
    BY <1>1 DEF Pods
  <2>. QED
    BY <2>1 DEF Started, Pods
<1>3. c \in GPUNode /\ c.cap = cache[n].cap /\ c.state = cache[n].state
  BY <1>1 DEF GPUNode
<1>4. n \notin behind => cache[n] = gnode[n]
  BY DEF Objects, CacheKnows
<1>5. ASSUME c.init PROVE /\ [c EXCEPT !.run = run] \in GPUNode
                          /\ [c EXCEPT !.run = run].cap = c.cap
                          /\ [c EXCEPT !.run = run].state = c.state
  BY <1>3, <1>5 DEF GPUNode
<1>6. \/ Served(n).gpu = gnode[n]
      \/ n \notin behind /\ Served(n).gpu = c
      \/ n \notin behind /\ c.init /\ Served(n).gpu = [c EXCEPT !.run = run]
  BY DEF Served
<1>7. Served(n).pods = pods[n] \/ Served(n).pods = Started(n)
  BY DEF Served
<1>. HIDE DEF c, run
<1>. QED
  BY <1>1, <1>2, <1>3, <1>4, <1>5, <1>6, <1>7

\* The steps that write a GPUNode, other than those of the Node controller for a
\* selected node and of compaction.
LEMMA WriteInv ==
    ASSUME SelectionInv, NEW n \in Nodes,
           \/ Start(n) /\ knode[n].live /\ Hits(n, seen) = {}
           \/ GPUNodeReconcile(n) \/ GPUNodeFinalize(n) \/ Discover(n) \/ Collect(n)
           \/ DeleteGPUNode(n)
    PROVE  SelectionInv'
<1>p. Objects /\ NodeWorker /\ Compactor /\ Around
  BY InvParts
<1>t. gnode[n] \in GPUNode /\ pods[n] \in Pods /\ queue \subseteq Nodes
      /\ gqueue \subseteq Nodes /\ left \in 0..setup.faults /\ setup \in Setups
  BY <1>p DEF Objects, NodeWorker, Around
<1>k. gnode[n].cap => n \in setup.gpus /\ gnode[n].state # "none"
  BY <1>p DEF Objects, CapacityKnows
<1>d. /\ NoGPUNode \in GPUNode /\ ~NoGPUNode.cap /\ Deleted(gnode[n]) \in GPUNode
      /\ Deleted(gnode[n]).cap => n \in setup.gpus /\ Deleted(gnode[n]).state # "none"
  BY <1>t, <1>k, Written
<1>1. CASE Start(n) /\ knode[n].live /\ Hits(n, seen) = {}
  BY <1>1, <1>t, <1>d, Rewritten DEF Start
<1>2. CASE GPUNodeReconcile(n)
  <2>1. /\ Served(n).gpu \in GPUNode /\ Served(n).pods \in Pods
        /\ Served(n).gpu.cap = gnode[n].cap /\ Served(n).gpu.state = gnode[n].state
    BY <1>p, ServedKeeps
  <2>. QED
    BY <1>2, <1>t, <1>k, <2>1, Rewritten DEF GPUNodeReconcile
<1>3. CASE GPUNodeFinalize(n)
  <2>1. CASE cache[n].state = "deleting" /\ n \in behind
    <3>1. UNCHANGED vars
      BY <1>3, <2>1 DEF GPUNodeFinalize, vars, queues
    <3>. QED
      BY <1>p, <3>1, InvPartsNext
      DEF vars, gstate, queues, Objects, NodeWorker, Compactor, Around, CacheKnows,
          CapacityKnows, WorkerKnows, CompactKnows
  <2>2. CASE ~(cache[n].state = "deleting" /\ n \in behind)
    <3>. DEFINE g == IF cache[n].state = "deleting" THEN NoGPUNode ELSE gnode[n]
    <3>1. g \in GPUNode /\ (g.cap => n \in setup.gpus /\ g.state # "none")
      BY <1>t, <1>k, <1>d
    <3>2. Put(n, g, pods[n]) /\ Outdate(n, g)
      BY <1>3, <2>2 DEF GPUNodeFinalize
    <3>. HIDE DEF g
    <3>. QED
      BY <1>3, <1>t, <3>1, <3>2, Rewritten DEF GPUNodeFinalize
  <2>. QED
    BY <2>1, <2>2
<1>4. CASE Discover(n)
  <2>. DEFINE g == [gnode[n] EXCEPT !.init = TRUE, !.run = TRUE, !.cap = n \in setup.gpus]
              p == [pods[n] EXCEPT !.job = "done"]
  <2>1. g \in GPUNode /\ g.cap = (n \in setup.gpus) /\ g.state = gnode[n].state
    <3>1. ASSUME NEW x \in GPUNode, NEW b \in BOOLEAN,
                 NEW y, y = [x EXCEPT !.init = TRUE, !.run = TRUE, !.cap = b]
          PROVE  y \in GPUNode /\ y.cap = b /\ y.state = x.state
      BY <3>1 DEF GPUNode
    <3>2. PICK b \in BOOLEAN : b = (n \in setup.gpus)
      <4>1. (n \in setup.gpus) \in BOOLEAN
        OBVIOUS
      <4>. QED
        BY <4>1, Zenon
    <3>3. PICK x \in GPUNode : x = gnode[n]
      BY <1>t
    <3>4. g = [x EXCEPT !.init = TRUE, !.run = TRUE, !.cap = b]
      BY <3>2, <3>3
    <3>. HIDE DEF g
    <3>5. g \in GPUNode /\ g.cap = b /\ g.state = x.state
      BY <3>1, <3>4
    <3>. QED
      BY <3>2, <3>3, <3>5
  <2>2. p \in Pods
    BY <1>t DEF Pods
  <2>3. Put(n, g, p) /\ Outdate(n, g) /\ gnode[n].state # "none"
    BY <1>4 DEF Discover
  <2>. HIDE DEF g, p
  <2>. QED
    BY <1>4, <1>t, <2>1, <2>2, <2>3, Rewritten DEF Discover
<1>5. CASE Collect(n)
  BY <1>5, <1>t, <1>d, Rewritten DEF Collect, queues
<1>6. CASE DeleteGPUNode(n)
  BY <1>6, <1>t, <1>d, Spent, Rewritten DEF DeleteGPUNode, queues
<1>. QED
  BY <1>1, <1>2, <1>3, <1>4, <1>5, <1>6

\* Each part depends on the variables it names.
LEMMA Frames ==
    /\ Objects /\ UNCHANGED <<setup, gstate, cache>> => Objects'
    /\ NodeWorker /\ UNCHANGED <<w, gnode>> /\ queue' \subseteq Nodes => NodeWorker'
    /\ Compactor /\ UNCHANGED <<cw, gnode>> /\ cqueue' \subseteq Nodes \cup Pools
         => Compactor'
    /\ Around /\ UNCHANGED <<setup, knode, sel, seen, gqueue, wrong, left>> => Around'
<1>1. Objects /\ UNCHANGED <<setup, gstate, cache>> => Objects'
  BY DEF Objects, gstate, CacheKnows, CapacityKnows
<1>2. NodeWorker /\ UNCHANGED <<w, gnode>> /\ queue' \subseteq Nodes => NodeWorker'
  BY DEF NodeWorker, WorkerKnows
<1>3. Compactor /\ UNCHANGED <<cw, gnode>> /\ cqueue' \subseteq Nodes \cup Pools
        => Compactor'
  BY DEF Compactor, CompactKnows
<1>4. Around /\ UNCHANGED <<setup, knode, sel, seen, gqueue, wrong, left>> => Around'
  BY DEF Around
<1>. QED
  BY <1>1, <1>2, <1>3, <1>4

\* A worker that has nothing to do.
LEMMA Resting ==
    /\ w' = Idle /\ queue' \subseteq Nodes => NodeWorker'
    /\ cw' = CIdle /\ cqueue' \subseteq Nodes \cup Pools => Compactor'
<1>1. Idle \in Workers /\ Idle.pc = "idle"
  BY DEF Idle, Workers
<1>2. CIdle \in Compactors /\ CIdle.pc = "idle" /\ CIdle.todo = {}
  BY DEF CIdle, Compactors
<1>. QED
  BY <1>1, <1>2 DEF NodeWorker, WorkerKnows, Compactor, CompactKnows

\* The Node controller preserves the invariant.
LEMMA ControllerInv ==
    ASSUME SelectionInv, (\E n \in Nodes : Start(n)) \/ Get \/ Create \/ InitStatus
    PROVE  SelectionInv'
<1>p. Objects /\ NodeWorker /\ Compactor /\ Around
  BY InvParts
<1>q. queue \subseteq Nodes /\ cqueue \subseteq Nodes \cup Pools
  BY <1>p DEF NodeWorker, Compactor
<1>1. ASSUME NEW n \in Nodes, Start(n) PROVE SelectionInv'
  <2>1. CASE knode[n].live /\ Hits(n, seen) = {}
    BY <1>1, <2>1, WriteInv
  <2>2. CASE UNCHANGED <<gstate, w, cw>> /\ queue' \subseteq Nodes
    <3>1. UNCHANGED <<setup, knode, sel, seen, cache, gqueue, cqueue, wrong, left>>
      BY <1>1 DEF Start
    <3>. QED
      BY <1>p, <1>q, <2>2, <3>1, Frames, InvPartsNext DEF gstate
  <2>3. ASSUME NEW p \in Hits(n, seen), queue' = queue \ {n}, UNCHANGED <<gstate, cw>>,
               w' = [Idle EXCEPT !.pc = "get", !.node = n, !.pool = p]
        PROVE  SelectionInv'
    <3>1. UNCHANGED <<setup, knode, sel, seen, cache, gqueue, cqueue, wrong, left>>
      BY <1>1 DEF Start
    <3>2. w' \in Workers /\ w'.pc = "get" /\ w'.node = n /\ ~w'.init
      BY <2>3 DEF Workers, Idle, Hits
    <3>3. NodeWorker'
      BY <1>q, <2>3, <3>2 DEF NodeWorker, WorkerKnows
    <3>. QED
      BY <1>p, <1>q, <2>3, <3>1, <3>3, Frames, InvPartsNext DEF gstate
  <2>. QED
    BY <1>1, <1>q, <2>1, <2>2, <2>3 DEF Start
<1>2. CASE Get \/ Create \/ InitStatus
  <2>n. PICK n \in Nodes : n = w.node
    BY <1>2, <1>p DEF Get, Create, InitStatus, NodeWorker
  <2>r. Retry \/ Return => NodeWorker'
    <3>1. Retry \/ Return => w' = Idle /\ queue' \subseteq Nodes
      BY <1>q, <2>n DEF Retry, Return
    <3>. QED
      BY <3>1, Resting
  <2>t. w \in Workers /\ gnode[n] \in GPUNode /\ cache[n] \in GPUNode /\ pods[n] \in Pods
        /\ (n \notin behind => cache[n] = gnode[n]) /\ (cache[n].cap => cache[n].init)
        /\ cache[n].init \in BOOLEAN
    BY <1>p DEF NodeWorker, Objects, CacheKnows, GPUNode
  <2>u. /\ UNCHANGED <<setup, knode, sel, seen, cache, gqueue, cqueue, wrong, left>>
        /\ Around'
    <3>1. UNCHANGED <<setup, knode, sel, seen, cache, gqueue, cqueue, wrong, left>>
      BY <1>2 DEF Get, Create, InitStatus
    <3>. QED
      BY <1>p, <3>1, Frames
  <2>1. CASE Get
    <3>1. UNCHANGED gnode /\ UNCHANGED pods /\ w.pc = "get" /\ ~w.init
      BY <1>p, <2>1 DEF Get, NodeWorker
    <3>2. behind' \subseteq Nodes /\ behind \subseteq behind'
      BY <1>p, <2>1, <2>n DEF Get, Objects
    <3>3. Objects'
      BY <1>p, <2>u, <3>1, <3>2 DEF Objects, CacheKnows, CapacityKnows
    <3>4. NodeWorker'
      <4>1. CASE w' = [w EXCEPT !.pc = "create"] /\ UNCHANGED queue
        <5>1. w' \in Workers /\ w'.pc = "create" /\ w'.node = n /\ ~w'.init
          BY <2>n, <2>t, <3>1, <4>1 DEF Workers
        <5>. QED
          BY <1>q, <4>1, <5>1 DEF NodeWorker, WorkerKnows
      <4>2. CASE /\ w' = [w EXCEPT !.pc = "status", !.init = cache[n].init, !.stale = FALSE]
                 /\ UNCHANGED queue /\ n \notin behind
        <5>1. w' \in Workers /\ w'.pc = "status" /\ w'.node = n /\ w'.init = cache[n].init
          BY <2>n, <2>t, <4>2 DEF Workers
        <5>2. ~w'.init => ~gnode'[n].cap
          BY <2>t, <3>1, <4>2, <5>1
        <5>. QED
          BY <1>q, <4>2, <5>1, <5>2 DEF NodeWorker, WorkerKnows
      <4>. QED
        BY <2>1, <2>n, <2>r, <4>1, <4>2 DEF Get
    <3>5. Compactor'
      <4>1. cw' = cw \/ cw' = Outdated(n)
        BY <2>1, <2>n DEF Get
      <4>. QED
        BY <1>p, <1>q, <2>u, <3>1, <4>1, OutdateCompactor
    <3>. QED
      BY <2>u, <3>3, <3>4, <3>5, InvPartsNext
  <2>2. CASE Create
    <3>1. CASE UNCHANGED <<gstate, cw>>
      <4>1. NodeWorker'
        <5>1. CASE /\ UNCHANGED queue
                   /\ w' = [w EXCEPT !.pc = "status", !.init = cache[n].init,
                                     !.stale = n \in behind]
          <6>1. PICK b \in BOOLEAN : b = (n \in behind)
            <7>1. (n \in behind) \in BOOLEAN
              OBVIOUS
            <7>. QED
              BY <7>1, Zenon
          <6>2. w' = [w EXCEPT !.pc = "status", !.init = cache[n].init, !.stale = b]
            BY <5>1, <6>1
          <6>3. /\ w' \in Workers /\ w'.pc = "status" /\ w'.node = n
                /\ w'.init = cache[n].init /\ w'.stale = b
            BY <2>n, <2>t, <6>2 DEF Workers
          <6>4. ~w'.init /\ ~w'.stale => ~gnode'[n].cap
            BY <2>t, <3>1, <6>1, <6>3 DEF gstate
          <6>. QED
            BY <1>q, <5>1, <6>3, <6>4 DEF NodeWorker, WorkerKnows
        <5>2. Retry \/ /\ UNCHANGED queue
                       /\ w' = [w EXCEPT !.pc = "status", !.init = cache[n].init,
                                         !.stale = n \in behind]
          <6>1. ASSUME Put(n, GenerateGPUNode(w.pool), pods[n]), gnode[n].state = "none"
                PROVE  FALSE
            <7>1. GenerateGPUNode(w.pool).state = "live"
              BY DEF GenerateGPUNode, NoGPUNode
            <7>2. gnode'[n] = GenerateGPUNode(w.pool)
              BY <1>p, <6>1 DEF Put, Objects
            <7>. QED
              BY <3>1, <6>1, <7>1, <7>2 DEF gstate
          <6>. QED
            BY <2>2, <2>n, <6>1 DEF Create
        <5>. QED
          BY <2>r, <5>1, <5>2
      <4>. QED
        BY <1>p, <1>q, <2>u, <3>1, <4>1, Frames, InvPartsNext DEF gstate
    <3>2. CASE ~UNCHANGED <<gstate, cw>>
      <4>. DEFINE g == GenerateGPUNode(w.pool)
      <4>1. /\ Put(n, g, pods[n]) /\ UNCHANGED queue /\ UNCHANGED cw
            /\ w' = [w EXCEPT !.pc = "status", !.stale = FALSE]
        BY <2>2, <2>n, <3>2 DEF Create
      <4>2. g \in GPUNode /\ ~g.cap
        <5>1. w.pool \in Pools \cup {None}
          BY <2>t DEF Workers
        <5>. QED
          BY <2>t, <5>1, Written
      <4>. HIDE DEF g
      <4>3. gnode'[n] = g /\ \A m \in Nodes \ {n} : gnode'[m] = gnode[m]
        BY <1>p, <2>t, <4>1, <4>2, Stored
      <4>4. Objects'
        BY <1>p, <2>t, <2>u, <4>1, <4>2, PutObjects
      <4>5. w' \in Workers /\ w'.pc = "status" /\ w'.node = n
        BY <2>n, <2>t, <4>1 DEF Workers
      <4>6. NodeWorker'
        BY <1>q, <4>1, <4>2, <4>3, <4>5 DEF NodeWorker, WorkerKnows
      <4>7. Compactor'
        BY <1>p, <1>q, <2>u, <4>1, <4>2, <4>3, OutdateCompactor
      <4>. QED
        BY <2>u, <4>4, <4>6, <4>7, InvPartsNext
    <3>. QED
      BY <3>1, <3>2
  <2>3. CASE InitStatus
    <3>1. NodeWorker'
      BY <2>3, <2>r DEF InitStatus
    <3>2. CASE UNCHANGED <<gstate, cw>>
      BY <1>p, <1>q, <2>u, <3>1, <3>2, Frames, InvPartsNext DEF gstate
    <3>3. CASE ~UNCHANGED <<gstate, cw>>
      <4>. DEFINE g == Initialized(gnode[n])
      <4>1. Put(n, g, pods[n]) /\ cw' = Outdated(n)
        BY <2>3, <2>n, <3>3 DEF InitStatus
      <4>2. g \in GPUNode /\ ~g.cap
        BY <2>t, Written
      <4>. HIDE DEF g
      <4>3. gnode'[n] = g /\ \A m \in Nodes \ {n} : gnode'[m] = gnode[m]
        BY <1>p, <2>t, <4>1, <4>2, Stored
      <4>4. Objects'
        BY <1>p, <2>t, <2>u, <4>1, <4>2, PutObjects
      <4>5. Compactor'
        BY <1>p, <1>q, <2>u, <4>1, <4>2, <4>3, OutdateCompactor
      <4>. QED
        BY <2>u, <3>1, <4>4, <4>5, InvPartsNext
    <3>. QED
      BY <3>2, <3>3
  <2>. QED
    BY <1>2, <2>1, <2>2, <2>3
<1>. QED
  BY <1>1, <1>2

\* So does compaction.
LEMMA CompactInv ==
    ASSUME SelectionInv,
           \/ \E n \in Nodes : CompactNode(n)
           \/ \E x \in Nodes \cup Pools : CompactList(x)
           \/ CompactMark
    PROVE  SelectionInv'
<1>p. Objects /\ NodeWorker /\ Compactor /\ Around
  BY InvParts
<1>q. /\ queue \subseteq Nodes /\ cqueue \subseteq Nodes \cup Pools
      /\ cw \in Compactors
  BY <1>p DEF NodeWorker, Compactor
<1>r. ASSUME cw.pc # "idle", CRetry PROVE Compactor'
  BY <1>p, <1>q, <1>r, Resting DEF CRetry, Compactor
<1>n. ASSUME cw.pc # "idle", NEW T \in SUBSET cw.todo, Next1(T),
             \A m \in T \ cw.stale : ~gnode'[m].cap
      PROVE  Compactor'
  <2>1. CASE T = {}
    BY <1>n, <1>r, <2>1 DEF Next1
  <2>2. CASE T # {}
    <3>1. cw' = [cw EXCEPT !.pc = "check", !.todo = T] /\ UNCHANGED cqueue
      BY <1>n, <2>2 DEF Next1
    <3>2. /\ cw' \in Compactors /\ cw'.pc = "check" /\ cw'.pool = cw.pool
          /\ cw'.todo = T /\ cw'.stale = cw.stale
      BY <1>q, <1>n, <3>1 DEF Compactors
    <3>. QED
      BY <1>p, <1>q, <1>n, <3>1, <3>2 DEF Compactor, CompactKnows
  <2>. QED
    BY <2>1, <2>2
<1>1. ASSUME NEW n \in Nodes, CompactNode(n) PROVE SelectionInv'
  <2>u. /\ UNCHANGED <<setup, knode, sel, seen, cache, queue, gqueue, left>>
        /\ cw.pc = "check" /\ n \in cw.todo
    BY <1>1 DEF CompactNode, CompactDelete, CompactUpdate
  <2>p. cw.pool \in Pools
    BY <1>p, <2>u DEF Compactor
  <2>1. CASE CompactDelete(n)
    <3>. DEFINE g == Deleted(gnode[n])
    <3>1. /\ cw.pool \in setup.prov /\ Put(n, g, pods[n])
          /\ w' = IF w.node = n /\ g # gnode[n] THEN [w EXCEPT !.stale = TRUE] ELSE w
          /\ CRetry \/ Next1(cw.todo \ {n})
          /\ wrong' = wrong \/ wrong' = wrong \cup {<<n, cw.pool>>}
      BY <2>1 DEF CompactDelete, Pick
    <3>t. gnode[n] \in GPUNode /\ pods[n] \in Pods
          /\ (gnode[n].cap => n \in setup.gpus /\ gnode[n].state # "none")
      BY <1>p DEF Objects, CapacityKnows
    <3>2. g \in GPUNode /\ (g.cap => n \in setup.gpus /\ g.state # "none")
      BY <3>t, Written
    <3>. HIDE DEF g
    <3>3. gnode'[n] = g /\ \A m \in Nodes \ {n} : gnode'[m] = gnode[m]
      BY <1>p, <3>t, <3>1, <3>2, Stored
    <3>4. Objects'
      BY <1>p, <3>t, <2>u, <3>1, <3>2, PutObjects
    <3>5. Compactor'
      <4>1. \A m \in (cw.todo \ {n}) \ cw.stale : ~gnode'[m].cap
        BY <1>p, <1>q, <3>3 DEF Compactor, CompactKnows, Compactors
      <4>. QED
        BY <1>n, <1>r, <2>u, <3>1, <4>1
    <3>6. NodeWorker'
      BY <1>p, <1>q, <2>u, <3>1, <3>3, OutdateWorker
    <3>7. Around'
      <4>1. /\ wrong \subseteq Nodes \X Pools /\ wrong \subseteq Nodes \X setup.prov
            /\ <<n, cw.pool>> \in Nodes \X Pools /\ <<n, cw.pool>> \in Nodes \X setup.prov
        BY <1>p, <2>p, <3>1 DEF Around
      <4>2. wrong' \subseteq Nodes \X Pools /\ wrong' \subseteq Nodes \X setup.prov
        BY <3>1, <4>1
      <4>. QED
        BY <1>p, <2>u, <4>2 DEF Around
    <3>. QED
      BY <3>4, <3>5, <3>6, <3>7, InvPartsNext
  <2>2. CASE CompactUpdate(n)
    <3>1. UNCHANGED <<gstate, w>>
      BY <2>2 DEF CompactUpdate
    <3>2. Objects' /\ NodeWorker'
      BY <1>p, <1>q, <2>u, <3>1, Frames DEF gstate
    <3>3. CASE n \in cw.stale
      <4>1. CRetry /\ wrong' = wrong
        BY <2>2, <3>3 DEF CompactUpdate
      <4>. QED
        BY <1>p, <1>r, <2>u, <3>2, <4>1, Frames, InvPartsNext
    <3>4. CASE n \notin cw.stale
      <4>1. ~gnode[n].cap
        BY <1>p, <2>u, <3>4 DEF Compactor, CompactKnows
      <4>2. /\ cw' = [cw EXCEPT !.pc = "mark", !.node = n, !.todo = @ \ {n}]
            /\ wrong' = wrong /\ UNCHANGED cqueue
        BY <2>2, <3>4, <4>1 DEF CompactUpdate, Pick
      <4>3. /\ cw' \in Compactors /\ cw'.pc = "mark" /\ cw'.pool = cw.pool /\ cw'.node = n
            /\ cw'.todo = cw.todo \ {n} /\ cw'.stale = cw.stale
        BY <1>q, <4>2 DEF Compactors
      <4>4. Compactor'
        BY <1>p, <1>q, <2>u, <3>1, <4>2, <4>3 DEF Compactor, CompactKnows, gstate
      <4>. QED
        BY <1>p, <2>u, <3>2, <4>2, <4>4, Frames, InvPartsNext
    <3>. QED
      BY <3>3, <3>4
  <2>. QED
    BY <1>1, <2>1, <2>2 DEF CompactNode
<1>2. ASSUME NEW x \in Nodes \cup Pools, CompactList(x) PROVE SelectionInv'
  <2>u. /\ UNCHANGED <<setup, knode, sel, seen, gstate, cache, queue, gqueue, w, wrong, left>>
        /\ Objects' /\ NodeWorker' /\ Around'
    <3>1. UNCHANGED <<setup, knode, sel, seen, gstate, cache, queue, gqueue, w, wrong, left>>
      BY <1>2 DEF CompactList
    <3>. QED
      BY <1>p, <1>q, <3>1, Frames DEF gstate
  <2>1. CASE UNCHANGED cw
    <3>1. cqueue' \subseteq Nodes \cup Pools
      BY <1>2, <1>q DEF CompactList
    <3>. QED
      BY <1>p, <2>1, <2>u, <3>1, Frames, InvPartsNext DEF gstate
  <2>2. CASE ~UNCHANGED cw
    <3>. DEFINE T == {n \in Candidates(x) : Removable(n, x)}
    <3>1. /\ x \in Pools /\ cqueue' = cqueue \ {x}
          /\ cw' = [CIdle EXCEPT !.pc = "check", !.pool = x, !.stale = behind, !.todo = T]
      BY <1>2, <2>2 DEF CompactList
    <3>2. T \subseteq Nodes /\ \A n \in T : ~cache[n].cap
      BY DEF Candidates, Removable
    <3>. HIDE DEF T
    <3>3. behind \subseteq Nodes /\ \A n \in Nodes \ behind : cache[n] = gnode[n]
      BY <1>p DEF Objects, CacheKnows
    <3>4. /\ cw' \in Compactors /\ cw'.pc = "check" /\ cw'.pool = x
          /\ cw'.todo = T /\ cw'.stale = behind
      BY <3>1, <3>2, <3>3 DEF CIdle, Compactors
    <3>5. CompactKnows'
      BY <2>u, <3>2, <3>3, <3>4 DEF CompactKnows, gstate
    <3>6. Compactor'
      BY <1>q, <2>u, <3>1, <3>4, <3>5 DEF Compactor
    <3>. QED
      BY <2>u, <3>6, InvPartsNext
  <2>. QED
    BY <2>1, <2>2
<1>3. CASE CompactMark
  <2>n. PICK n \in Nodes : n = cw.node
    BY <1>3, <1>p DEF CompactMark, Compactor
  <2>u. UNCHANGED <<setup, sel, seen, gstate, cache, gqueue, w, wrong, left>>
    BY <1>3 DEF CompactMark
  <2>1. queue' \subseteq Nodes
    BY <1>3, <1>q, <2>n DEF CompactMark
  <2>2. knode' \in [Nodes -> Node]
    <3>1. knode \in [Nodes -> Node]
      BY <1>p DEF Around
    <3>2. knode' = knode \/ knode' = [knode EXCEPT ![n].mark = TRUE]
      BY <1>3, <2>n DEF CompactMark
    <3>. QED
      BY <3>1, <3>2 DEF Node
  <2>3. Compactor'
    <3>1. \A m \in cw.todo \ cw.stale : ~gnode'[m].cap
      BY <1>p, <2>u DEF Compactor, CompactKnows, gstate
    <3>. QED
      BY <1>3, <1>r, <1>n, <2>u, <3>1 DEF CompactMark
  <2>4. Objects' /\ NodeWorker'
    BY <1>p, <2>u, <2>1, Frames DEF gstate
  <2>5. Around'
    BY <1>p, <2>u, <2>2 DEF Around
  <2>. QED
    BY <2>3, <2>4, <2>5, InvPartsNext
<1>. QED
  BY <1>1, <1>2, <1>3

\* So do the informers, kubelet, the users, failing calls and restarts.
LEMMA AroundInv ==
    ASSUME SelectionInv,
           \/ \E n \in Nodes : \/ SyncGPUNode(n) \/ HypervisorRuns(n) \/ Heartbeat(n)
                               \/ Relabel(n) \/ DeleteNode(n)
           \/ (\E p \in Pools : ChangePool(p)) \/ SyncPools \/ Abort \/ Crash
    PROVE  SelectionInv'
<1>p. Objects /\ NodeWorker /\ Compactor /\ Around
  BY InvParts
<1>q. /\ queue \subseteq Nodes /\ cqueue \subseteq Nodes \cup Pools
      /\ gqueue \subseteq Nodes /\ setup \in Setups /\ left \in 0..setup.faults
      /\ knode \in [Nodes -> Node] /\ sel \in [Pools -> Pool] /\ seen \in [Pools -> Pool]
  BY <1>p DEF NodeWorker, Compactor, Around, Objects
<1>1. ASSUME NEW n \in Nodes, SyncGPUNode(n) PROVE SelectionInv'
  <2>1. UNCHANGED <<setup, knode, sel, seen, gnode, pods, queue, w, cw, wrong, left>>
    BY <1>1 DEF SyncGPUNode
  <2>2. gqueue' \subseteq Nodes /\ cqueue' \subseteq Nodes \cup Pools
    BY <1>1, <1>q DEF SyncGPUNode
  <2>3. Objects'
    BY <1>1, <1>p, <2>1 DEF SyncGPUNode, Objects, CacheKnows, CapacityKnows
  <2>4. NodeWorker' /\ Compactor'
    BY <1>p, <1>q, <2>1, <2>2, Frames
  <2>5. Around'
    BY <1>p, <2>1, <2>2 DEF Around
  <2>. QED
    BY <2>3, <2>4, <2>5, InvPartsNext
<1>2. ASSUME NEW n \in Nodes, HypervisorRuns(n) PROVE SelectionInv'
  <2>1. UNCHANGED <<setup, knode, sel, seen, gnode, behind, cache, queue, cqueue, w, cw, wrong,
                    left>>
    BY <1>2 DEF HypervisorRuns
  <2>2. pods' \in [Nodes -> Pods]
    BY <1>2, <1>p DEF HypervisorRuns, Objects, Pods
  <2>3. Objects'
    BY <1>p, <2>1, <2>2 DEF Objects, CacheKnows, CapacityKnows
  <2>4. NodeWorker' /\ Compactor'
    BY <1>p, <1>q, <2>1, Frames
  <2>5. Around'
    BY <1>2, <1>p, <2>1 DEF HypervisorRuns, Around
  <2>. QED
    BY <2>3, <2>4, <2>5, InvPartsNext
<1>o. ASSUME UNCHANGED <<setup, gstate, cache, w, cw, wrong>>, queue' \subseteq Nodes,
             UNCHANGED <<gqueue, cqueue>>, knode' \in [Nodes -> Node],
             sel' \in [Pools -> Pool], seen' \in [Pools -> Pool], left' \in 0..setup.faults
      PROVE  SelectionInv'
  <2>1. Objects' /\ NodeWorker' /\ Compactor'
    BY <1>p, <1>q, <1>o, Frames DEF gstate
  <2>2. Around'
    BY <1>p, <1>o DEF Around
  <2>. QED
    BY <2>1, <2>2, InvPartsNext
<1>3. ASSUME NEW n \in Nodes, Heartbeat(n) PROVE SelectionInv'
  BY <1>3, <1>q, <1>o DEF Heartbeat
<1>4. ASSUME NEW n \in Nodes, Relabel(n) PROVE SelectionInv'
  <2>1. knode' \in [Nodes -> Node]
    BY <1>4, <1>q DEF Relabel, Node
  <2>2. left' \in 0..setup.faults
    BY <1>4, <1>q, Spent DEF Relabel
  <2>. QED
    BY <1>4, <1>q, <1>o, <2>1, <2>2 DEF Relabel
<1>5. ASSUME NEW n \in Nodes, DeleteNode(n) PROVE SelectionInv'
  <2>1. knode' \in [Nodes -> Node]
    BY <1>5, <1>q DEF DeleteNode, Node
  <2>2. left' \in 0..setup.faults
    BY <1>5, <1>q, Spent DEF DeleteNode
  <2>. QED
    BY <1>5, <1>q, <1>o, <2>1, <2>2 DEF DeleteNode
<1>6. ASSUME NEW p \in Pools, ChangePool(p) PROVE SelectionInv'
  <2>1. sel' \in [Pools -> Pool]
    <3>1. ASSUME NEW s \in SUBSET Labels, NEW b \in BOOLEAN,
                 sel' = [sel EXCEPT ![p].picks = s, ![p].broken = b]
          PROVE  sel' \in [Pools -> Pool]
      <4>1. sel[p] \in Pool
        BY <1>q
      <4>2. [sel[p] EXCEPT !.picks = s, !.broken = b] \in Pool
        BY <4>1 DEF Pool
      <4>3. sel' = [sel EXCEPT ![p] = [sel[p] EXCEPT !.picks = s, !.broken = b]]
        BY <1>q, <3>1
      <4>. QED
        BY <1>q, <4>2, <4>3
    <3>2. CASE sel' = [sel EXCEPT ![p].live = FALSE]
      BY <1>q, <3>2 DEF Pool
    <3>. QED
      BY <1>6, <3>1, <3>2 DEF ChangePool
  <2>2. left' \in 0..setup.faults
    BY <1>6, <1>q, Spent DEF ChangePool
  <2>. QED
    BY <1>6, <1>q, <1>o, <2>1, <2>2 DEF ChangePool, queues
<1>7. CASE SyncPools
  BY <1>7, <1>q, <1>o DEF SyncPools, queues
<1>8. CASE Abort
  <2>1. /\ UNCHANGED <<setup, knode, sel, seen, gstate, cache, gqueue, wrong>>
        /\ left' \in 0..setup.faults
    BY <1>8, <1>q, Spent DEF Abort
  <2>2. Objects' /\ Around'
    BY <1>p, <2>1, Frames DEF Around
  <2>3. CASE w.pc # "idle" /\ Retry /\ UNCHANGED <<cw, cqueue>>
    <3>1. w' = Idle /\ queue' \subseteq Nodes
      BY <1>p, <1>q, <2>3 DEF Retry, NodeWorker
    <3>. QED
      BY <1>p, <1>q, <2>1, <2>2, <2>3, <3>1, Resting, Frames, InvPartsNext DEF gstate
  <2>4. CASE cw.pc # "idle" /\ CRetry /\ UNCHANGED <<w, queue>>
    <3>1. cw' = CIdle /\ cqueue' \subseteq Nodes \cup Pools
      BY <1>p, <1>q, <2>1, <2>4 DEF CRetry, Compactor
    <3>. QED
      BY <1>p, <1>q, <2>1, <2>2, <2>4, <3>1, Resting, Frames, InvPartsNext DEF gstate
  <2>. QED
    BY <1>8, <2>3, <2>4 DEF Abort
<1>9. CASE Crash
  <2>1. UNCHANGED <<setup, knode, sel, gnode, pods, wrong>> /\ left' \in 0..setup.faults
    BY <1>9, <1>q, Spent DEF Crash
  <2>2. Objects'
    BY <1>9, <1>p, <2>1 DEF Crash, Objects, CacheKnows, CapacityKnows
  <2>3. NodeWorker' /\ Compactor'
    BY <1>9, <1>q, <2>1, Resting DEF Crash
  <2>4. Around'
    BY <1>9, <1>p, <2>1 DEF Crash, Around
  <2>. QED
    BY <2>2, <2>3, <2>4, InvPartsNext
<1>. QED
  BY <1>1, <1>2, <1>3, <1>4, <1>5, <1>6, <1>7, <1>8, <1>9

LEMMA InvInit == Init => SelectionInv
<1>. SUFFICES ASSUME Init PROVE SelectionInv
  OBVIOUS
<1>1. NoGPUNode \in GPUNode /\ ~NoGPUNode.cap /\ NoPods \in Pods
  BY DEF NoGPUNode, GPUNode, NoPods, Pods
<1>2. Objects
  BY <1>1 DEF Init, Objects, CacheKnows, CapacityKnows
<1>3. Idle \in Workers /\ Idle.pc = "idle"
  BY DEF Idle, Workers
<1>4. CIdle \in Compactors /\ CIdle.pc = "idle" /\ CIdle.todo = {}
  BY DEF CIdle, Compactors
<1>5. NodeWorker /\ Compactor
  BY <1>3, <1>4 DEF Init, NodeWorker, WorkerKnows, Compactor, CompactKnows
<1>6. knode \in [Nodes -> Node]
  <2>1. \A l \in Labels : [live |-> TRUE, label |-> l, mark |-> FALSE] \in Node
    BY DEF Node
  <2>2. {[live |-> TRUE, label |-> l, mark |-> FALSE] : l \in Labels} \subseteq Node
    BY <2>1
  <2>. QED
    BY <2>2 DEF Init
<1>7. sel \in [Pools -> Pool]
  <2>1. PICK f \in Selectors :
          sel = [p \in Pools |-> [live |-> TRUE, picks |-> f[p], broken |-> FALSE]]
    BY DEF Init
  <2>2. f \in [Pools -> SUBSET Labels]
    BY SetupAssumption
  <2>. QED
    BY <2>1, <2>2 DEF Pool
<1>8. setup.faults \in Nat /\ setup \in Setups
  BY SetupAssumption DEF Init
<1>9. Around
  BY <1>6, <1>7, <1>8 DEF Init, Around
<1>. QED
  BY <1>2, <1>5, <1>9, InvParts

\* SelectionInv is inductive.
LEMMA InvStep == SelectionInv /\ [Next]_vars => SelectionInv'
<1>. SUFFICES ASSUME SelectionInv, [Next]_vars PROVE SelectionInv'
  OBVIOUS
<1>1. CASE UNCHANGED vars
  <2>1. Objects /\ NodeWorker /\ Compactor /\ Around
    BY InvParts
  <2>2. UNCHANGED <<setup, gstate, cache, w, gnode, queue, cw, wrong, cqueue, knode, sel, seen,
                    gqueue, left>>
    BY <1>1 DEF vars, gstate, queues
  <2>3. queue' \subseteq Nodes /\ cqueue' \subseteq Nodes \cup Pools
    BY <2>1, <2>2 DEF NodeWorker, Compactor
  <2>. QED
    BY <2>1, <2>2, <2>3, Frames, InvPartsNext
<1>. QED
  BY <1>1, WriteInv, ControllerInv, CompactInv, AroundInv DEF Next, Step

\* The objects, caches, queues and workers keep their types for any nodes, pools and
\* setups, and a GPUNode that runs or has capacity names its node.
THEOREM SelectionTypes == Spec => []TypeOK
<1>1. SelectionInv => TypeOK
  BY DEF SelectionInv
<1>. QED
  BY <1>1, InvInit, InvStep, PTL DEF Spec

\* In the pools that are not in provisioning mode, compaction never picks a GPUNode
\* whose capacity was known when it was picked, although it lists the GPUNodes from a
\* cache that may be any number of versions behind: the update that precedes the mark
\* is refused for an older version.  The deletion in the other pools is outside of it.
THEOREM CompactionSafe == Spec => []UsefulKept
<1>1. SelectionInv => UsefulKept
  BY DEF SelectionInv
<1>. QED
  BY <1>1, InvInit, InvStep, PTL DEF Spec

\* A discovered capacity is never reset while the GPUNode is there: neither by
\* InitializeStatus nor by the status update of the GPUNode controller.
THEOREM CapacityNeverReset == Spec => CapacityKept
<1>. DEFINE A == \A n \in Nodes : gnode[n].cap /\ gnode'[n].state # "none" => gnode'[n].cap
<1>1. SelectionInv /\ [Next]_vars => [A]_vars
  <2>. SUFFICES ASSUME SelectionInv, Next, NEW m \in Nodes, gnode[m].cap,
                       gnode'[m].state # "none"
                PROVE  gnode'[m].cap
    OBVIOUS
  <2>p. Objects /\ NodeWorker
    BY InvParts
  <2>t. \A n \in Nodes : gnode[n] \in GPUNode /\ pods[n] \in Pods
    BY <2>p DEF Objects
  <2>1. ASSUME UNCHANGED gnode PROVE gnode'[m].cap
    BY <2>1
  <2>2. ASSUME NEW n \in Nodes, NEW g \in GPUNode, NEW p \in Pods, Put(n, g, p),
               n = m /\ g.state # "none" => g.cap
        PROVE  gnode'[m].cap
    <3>1. gnode'[n] = g /\ \A k \in Nodes \ {n} : gnode'[k] = gnode[k]
      BY <2>p, <2>2, Stored
    <3>. QED
      BY <2>2, <3>1
  <2>3. ASSUME NEW n \in Nodes, Put(n, Deleted(gnode[n]), pods[n]) PROVE gnode'[m].cap
    <3>1. /\ Deleted(gnode[n]) \in GPUNode
          /\ \/ Deleted(gnode[n]).state = "none"
             \/ Deleted(gnode[n]).cap = gnode[n].cap
      BY <2>t, Written
    <3>. QED
      BY <2>t, <2>2, <2>3, <3>1
  <2>4. ASSUME NEW n \in Nodes, Start(n) \/ Collect(n) \/ DeleteGPUNode(n) PROVE gnode'[m].cap
    BY <2>1, <2>3, <2>4 DEF Start, Collect, DeleteGPUNode, gstate
  <2>5. ASSUME NEW n \in Nodes, CompactNode(n) PROVE gnode'[m].cap
    BY <2>1, <2>3, <2>5 DEF CompactNode, CompactDelete, CompactUpdate, gstate
  <2>6. ASSUME NEW n \in Nodes, GPUNodeReconcile(n) PROVE gnode'[m].cap
    <3>1. /\ Served(n).gpu \in GPUNode /\ Served(n).pods \in Pods
          /\ Served(n).gpu.cap = gnode[n].cap
      BY <2>p, ServedKeeps
    <3>. QED
      BY <2>2, <2>6, <3>1 DEF GPUNodeReconcile
  <2>7. ASSUME NEW n \in Nodes, GPUNodeFinalize(n) PROVE gnode'[m].cap
    <3>1. UNCHANGED gnode \/ Put(n, NoGPUNode, pods[n]) \/ Put(n, gnode[n], pods[n])
      BY <2>7 DEF GPUNodeFinalize, gstate
    <3>2. NoGPUNode \in GPUNode /\ NoGPUNode.state = "none"
      BY <2>t, Written
    <3>. QED
      BY <2>t, <2>1, <2>2, <3>1, <3>2
  <2>8. ASSUME NEW n \in Nodes, Discover(n) PROVE gnode'[m].cap
    <3>1. gnode[n] \in GPUNode /\ gnode \in [Nodes -> GPUNode]
      BY <2>p DEF Objects
    <3>2. gnode' = [gnode EXCEPT ![n] = [gnode[n] EXCEPT !.init = TRUE, !.run = TRUE,
                                                         !.cap = n \in setup.gpus]]
      BY <2>8 DEF Discover, Put
    <3>3. n # m => gnode'[m] = gnode[m]
      BY <3>1, <3>2
    <3>4. n = m => gnode'[m].cap = (n \in setup.gpus)
      BY <3>1, <3>2 DEF GPUNode
    <3>5. m \in setup.gpus
      BY <2>p DEF Objects, CapacityKnows
    <3>. QED
      BY <3>3, <3>4, <3>5
  <2>9. ASSUME Create PROVE gnode'[m].cap
    <3>1. PICK n \in Nodes : n = w.node
      BY <2>p, <2>9 DEF Create, NodeWorker
    <3>2. CASE UNCHANGED gnode
      BY <2>1, <3>2
    <3>3. CASE gnode[n].state = "none" /\ Put(n, GenerateGPUNode(w.pool), pods[n])
      <4>1. n # m
        BY <2>p, <3>3 DEF Objects, CapacityKnows
      <4>2. gnode'[m] = gnode[m]
        BY <2>p, <3>3, <4>1 DEF Put, Objects
      <4>. QED
        BY <4>2
    <3>. QED
      BY <2>9, <3>1, <3>2, <3>3 DEF Create, gstate
  <2>10. ASSUME InitStatus PROVE gnode'[m].cap
    <3>1. PICK n \in Nodes : n = w.node
      BY <2>p, <2>10 DEF InitStatus, NodeWorker
    <3>2. CASE UNCHANGED gnode
      BY <2>1, <3>2
    <3>3. CASE ~w.init /\ ~w.stale /\ Put(n, Initialized(gnode[n]), pods[n])
      <4>1. n # m
        BY <2>p, <2>10, <3>1, <3>3 DEF InitStatus, NodeWorker, WorkerKnows
      <4>2. gnode'[m] = gnode[m]
        BY <2>p, <3>3, <4>1 DEF Put, Objects
      <4>. QED
        BY <4>2
    <3>. QED
      BY <2>10, <3>1, <3>2, <3>3 DEF InitStatus, gstate
  <2>11. CASE \/ \E n \in Nodes : \/ SyncGPUNode(n) \/ HypervisorRuns(n) \/ Heartbeat(n)
                                  \/ Relabel(n) \/ DeleteNode(n)
              \/ Get \/ SyncPools \/ CompactMark
              \/ \E x \in Nodes \cup Pools : CompactList(x)
              \/ \E p \in Pools : ChangePool(p)
              \/ Abort \/ Crash
    BY <2>1, <2>11
    DEF SyncGPUNode, HypervisorRuns, Heartbeat, Relabel, DeleteNode, Get, SyncPools,
        CompactMark, CompactList, ChangePool, Abort, Crash, gstate
  <2>. QED
    BY <2>4, <2>5, <2>6, <2>7, <2>8, <2>9, <2>10, <2>11 DEF Next, Step
<1>2. CapacityKept <=> [][A]_vars
  BY DEF CapacityKept
<1>. QED
  BY <1>1, <1>2, InvInit, InvStep, PTL DEF Spec
=================================================================================
