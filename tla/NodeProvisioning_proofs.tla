------------------------ MODULE NodeProvisioning_proofs ------------------------
(***************************************************************************)
(* Proofs about NodeProvisioning, for any number of GPUNodes, any          *)
(* capacities and any kinds and numbers of disturbances.                   *)
(***************************************************************************)
EXTENDS NodeProvisioning, FiniteSetTheorems, TLAPS

\* The oldest and the newest of the versions of an object.
LEMMA Ends ==
    ASSUME NEW S, NEW s \in Seq(S), s # <<>>
    PROVE  /\ Newest(s) \in S /\ Head(s) \in S /\ Len(s) \in DOMAIN s /\ 1 \in DOMAIN s
           /\ Newest(s) = s[Len(s)] /\ Head(s) = s[1]
  BY DEF Newest

\* A write adds the newest version.
LEMMA Pushed ==
    ASSUME NEW S, NEW s \in Seq(S), s # <<>>, NEW o \in S
    PROVE  /\ Push(s, o) \in Seq(S) /\ Push(s, o) # <<>> /\ Newest(Push(s, o)) = o
           /\ \A i \in DOMAIN Push(s, o) :
                \/ Push(s, o)[i] = o
                \/ i \in DOMAIN s /\ Push(s, o)[i] = s[i]
  BY DEF Push, Newest

\* An event of the informer drops the oldest version.
LEMMA Dropped ==
    ASSUME NEW S, NEW s \in Seq(S), Len(s) > 1
    PROVE  /\ Tail(s) \in Seq(S) /\ Tail(s) # <<>> /\ Newest(Tail(s)) = Newest(s)
           /\ \A i \in DOMAIN Tail(s) : i + 1 \in DOMAIN s /\ Tail(s)[i] = s[i + 1]
<1>1. /\ Tail(s) \in Seq(S) /\ Len(Tail(s)) = Len(s) - 1
      /\ \A i \in 1..(Len(s) - 1) : Tail(s)[i] = s[i + 1]
  OBVIOUS
<1>2. DOMAIN s = 1..Len(s) /\ Len(s) \in Nat
  OBVIOUS
<1>3. DOMAIN Tail(s) = 1..(Len(s) - 1)
  BY <1>1
<1>e. Len(<<>>) = 0
  OBVIOUS
<1>4. Len(Tail(s)) # 0
  BY <1>1, <1>2
<1>5. Tail(s) # <<>>
  BY <1>4, <1>e, Zenon
<1>. QED
  BY <1>1, <1>2, <1>3, <1>5 DEF Newest

\* The informers list an object anew.
LEMMA Listed ==
    ASSUME NEW S, NEW o \in S
    PROVE  /\ <<o>> \in Seq(S) /\ <<o>> # <<>> /\ Newest(<<o>>) = o
           /\ \A i \in DOMAIN <<o>> : <<o>>[i] = o
  BY DEF Newest

\* The objects that the controllers write and the workers carry have their types.
LEMMA ObjectTypes ==
    /\ NewPool \in PoolObj /\ NewNode("none") \in NodeObj /\ NewNode("live") \in NodeObj
    /\ IdlePool \in [pc : PoolSteps, obj : PoolObj]
    /\ IdleGo \in [Nodes -> [pc : GoSteps, obj : NodeObj]]
    /\ IdleNode \in [pc : NodeSteps, n : Nodes \cup {None}, obj : NodeObj]
<1>1. NewPool \in PoolObj /\ NewNode("none") \in NodeObj /\ NewNode("live") \in NodeObj
  BY DEF NewPool, PoolObj, NewNode, NodeObj
<1>. QED
  BY <1>1 DEF IdlePool, PoolSteps, IdleGo, GoSteps, IdleNode, NodeSteps

\* So do the changed copies of a GPUNode.
LEMMA NodeChanges ==
    ASSUME NEW o \in NodeObj
    PROVE  /\ [o EXCEPT !.cap = TRUE] \in NodeObj
           /\ [o EXCEPT !.id = TRUE] \in NodeObj
           /\ [o EXCEPT !.fin = TRUE] \in NodeObj
           /\ [o EXCEPT !.k8s = TRUE] \in NodeObj
           /\ [o EXCEPT !.state = "deleting"] \in NodeObj
           /\ [o EXCEPT !.state = "gone"] \in NodeObj
           /\ [o EXCEPT !.state = "gone", !.fin = FALSE] \in NodeObj
           /\ [o EXCEPT !.cap = TRUE, !.k8s = TRUE, !.ready = TRUE] \in NodeObj
           /\ \A b \in BOOLEAN : [o EXCEPT !.ready = b] \in NodeObj
  BY DEF NodeObj

\* And those of the pool; the list of GPUNodes is finite.
LEMMA PoolChanges ==
    ASSUME NEW p \in PoolObj
    PROVE  /\ [p EXCEPT !.fin = TRUE] \in PoolObj
           /\ [p EXCEPT !.fin = FALSE, !.state = "gone"] \in PoolObj
           /\ [p EXCEPT !.state = IF p.fin THEN "deleting" ELSE "gone"] \in PoolObj
           /\ Refreshed(p) \in PoolObj
<1>1. Refreshed(p) \in PoolObj
  <2>. DEFINE list == {n \in Nodes : There(Cached(n))}
              caps == {n \in list : Cached(n).cap}
              run  == \A n \in list : Cached(n).ready
  <2>1. Cardinality(caps) \in Nat
    BY NodesAssumption, FS_Subset, FS_CardinalityType
  <2>2. run \in BOOLEAN
    OBVIOUS
  <2>3. Refreshed(p) = [p EXCEPT !.total = Cardinality(caps), !.running = run]
    BY DEF Refreshed
  <2>. HIDE DEF caps, run
  <2>. QED
    BY <2>1, <2>2, <2>3 DEF PoolObj
<1>. QED
  BY <1>1 DEF PoolObj

--------------------------------------------------------------------------------
(* Types *)

TypeInv == TypeOK /\ node \in [Nodes -> Seq(NodeObj)]

\* What a write of a GPUNode does to its versions, and to those of the others.
LEMMA PutNode ==
    ASSUME TypeInv, NEW n \in Nodes, NEW o \in NodeObj, Put(n, o)
    PROVE  /\ node' \in [Nodes -> Seq(NodeObj)]
           /\ \A m \in Nodes : node'[m] # <<>>
           /\ node'[n] = Push(node[n], o) /\ Current(n)' = o
           /\ \A m \in Nodes \ {n} : node'[m] = node[m]
<1>1. node[n] \in Seq(NodeObj) /\ node[n] # <<>>
  BY DEF TypeInv, TypeOK
<1>2. /\ node'[n] = Push(node[n], o) /\ \A m \in Nodes \ {n} : node'[m] = node[m]
      /\ node' \in [Nodes -> Seq(NodeObj)]
  BY <1>1, Pushed DEF Put, TypeInv
<1>p. Push(node[n], o) # <<>> /\ Newest(Push(node[n], o)) = o
  <2>1. Push(node[n], o) # <<>>
    BY <1>1, Pushed
  <2>2. Newest(Push(node[n], o)) = o
    BY <1>1 DEF Push, Newest
  <2>. QED
    BY <2>1, <2>2
<1>3. node'[n] # <<>> /\ Newest(node'[n]) = o
  BY <1>2, <1>p
<1>4. \A m \in Nodes : node'[m] # <<>>
  BY <1>2, <1>3 DEF TypeInv, TypeOK
<1>. QED
  BY <1>2, <1>3, <1>4 DEF Current

\* The cached and the current version of a GPUNode.
LEMMA CurrentTypes ==
    ASSUME TypeInv, NEW n \in Nodes
    PROVE  /\ Current(n) \in NodeObj /\ Cached(n) \in NodeObj
           /\ Len(node[n]) \in DOMAIN node[n] /\ 1 \in DOMAIN node[n]
           /\ Current(n) = node[n][Len(node[n])] /\ Cached(n) = node[n][1]
  BY Ends DEF Current, Cached, TypeInv, TypeOK

\* A disturbance is counted.
LEMMA Spent ==
    ASSUME TypeOK, NEW f, Spend(f)
    PROVE  seen' \subseteq Kinds /\ left' \in 0..MaxFaults /\ seen' = seen \cup {f}
  BY FaultAssumption DEF Spend, TypeOK

\* What a write of the pool does.
LEMMA PutPoolTypes ==
    ASSUME TypeOK, NEW p \in PoolObj, PutPool(p)
    PROVE  pool' \in Seq(PoolObj) /\ pool' # <<>>
<1>1. pool \in Seq(PoolObj) /\ pool # <<>>
  BY DEF TypeOK
<1>2. Push(pool, p) \in Seq(PoolObj) /\ Push(pool, p) # <<>>
  BY <1>1, Pushed
<1>. QED
  BY <1>2 DEF PutPool

\* The steps of the pool controller keep the types.
LEMMA PoolTypes ==
    ASSUME TypeInv, PoolStep \/ PoolAbort \/ PoolEvent \/ DeletePool
    PROVE  TypeInv'
<1>. USE ObjectTypes
<1>t. TypeOK /\ node \in [Nodes -> Seq(NodeObj)]
  BY DEF TypeInv
<1>p. Head(pool) \in PoolObj /\ Newest(pool) \in PoolObj
  BY <1>t, Ends DEF TypeOK
<1>r. PoolRetry \/ PoolReturn => pw' \in [pc : PoolSteps, obj : PoolObj] /\ poolQueue' \in BOOLEAN
  BY <1>t DEF PoolRetry, PoolReturn, TypeOK
<1>q. ASSUME pool' \in Seq(PoolObj), pool' # <<>>, poolQueue' \in BOOLEAN,
             pw' \in [pc : PoolSteps, obj : PoolObj],
             go' \in [Nodes -> [pc : GoSteps, obj : NodeObj]],
             seen' \subseteq Kinds, left' \in 0..MaxFaults,
             UNCHANGED <<node, outside, nodeQueue, nw>>
      PROVE  TypeInv'
  BY <1>t, <1>q DEF TypeInv, TypeOK, outside, pods
<1>1. CASE PoolStart
  <2>1. pool' \in Seq(PoolObj) /\ pool' # <<>>
    <3>1. CASE UNCHANGED pool
      BY <3>1, <1>t DEF TypeOK
    <3>2. CASE \E o \in PoolObj : PutPool(o)
      BY <3>2, <1>t, PutPoolTypes
    <3>. QED
      BY <1>1, <3>1, <3>2, <1>p, PoolChanges DEF PoolStart
  <2>2. pw' \in [pc : PoolSteps, obj : PoolObj] /\ poolQueue' \in BOOLEAN
    <3>1. \A o \in PoolObj : [pc |-> "refresh", obj |-> o] \in [pc : PoolSteps, obj : PoolObj]
      BY DEF PoolSteps
    <3>. QED
      BY <1>1, <1>p, <1>t, <3>1, PoolChanges DEF PoolStart, TypeOK
  <2>. QED
    BY <1>1, <1>t, <1>q, <2>1, <2>2 DEF PoolStart, TypeOK, faults
<1>2. CASE Refresh \/ RefreshAgain
  <2>1. pool' \in Seq(PoolObj) /\ pool' # <<>>
    <3>1. CASE UNCHANGED pool
      BY <3>1, <1>t DEF TypeOK
    <3>2. CASE PutPool(Refreshed(Head(pool)))
      BY <3>2, <1>t, <1>p, PoolChanges, PutPoolTypes
    <3>. QED
      BY <1>2, <3>1, <3>2 DEF Refresh, RefreshAgain
  <2>2. pw' \in [pc : PoolSteps, obj : PoolObj] /\ poolQueue' \in BOOLEAN
    <3>1. CASE pw' = [pw EXCEPT !.pc = "scale"] /\ UNCHANGED poolQueue
      BY <3>1, <1>t DEF TypeOK, PoolSteps
    <3>. QED
      BY <1>2, <1>r, <3>1 DEF Refresh, RefreshAgain
  <2>. QED
    BY <1>2, <1>t, <1>q, <2>1, <2>2 DEF Refresh, RefreshAgain, TypeOK, faults
<1>3. CASE ScaleUp
  <2>1. CASE PoolReturn /\ UNCHANGED go
    BY <1>3, <2>1, <1>t, <1>r, <1>q DEF ScaleUp, TypeOK, faults
  <2>2. ASSUME NEW S \in SUBSET Fresh,
               go' = [n \in Nodes |-> IF n \in S THEN [go[n] EXCEPT !.pc = "create"] ELSE go[n]],
               pw' = [pw EXCEPT !.pc = "wait"], UNCHANGED poolQueue
        PROVE  TypeInv'
    <3>1. \A n \in Nodes : /\ go[n] \in [pc : GoSteps, obj : NodeObj]
                           /\ [go[n] EXCEPT !.pc = "create"] \in [pc : GoSteps, obj : NodeObj]
      BY <1>t DEF TypeOK, GoSteps
    <3>2. go' \in [Nodes -> [pc : GoSteps, obj : NodeObj]]
      BY <2>2, <3>1
    <3>3. pw' \in [pc : PoolSteps, obj : PoolObj]
      BY <2>2, <1>t DEF TypeOK, PoolSteps
    <3>. QED
      BY <1>3, <2>2, <1>t, <3>2, <3>3, <1>q DEF ScaleUp, TypeOK, faults
  <2>. QED
    BY <1>3, <2>1, <2>2 DEF ScaleUp
<1>4. CASE WaitAll
  <2>1. pw' \in [pc : PoolSteps, obj : PoolObj] /\ poolQueue' \in BOOLEAN
    <3>1. CASE pw' = [pw EXCEPT !.pc = "refreshAgain"] /\ UNCHANGED poolQueue
      BY <3>1, <1>t DEF TypeOK, PoolSteps
    <3>. QED
      BY <1>4, <1>r, <3>1 DEF WaitAll
  <2>. QED
    BY <1>4, <1>t, <1>q, <2>1 DEF WaitAll, TypeOK, faults
<1>5. CASE PoolAbort
  BY <1>5, <1>t, <1>r, <1>q, Spent DEF PoolAbort, TypeOK
<1>6. CASE PoolEvent
  <2>1. Tail(pool) \in Seq(PoolObj) /\ Tail(pool) # <<>>
    BY <1>6, <1>t, Dropped DEF PoolEvent, TypeOK
  <2>2. poolQueue' \in BOOLEAN
    BY <1>6, <1>t DEF PoolEvent, TypeOK
  <2>. QED
    BY <1>6, <1>t, <1>q, <2>1, <2>2 DEF PoolEvent, TypeOK, faults, workers
<1>7. CASE DeletePool
  <2>1. pool' \in Seq(PoolObj) /\ pool' # <<>>
    BY <1>7, <1>t, <1>p, PoolChanges, PutPoolTypes DEF DeletePool
  <2>. QED
    BY <1>7, <1>t, <1>q, <2>1, Spent DEF DeletePool, TypeOK, queues, workers
<1>. QED
  BY <1>1, <1>2, <1>3, <1>4, <1>5, <1>6, <1>7 DEF PoolStep

\* The goroutine of a GPUNode keeps the types.
LEMMA GoTypes ==
    ASSUME TypeInv, NEW n \in Nodes, GoStep(n) \/ GoAbort(n)
    PROVE  TypeInv'
<1>. USE ObjectTypes
<1>t. TypeOK /\ node \in [Nodes -> Seq(NodeObj)]
  BY DEF TypeInv
<1>c. Current(n) \in NodeObj /\ Cached(n) \in NodeObj /\ go[n].obj \in NodeObj
  BY <1>t, CurrentTypes DEF TypeOK
<1>g. \A pc \in GoSteps, o \in NodeObj :
        Go(n, pc, o) => go' \in [Nodes -> [pc : GoSteps, obj : NodeObj]]
  BY <1>t DEF Go, TypeOK
<1>s. \A pc \in GoSteps : Step(n, pc) => go' \in [Nodes -> [pc : GoSteps, obj : NodeObj]]
  BY <1>g, <1>c DEF Step
<1>n. ASSUME \/ UNCHANGED node
             \/ \E o \in NodeObj : Put(n, o)
      PROVE  node' \in [Nodes -> Seq(NodeObj)] /\ \A m \in Nodes : node'[m] # <<>>
  BY <1>n, <1>t, PutNode DEF TypeOK
<1>q. ASSUME \/ UNCHANGED node
             \/ \E o \in NodeObj : Put(n, o),
             go' \in [Nodes -> [pc : GoSteps, obj : NodeObj]],
             inst' \in [Nodes -> {"none", "running", "terminated"}],
             seen' \subseteq Kinds, left' \in 0..MaxFaults,
             UNCHANGED goUnchanged
      PROVE  TypeInv'
  <2>1. node' \in [Nodes -> Seq(NodeObj)] /\ \A m \in Nodes : node'[m] # <<>>
    BY <1>n, <1>q
  <2>. QED
    BY <1>t, <1>q, <2>1 DEF TypeInv, TypeOK, goUnchanged, pods, queues
<1>u. UNCHANGED faults => seen' \subseteq Kinds /\ left' \in 0..MaxFaults
  BY <1>t DEF faults, TypeOK
<1>i. /\ \A x \in {"running", "terminated"} : inst' = [inst EXCEPT ![n] = x]
           => inst' \in [Nodes -> {"none", "running", "terminated"}]
      /\ UNCHANGED inst => inst' \in [Nodes -> {"none", "running", "terminated"}]
  BY <1>t DEF TypeOK
<1>1. CASE Create(n)
  BY <1>1, <1>g, <1>q, <1>u, <1>i DEF Create, GoSteps
<1>2. CASE WriteStatus(n)
  BY <1>2, <1>c, <1>s, <1>q, <1>u, <1>i, NodeChanges DEF WriteStatus, GoSteps
<1>3. CASE CreateNode(n)
  BY <1>3, <1>t, <1>s, <1>q, <1>u, <1>i, Spent DEF CreateNode, GoSteps
<1>4. CASE GetNode(n)
  BY <1>4, <1>t, <1>c, <1>g, <1>s, <1>q, <1>u, <1>i, Spent DEF GetNode, GoSteps
<1>5. CASE PatchNode(n)
  BY <1>5, <1>c, <1>s, <1>q, <1>u, <1>i, NodeChanges DEF PatchNode, GoSteps
<1>6. CASE TerminateNew(n)
  BY <1>6, <1>s, <1>q, <1>u, <1>i DEF TerminateNew, GoSteps
<1>7. CASE GoAbort(n)
  <2>1. go' \in [Nodes -> [pc : GoSteps, obj : NodeObj]]
    BY <1>7, <1>s DEF GoAbort, GoSteps
  <2>2. seen' \subseteq Kinds /\ left' \in 0..MaxFaults
    BY <1>7, <1>t, Spent DEF GoAbort
  <2>3. UNCHANGED node \/ \E o \in NodeObj : Put(n, o)
    BY <1>7, <1>c, NodeChanges DEF GoAbort
  <2>. QED
    BY <1>7, <1>q, <1>i, <2>1, <2>2, <2>3 DEF GoAbort
<1>. QED
  BY <1>1, <1>2, <1>3, <1>4, <1>5, <1>6, <1>7 DEF GoStep

\* The GPUNode controller keeps the types, provided that it carries a GPUNode.
LEMMA WorkerTypes ==
    ASSUME TypeInv, NEW n \in Nodes, NodeStart(n) \/ NodeStep(n) \/ NodeAbort(n)
    PROVE  TypeInv'
<1>. USE ObjectTypes
<1>. DEFINE Workers == [pc : NodeSteps, n : Nodes \cup {None}, obj : NodeObj]
<1>t. TypeOK /\ node \in [Nodes -> Seq(NodeObj)]
  BY DEF TypeInv
<1>c. Current(n) \in NodeObj /\ Cached(n) \in NodeObj /\ nw.obj \in NodeObj
  BY <1>t, CurrentTypes DEF TypeOK
<1>r. NodeRetry(n) \/ NodeReturn => nw' \in Workers /\ nodeQueue' \subseteq Nodes
  BY <1>t DEF NodeRetry, NodeReturn, TypeOK
<1>n. ASSUME \/ UNCHANGED node
             \/ \E o \in NodeObj : Put(n, o)
      PROVE  node' \in [Nodes -> Seq(NodeObj)] /\ \A m \in Nodes : node'[m] # <<>>
  BY <1>n, <1>t, PutNode DEF TypeOK
<1>q. ASSUME \/ UNCHANGED node
             \/ \E o \in NodeObj : Put(n, o),
             nw' \in Workers, nodeQueue' \subseteq Nodes,
             inst' \in [Nodes -> {"none", "running", "terminated"}],
             UNCHANGED pods \/ (reconcileNodeDiscoveryJob(n) /\ reconcileHypervisorPod(n)),
             UNCHANGED faults \/ \E f \in Faults : Spend(f),
             UNCHANGED nwUnchanged
      PROVE  TypeInv'
  <2>1. node' \in [Nodes -> Seq(NodeObj)] /\ \A m \in Nodes : node'[m] # <<>>
    BY <1>n, <1>q
  <2>2. /\ job' \in [Nodes -> {"none", "active", "done"}]
        /\ hyper' \in [Nodes -> {"none", "Pending", "Running"}]
    <3>1. CASE UNCHANGED pods
      BY <3>1, <1>t DEF TypeOK, pods
    <3>2. CASE reconcileNodeDiscoveryJob(n) /\ reconcileHypervisorPod(n)
      BY <3>2, <1>t DEF TypeOK, reconcileNodeDiscoveryJob, reconcileHypervisorPod
    <3>. QED
      BY <1>q, <3>1, <3>2
  <2>3. seen' \subseteq Kinds /\ left' \in 0..MaxFaults
    BY <1>t, <1>q, Spent DEF TypeOK, faults
  <2>. QED
    BY <1>t, <1>q, <2>1, <2>2, <2>3 DEF TypeInv, TypeOK, nwUnchanged
<1>i. UNCHANGED inst => inst' \in [Nodes -> {"none", "running", "terminated"}]
  BY <1>t DEF TypeOK
<1>1. CASE NodeStart(n)
  <2>1. nw' \in Workers
    <3>1. CASE UNCHANGED nw
      BY <3>1, <1>t DEF TypeOK
    <3>2. ASSUME NEW pc \in NodeSteps, nw' = [pc |-> pc, n |-> n, obj |-> Cached(n)]
          PROVE  nw' \in Workers
      BY <3>2, <1>c
    <3>3. ASSUME nw' = [pc |-> "ready", n |-> n, obj |-> [Cached(n) EXCEPT !.fin = TRUE]]
          PROVE  nw' \in Workers
      <4>1. "ready" \in NodeSteps /\ [Cached(n) EXCEPT !.fin = TRUE] \in NodeObj
        BY <1>c, NodeChanges DEF NodeSteps
      <4>. QED
        BY <3>3, <4>1
    <3>4. \/ UNCHANGED nw
          \/ \E pc \in NodeSteps : nw' = [pc |-> pc, n |-> n, obj |-> Cached(n)]
          \/ nw' = [pc |-> "ready", n |-> n, obj |-> [Cached(n) EXCEPT !.fin = TRUE]]
      BY <1>1 DEF NodeStart, NodeSteps
    <3>. HIDE DEF Workers
    <3>. QED
      BY <3>1, <3>2, <3>3, <3>4
  <2>2. UNCHANGED node \/ \E o \in NodeObj : Put(n, o)
    BY <1>1, <1>c, NodeChanges DEF NodeStart
  <2>3. nodeQueue' \subseteq Nodes
    BY <1>1, <1>t DEF NodeStart, TypeOK
  <2>. QED
    BY <1>1, <1>q, <1>i, <2>1, <2>2, <2>3 DEF NodeStart
<1>2. CASE Terminate(n)
  <2>1. [nw EXCEPT !.pc = "drop"] \in Workers
    BY <1>t DEF TypeOK, NodeSteps
  <2>2. nw' \in Workers /\ nodeQueue' \subseteq Nodes
    BY <1>2, <1>r, <1>t, <2>1 DEF Terminate, TypeOK
  <2>3. inst' \in [Nodes -> {"none", "running", "terminated"}]
    BY <1>2, <1>t DEF Terminate, TypeOK
  <2>4. UNCHANGED faults \/ Spend("cloud") \/ Spend("answer")
    BY <1>2 DEF Terminate
  <2>. QED
    BY <1>2, <1>q, <2>2, <2>3, <2>4 DEF Terminate, Faults
<1>3. CASE DropFinalizer(n)
  BY <1>3, <1>q, <1>i, <1>r, <1>c, NodeChanges DEF DropFinalizer
<1>4. CASE MakeReady(n)
  <2>1. nw' \in Workers /\ nodeQueue' \subseteq Nodes
    BY <1>4, <1>r DEF MakeReady
  <2>2. UNCHANGED node \/ \E o \in NodeObj : Put(n, o)
    BY <1>4, <1>c, NodeChanges DEF MakeReady
  <2>. QED
    BY <1>4, <1>q, <1>i, <2>1, <2>2 DEF MakeReady
<1>5. CASE NodeAbort(n)
  BY <1>5, <1>q, <1>i, <1>r DEF NodeAbort, Faults
<1>. QED
  BY <1>1, <1>2, <1>3, <1>4, <1>5 DEF NodeStep

\* The informers and the surroundings of a GPUNode keep the types.
LEMMA AroundTypes ==
    ASSUME TypeInv, NEW n \in Nodes,
           \/ NodeEvent(n) \/ BindNode(n) \/ Discover(n) \/ Join(n) \/ RunHypervisor(n)
           \/ DeleteNode(n)
    PROVE  TypeInv'
<1>t. TypeOK /\ node \in [Nodes -> Seq(NodeObj)]
  BY DEF TypeInv
<1>c. Current(n) \in NodeObj /\ Cached(n) \in NodeObj
  BY <1>t, CurrentTypes
<1>n. ASSUME NEW o \in NodeObj, Put(n, o)
      PROVE  node' \in [Nodes -> Seq(NodeObj)] /\ \A m \in Nodes : node'[m] # <<>>
  BY <1>n, PutNode
<1>1. CASE NodeEvent(n)
  <2>1. Tail(node[n]) \in Seq(NodeObj) /\ Tail(node[n]) # <<>>
    BY <1>1, <1>t, Dropped DEF NodeEvent, TypeOK
  <2>2. node' = [node EXCEPT ![n] = Tail(@)] /\ UNCHANGED <<pool, outside, workers, faults>>
        /\ poolQueue' \in BOOLEAN /\ nodeQueue' \subseteq Nodes
    BY <1>1, <1>t DEF NodeEvent, TypeOK
  <2>3. node' \in [Nodes -> Seq(NodeObj)] /\ \A m \in Nodes : node'[m] # <<>>
    BY <1>t, <2>1, <2>2 DEF TypeOK
  <2>. QED
    BY <1>t, <2>2, <2>3 DEF TypeInv, TypeOK, outside, pods, workers, faults
<1>2. CASE BindNode(n)
  <2>1. node' \in [Nodes -> Seq(NodeObj)] /\ \A m \in Nodes : node'[m] # <<>>
    BY <1>2, <1>c, <1>n, NodeChanges DEF BindNode
  <2>. QED
    BY <1>2, <1>t, <2>1 DEF BindNode, TypeInv, TypeOK, outside, pods, queues, workers, faults
<1>3. CASE Discover(n)
  <2>1. node' \in [Nodes -> Seq(NodeObj)] /\ \A m \in Nodes : node'[m] # <<>>
    BY <1>3, <1>c, <1>n, NodeChanges DEF Discover
  <2>2. job' \in [Nodes -> {"none", "active", "done"}]
    BY <1>3, <1>t DEF Discover, TypeOK
  <2>. QED
    BY <1>3, <1>t, <2>1, <2>2 DEF Discover, TypeInv, TypeOK, queues, workers, faults
<1>4. CASE Join(n)
  BY <1>4, <1>t DEF Join, TypeInv, TypeOK, pods, queues, workers, faults
<1>5. CASE RunHypervisor(n)
  <2>1. hyper' \in [Nodes -> {"none", "Pending", "Running"}] /\ nodeQueue' \subseteq Nodes
    BY <1>5, <1>t DEF RunHypervisor, TypeOK
  <2>. QED
    BY <1>5, <1>t, <2>1 DEF RunHypervisor, TypeInv, TypeOK, workers, faults
<1>6. CASE DeleteNode(n)
  <2>1. node' \in [Nodes -> Seq(NodeObj)] /\ \A m \in Nodes : node'[m] # <<>>
    BY <1>6, <1>c, <1>n, NodeChanges DEF DeleteNode
  <2>2. seen' \subseteq Kinds /\ left' \in 0..MaxFaults
    BY <1>6, <1>t, Spent DEF DeleteNode
  <2>. QED
    BY <1>6, <1>t, <2>1, <2>2 DEF DeleteNode, TypeInv, TypeOK, outside, pods, queues, workers
<1>. QED
  BY <1>1, <1>2, <1>3, <1>4, <1>5, <1>6

\* A restart keeps the newest versions.
LEMMA Restarted ==
    ASSUME TypeInv, Crash
    PROVE  /\ TypeInv' /\ seen \subseteq seen' /\ seen' \cap {"crash", "panic"} # {}
           /\ \A n \in Nodes : node'[n] = <<Current(n)>> /\ Current(n)' = Current(n)
<1>. USE ObjectTypes
<1>t. TypeOK /\ node \in [Nodes -> Seq(NodeObj)]
  BY DEF TypeInv
<1>1. /\ seen' \subseteq Kinds /\ left' \in 0..MaxFaults
      /\ seen \subseteq seen' /\ seen' \cap {"crash", "panic"} # {}
  BY <1>t, Spent DEF Crash
<1>2. pool' \in Seq(PoolObj) /\ pool' # <<>>
  BY <1>t, Ends, Listed DEF Crash, TypeOK
<1>3. \A n \in Nodes : Current(n) \in NodeObj
  BY CurrentTypes
<1>4. ASSUME NEW n \in Nodes
      PROVE  node'[n] = <<Current(n)>> /\ node'[n] \in Seq(NodeObj) /\ node'[n] # <<>>
  BY <1>3, Listed DEF Crash
<1>5. ASSUME NEW n \in Nodes PROVE Current(n)' = Current(n)
  <2>1. Newest(node'[n]) = Current(n)
    BY <1>3, <1>4, Listed
  <2>. QED
    BY <2>1 DEF Current
<1>6. node' \in [Nodes -> Seq(NodeObj)]
  <2>1. node' = [n \in Nodes |-> <<Current(n)>>]
    BY DEF Crash
  <2>. QED
    BY <1>3, <2>1
<1>7. TypeInv'
  BY <1>t, <1>1, <1>2, <1>4, <1>6 DEF Crash, TypeInv, TypeOK, outside, pods
<1>. QED
  BY <1>1, <1>4, <1>5, <1>7

\* Every step keeps the types.
LEMMA TypeStep == TypeInv /\ [Next]_vars => TypeInv'
<1>. SUFFICES ASSUME TypeInv, [Next]_vars PROVE TypeInv'
  OBVIOUS
<1>1. CASE UNCHANGED vars
  BY <1>1 DEF TypeInv, TypeOK, vars, outside, pods, queues, workers, faults
<1>. QED
  BY <1>1, PoolTypes, GoTypes, WorkerTypes, AroundTypes, Restarted DEF Next

LEMMA TypeInit == Init => TypeInv
<1>. SUFFICES ASSUME Init PROVE TypeInv
  OBVIOUS
<1>1. /\ pool \in Seq(PoolObj) /\ pool # <<>>
      /\ <<NewNode("none")>> \in Seq(NodeObj) /\ <<NewNode("none")>> # <<>>
  BY ObjectTypes, Listed DEF Init
<1>2. node \in [Nodes -> Seq(NodeObj)] /\ \A n \in Nodes : node[n] # <<>>
  BY <1>1 DEF Init
<1>3. left \in 0..MaxFaults
  BY FaultAssumption DEF Init
<1>. QED
  BY <1>1, <1>2, <1>3, ObjectTypes DEF Init, TypeInv, TypeOK

\* The objects, the workers and the goroutines keep their types, whatever fails.
THEOREM ProvisionTypes == Spec => []TypeOK
<1>1. TypeInv => TypeOK
  BY DEF TypeInv
<1>. QED
  BY <1>1, TypeInit, TypeStep, PTL DEF Spec

--------------------------------------------------------------------------------
(* Instances *)

Knows(n) == GoKnows(n) /\ GoneKnows(n) /\ InstanceKnows(n)

LEMMA InvParts ==
    ProvisionInv <=> TypeInv /\ VersionsFollow /\ WorkerKnows /\ \A n \in Nodes : Knows(n)
  BY DEF ProvisionInv, TypeInv, Knows

\* Versions follow each other like a preorder.
LEMMA FollowsTransitive ==
    /\ \A o \in NodeObj : Follows(o, o)
    /\ \A o, p, q \in NodeObj : Follows(o, p) /\ Follows(p, q) => Follows(o, q)
  BY DEF Follows, NodeObj

\* What is known of a GPUNode stays known while others act.
LEMMA Kept ==
    ASSUME NEW n \in Nodes, Knows(n), Current(n)' = Current(n), inst'[n] = inst[n],
           go'[n] = go[n], seen \subseteq seen'
    PROVE  Knows(n)'
  BY DEF Knows, GoKnows, GoneKnows, InstanceKnows, Recorded, InHand

\* A write that follows the current version.
LEMMA PutFollows ==
    ASSUME TypeInv, VersionsFollow, NEW n \in Nodes, NEW o \in NodeObj, Put(n, o),
           Follows(Current(n), o)
    PROVE  /\ VersionsFollow' /\ Current(n)' = o
           /\ \A m \in Nodes \ {n} : Current(m)' = Current(m)
           /\ \A m \in Nodes : Follows(Current(m), Current(m)')
<1>1. /\ node' \in [Nodes -> Seq(NodeObj)]
      /\ node'[n] = Push(node[n], o) /\ Current(n)' = o
      /\ \A m \in Nodes \ {n} : node'[m] = node[m]
  BY PutNode
<1>2. \A m \in Nodes : Current(m) \in NodeObj
  BY CurrentTypes
<1>3. ASSUME NEW m \in Nodes \ {n} PROVE Current(m)' = Current(m)
  BY <1>1 DEF Current
<1>4. ASSUME NEW m \in Nodes PROVE Follows(Current(m), Current(m)')
  BY <1>1, <1>2, <1>3, FollowsTransitive
<1>5. ASSUME NEW i \in DOMAIN node'[n] PROVE Follows(node'[n][i], o)
  <2>1. node[n] \in Seq(NodeObj) /\ node[n] # <<>>
    BY DEF TypeInv, TypeOK
  <2>2. CASE node'[n][i] = o
    BY <2>2, FollowsTransitive
  <2>3. CASE i \in DOMAIN node[n] /\ node'[n][i] = node[n][i]
    <3>1. Follows(node[n][i], Current(n)) /\ node[n][i] \in NodeObj
      BY <2>1, <2>3 DEF VersionsFollow
    <3>. QED
      BY <2>3, <3>1, <1>2, FollowsTransitive
  <2>4. \A j \in DOMAIN Push(node[n], o) :
          \/ Push(node[n], o)[j] = o
          \/ j \in DOMAIN node[n] /\ Push(node[n], o)[j] = node[n][j]
    BY <2>1, Pushed
  <2>. QED
    BY <1>1, <2>2, <2>3, <2>4
<1>6. ASSUME NEW m \in Nodes \ {n}, NEW i \in DOMAIN node'[m]
      PROVE  Follows(node'[m][i], Current(m)')
  BY <1>1, <1>3 DEF VersionsFollow
<1>7. VersionsFollow'
  BY <1>1, <1>5, <1>6 DEF VersionsFollow
<1>. QED
  BY <1>1, <1>3, <1>4, <1>7

\* What the GPUNode controller knows stays known while others act.
LEMMA WorkerKept ==
    ASSUME TypeInv, WorkerKnows, UNCHANGED nw,
           \A m \in Nodes : Follows(Current(m), Current(m)') /\ Current(m)' \in NodeObj,
           \A m \in Nodes : inst[m] = "terminated" => inst'[m] = "terminated"
    PROVE  WorkerKnows'
<1>. SUFFICES ASSUME nw.pc # "idle" PROVE WorkerKnows'
  BY DEF WorkerKnows
<1>1. nw.n \in Nodes /\ Follows(nw.obj, Current(nw.n)) /\ nw.obj \in NodeObj
  BY DEF WorkerKnows, TypeInv, TypeOK
<1>2. PICK m \in Nodes : m = nw.n
  BY <1>1
<1>3. Current(m) \in NodeObj
  BY CurrentTypes
<1>4. Follows(nw.obj, Current(m)')
  BY <1>1, <1>2, <1>3, FollowsTransitive
<1>. QED
  BY <1>1, <1>2, <1>4 DEF WorkerKnows

\* A step for one GPUNode that writes o, or nothing.
LEMMA OneNode ==
    ASSUME ProvisionInv, TypeInv', NEW n \in Nodes, NEW o \in NodeObj,
           Put(n, o) \/ (UNCHANGED node /\ o = Current(n)),
           Follows(Current(n), o),
           Current(n)' = o => Knows(n)',
           \A m \in Nodes \ {n} : inst'[m] = inst[m] /\ go'[m] = go[m],
           inst[n] = "terminated" => inst'[n] = "terminated",
           seen \subseteq seen',
           UNCHANGED nw \/ (Current(n)' = o => WorkerKnows')
    PROVE  ProvisionInv'
<1>. USE InvParts
<1>1. /\ VersionsFollow' /\ Current(n)' = o
      /\ \A m \in Nodes \ {n} : Current(m)' = Current(m)
      /\ \A m \in Nodes : Follows(Current(m), Current(m)')
  <2>1. CASE Put(n, o)
    BY <2>1, PutFollows
  <2>2. CASE UNCHANGED node /\ o = Current(n)
    <3>1. \A m \in Nodes : Current(m)' = Current(m) /\ Current(m) \in NodeObj
      BY <2>2, CurrentTypes DEF Current
    <3>2. VersionsFollow'
      BY <2>2, <3>1 DEF VersionsFollow
    <3>. QED
      BY <2>2, <3>1, <3>2, FollowsTransitive
  <2>. QED
    BY <2>1, <2>2
<1>2. ASSUME NEW m \in Nodes \ {n} PROVE Knows(m)'
  BY <1>1, Kept
<1>3. \A m \in Nodes : Knows(m)'
  BY <1>1, <1>2
<1>4. ASSUME NEW m \in Nodes PROVE Current(m)' \in NodeObj
  BY <1>1, CurrentTypes
<1>5. WorkerKnows'
  BY <1>1, <1>4, WorkerKept
<1>. QED
  BY <1>1, <1>3, <1>5 DEF ProvisionInv, TypeInv, Knows

\* The goroutine of a GPUNode preserves the invariant.
LEMMA GoInv ==
    ASSUME ProvisionInv, NEW n \in Nodes, GoStep(n) \/ GoAbort(n)
    PROVE  ProvisionInv'
<1>t. TypeInv /\ TypeOK /\ VersionsFollow /\ Knows(n) /\ TypeInv'
  BY InvParts, GoTypes DEF TypeInv
<1>c. /\ Current(n) \in NodeObj /\ Cached(n) \in NodeObj /\ go[n].obj \in NodeObj
      /\ Follows(Cached(n), Current(n)) /\ Follows(Current(n), Current(n))
  BY <1>t, CurrentTypes, FollowsTransitive DEF TypeOK, VersionsFollow
<1>g. \A pc, o : Go(n, pc, o) => /\ go'[n].pc = pc /\ go'[n].obj = o
                                 /\ \A m \in Nodes \ {n} : go'[m] = go[m]
  BY <1>t DEF Go, TypeOK
<1>s. \A pc : Step(n, pc) => /\ go'[n].pc = pc /\ go'[n].obj = go[n].obj
                             /\ \A m \in Nodes \ {n} : go'[m] = go[m]
  BY <1>g DEF Step
<1>i. \A x : inst' = [inst EXCEPT ![n] = x]
               => inst'[n] = x /\ \A m \in Nodes \ {n} : inst'[m] = inst[m]
  BY <1>t DEF TypeOK
<1>u. (UNCHANGED faults => seen' = seen) /\ (UNCHANGED goUnchanged => UNCHANGED nw)
  BY DEF faults, goUnchanged
<1>f. \A f : Spend(f) => seen' = seen \cup {f}
  BY DEF Spend
<1>1. CASE Create(n)
  <2>. DEFINE o == NewNode("live")
  <2>1. o \in NodeObj /\ o.state = "live" /\ ~o.id /\ ~o.fin
    BY ObjectTypes DEF NewNode
  <2>. HIDE DEF o
  <2>2. /\ Put(n, o) /\ go'[n].pc = "status" /\ \A m \in Nodes \ {n} : go'[m] = go[m]
        /\ inst' = inst /\ seen' = seen /\ UNCHANGED nw
    BY <1>1, <1>g, <1>u DEF Create, o
  <2>3. go[n].pc = "create" /\ Follows(Current(n), o)
    BY <1>1, <1>t, <2>1 DEF Create, Knows, GoKnows, Follows
  <2>4. Current(n)' = o => Knows(n)'
    BY <1>t, <2>1, <2>2, <2>3 DEF Knows, GoKnows, GoneKnows, InstanceKnows, Recorded, InHand
  <2>. QED
    BY <1>t, <2>1, <2>2, <2>3, <2>4, OneNode
<1>2. CASE WriteStatus(n) /\ go[n].obj = Current(n)
  <2>. DEFINE o == [go[n].obj EXCEPT !.cap = TRUE]
  <2>1. /\ o \in NodeObj /\ o.state = Current(n).state /\ o.id = Current(n).id
        /\ o.fin = Current(n).fin
    <3>1. o \in NodeObj
      BY <1>c, NodeChanges
    <3>2. o.state = go[n].obj.state /\ o.id = go[n].obj.id /\ o.fin = go[n].obj.fin
      BY <1>c DEF NodeObj
    <3>. QED
      BY <1>2, <3>1, <3>2
  <2>. HIDE DEF o
  <2>2. /\ Put(n, o) /\ go'[n].pc = "cloud" /\ \A m \in Nodes \ {n} : go'[m] = go[m]
        /\ inst' = inst /\ seen' = seen /\ UNCHANGED nw /\ go[n].pc = "status"
    BY <1>2, <1>s, <1>u DEF WriteStatus, o
  <2>3. Follows(Current(n), o)
    BY <2>1 DEF Follows
  <2>4. Current(n)' = o => Knows(n)'
    BY <1>t, <2>1, <2>2 DEF Knows, GoKnows, GoneKnows, InstanceKnows, Recorded, InHand, There
  <2>. QED
    BY <1>t, <2>1, <2>2, <2>3, <2>4, OneNode
<1>3. CASE WriteStatus(n) /\ go[n].obj # Current(n)
  <2>2. /\ UNCHANGED node /\ go'[n].pc = "failed" /\ \A m \in Nodes \ {n} : go'[m] = go[m]
        /\ inst' = inst /\ seen' = seen /\ UNCHANGED nw /\ go[n].pc = "status"
    BY <1>3, <1>s, <1>u DEF WriteStatus
  <2>4. Current(n)' = Current(n) => Knows(n)'
    BY <1>t, <2>2 DEF Knows, GoKnows, GoneKnows, InstanceKnows, Recorded, InHand, There
  <2>. QED
    BY <1>t, <1>c, <2>2, <2>4, OneNode
<1>4. CASE CreateNode(n)
  <2>2. /\ UNCHANGED node /\ \A m \in Nodes \ {n} : go'[m] = go[m] /\ inst'[m] = inst[m]
        /\ UNCHANGED nw /\ go[n].pc = "cloud" /\ seen \subseteq seen'
        /\ \/ inst'[n] = "running" /\ go'[n].pc = "get"
           \/ inst'[n] = inst[n] /\ go'[n].pc = "failed"
           \/ inst'[n] = "running" /\ go'[n].pc = "failed" /\ "answer" \in seen'
    BY <1>4, <1>s, <1>u, <1>i, <1>f DEF CreateNode
  <2>4. Current(n)' = Current(n) => Knows(n)'
    BY <1>t, <2>2 DEF Knows, GoKnows, GoneKnows, InstanceKnows, Recorded, InHand, There
  <2>5. inst[n] # "terminated"
    BY <1>t, <2>2 DEF Knows, GoKnows
  <2>. QED
    BY <1>t, <1>c, <2>2, <2>4, <2>5, OneNode
<1>5. CASE GetNode(n)
  <2>2. /\ UNCHANGED node /\ \A m \in Nodes \ {n} : go'[m] = go[m]
        /\ inst' = inst /\ UNCHANGED nw /\ go[n].pc = "get" /\ seen \subseteq seen'
        /\ \/ There(Cached(n)) /\ go'[n].pc = "patch" /\ go'[n].obj = Cached(n)
           \/ Cached(n).state = "gone" /\ go'[n].pc = "failed"
           \/ "get" \in seen' /\ go'[n].pc = "failed"
    BY <1>5, <1>g, <1>s, <1>u, <1>f DEF GetNode
  <2>3. Cached(n).state = "gone" => "early" \in seen
    BY <1>t, <1>c, <2>2 DEF Knows, GoKnows, GoneKnows, Follows
  <2>4. Current(n)' = Current(n) => Knows(n)'
    BY <1>t, <2>2, <2>3 DEF Knows, GoKnows, GoneKnows, InstanceKnows, Recorded, InHand
  <2>. QED
    BY <1>t, <1>c, <2>2, <2>4, OneNode
<1>6. CASE PatchNode(n) /\ go[n].obj = Current(n)
  <2>. DEFINE o == [go[n].obj EXCEPT !.id = TRUE]
  <2>1. /\ o \in NodeObj /\ o.state = Current(n).state /\ o.id /\ o.fin = Current(n).fin
    <3>1. o \in NodeObj
      BY <1>c, NodeChanges
    <3>2. o.state = go[n].obj.state /\ o.id /\ o.fin = go[n].obj.fin
      BY <1>c DEF NodeObj
    <3>. QED
      BY <1>6, <3>1, <3>2
  <2>. HIDE DEF o
  <2>2. /\ Put(n, o) /\ go'[n].pc = "done" /\ \A m \in Nodes \ {n} : go'[m] = go[m]
        /\ inst' = inst /\ seen' = seen /\ UNCHANGED nw /\ go[n].pc = "patch"
    BY <1>6, <1>s, <1>u DEF PatchNode, o
  <2>3. Follows(Current(n), o)
    BY <2>1 DEF Follows
  <2>4. Current(n)' = o => Knows(n)'
    BY <1>6, <1>t, <2>1, <2>2
    DEF Knows, GoKnows, GoneKnows, InstanceKnows, Recorded, InHand, There
  <2>. QED
    BY <1>t, <2>1, <2>2, <2>3, <2>4, OneNode
<1>7. CASE PatchNode(n) /\ go[n].obj # Current(n)
  <2>2. /\ UNCHANGED node /\ go'[n].pc = "terminate" /\ \A m \in Nodes \ {n} : go'[m] = go[m]
        /\ inst' = inst /\ seen' = seen /\ UNCHANGED nw /\ go[n].pc = "patch"
    BY <1>7, <1>s, <1>u DEF PatchNode
  <2>4. Current(n)' = Current(n) => Knows(n)'
    BY <1>t, <2>2 DEF Knows, GoKnows, GoneKnows, InstanceKnows, Recorded, InHand, There
  <2>. QED
    BY <1>t, <1>c, <2>2, <2>4, OneNode
<1>8. CASE TerminateNew(n)
  <2>2. /\ UNCHANGED node /\ go'[n].pc = "failed" /\ UNCHANGED nw /\ go[n].pc = "terminate"
        /\ \A m \in Nodes \ {n} : go'[m] = go[m] /\ inst'[m] = inst[m]
        /\ inst'[n] = "terminated" /\ seen' = seen
    BY <1>8, <1>s, <1>u, <1>i DEF TerminateNew
  <2>4. Current(n)' = Current(n) => Knows(n)'
    BY <1>t, <2>2 DEF Knows, GoKnows, GoneKnows, InstanceKnows, Recorded, InHand, There
  <2>. QED
    BY <1>t, <1>c, <2>2, <2>4, OneNode
<1>9. CASE GoAbort(n)
  <2>1. /\ \A m \in Nodes \ {n} : go'[m] = go[m]
        /\ go[n].pc \in {"create", "status", "patch"}
        /\ go'[n].pc = IF go[n].pc = "patch" THEN "terminate" ELSE "failed"
        /\ inst' = inst /\ seen \subseteq seen' /\ UNCHANGED nw
    BY <1>9, <1>s, <1>u, <1>f DEF GoAbort
  <2>2. CASE UNCHANGED node
    <3>1. Current(n)' = Current(n) => Knows(n)'
      BY <1>t, <2>1, <2>2 DEF Knows, GoKnows, GoneKnows, InstanceKnows, Recorded, InHand, There
    <3>. QED
      BY <1>t, <1>c, <2>1, <2>2, <3>1, OneNode
  <2>3. CASE ~UNCHANGED node
    <3>. DEFINE o == IF go[n].pc = "create" THEN NewNode("live")
                     ELSE IF go[n].pc = "status" THEN [go[n].obj EXCEPT !.cap = TRUE]
                     ELSE [go[n].obj EXCEPT !.id = TRUE]
    <3>1. Put(n, o) /\ (go[n].pc # "create" => go[n].obj = Current(n)) /\ "lost" \in seen'
      BY <1>9, <1>f, <2>3 DEF GoAbort
    <3>2. /\ go[n].pc = "create"
               => o \in NodeObj /\ o.state = "live" /\ ~o.id /\ ~o.fin
          /\ go[n].pc # "create"
               => /\ o \in NodeObj /\ o.state = Current(n).state /\ o.fin = Current(n).fin
                  /\ o.id = (Current(n).id \/ go[n].pc = "patch")
      <4>1. CASE go[n].pc = "create"
        BY <4>1, ObjectTypes DEF NewNode
      <4>2. CASE go[n].pc = "status"
        <5>1. o = [go[n].obj EXCEPT !.cap = TRUE] /\ o \in NodeObj
          BY <4>2, <1>c, NodeChanges
        <5>2. o.state = go[n].obj.state /\ o.id = go[n].obj.id /\ o.fin = go[n].obj.fin
          BY <1>c, <5>1 DEF NodeObj
        <5>3. o.id \in BOOLEAN
          BY <5>1 DEF NodeObj
        <5>. QED
          BY <4>2, <3>1, <5>1, <5>2, <5>3
      <4>3. CASE go[n].pc = "patch"
        <5>1. o = [go[n].obj EXCEPT !.id = TRUE] /\ o \in NodeObj
          BY <4>3, <1>c, NodeChanges
        <5>2. o.state = go[n].obj.state /\ o.id /\ o.fin = go[n].obj.fin
          BY <1>c, <5>1 DEF NodeObj
        <5>3. o.id \in BOOLEAN
          BY <5>1 DEF NodeObj
        <5>. QED
          BY <4>3, <3>1, <5>1, <5>2, <5>3
      <4>. QED
        BY <2>1, <4>1, <4>2, <4>3
    <3>. HIDE DEF o
    <3>3. Follows(Current(n), o)
      BY <1>t, <3>2 DEF Follows, Knows, GoKnows
    <3>4. Current(n)' = o => Knows(n)'
      BY <1>t, <2>1, <3>1, <3>2
      DEF Knows, GoKnows, GoneKnows, InstanceKnows, Recorded, InHand, There
    <3>5. o \in NodeObj
      BY <3>2
    <3>. QED
      BY <1>t, <2>1, <3>1, <3>3, <3>4, <3>5, OneNode
  <2>. QED
    BY <2>2, <2>3
<1>. QED
  BY <1>1, <1>2, <1>3, <1>4, <1>5, <1>6, <1>7, <1>8, <1>9 DEF GoStep

\* The GPUNode controller preserves the invariant.
LEMMA WorkerInv ==
    ASSUME ProvisionInv, NEW n \in Nodes, NodeStart(n) \/ NodeStep(n) \/ NodeAbort(n)
    PROVE  ProvisionInv'
<1>t. TypeInv /\ TypeOK /\ VersionsFollow /\ WorkerKnows /\ Knows(n) /\ TypeInv'
  BY InvParts, WorkerTypes DEF TypeInv
<1>c. /\ Current(n) \in NodeObj /\ Cached(n) \in NodeObj /\ nw.obj \in NodeObj
      /\ Follows(Cached(n), Current(n)) /\ Follows(Current(n), Current(n))
  BY <1>t, CurrentTypes, FollowsTransitive DEF TypeOK, VersionsFollow
<1>r. NodeRetry(n) \/ NodeReturn => WorkerKnows'
  BY DEF NodeRetry, NodeReturn, IdleNode, WorkerKnows
<1>g. \A m \in Nodes \ {n} : go'[m] = go[m]
  BY DEF NodeStart, NodeStep, NodeAbort, Terminate, DropFinalizer, MakeReady, nwUnchanged
<1>h. go'[n] = go[n]
  BY DEF NodeStart, NodeStep, NodeAbort, Terminate, DropFinalizer, MakeReady, nwUnchanged
<1>u. UNCHANGED faults => seen' = seen
  BY DEF faults
<1>f. \A f : Spend(f) => seen \subseteq seen'
  BY DEF Spend
<1>k. ASSUME NEW o \in NodeObj, o.state = Current(n).state, o.id = Current(n).id,
             o.fin = Current(n).fin \/ o.state # "gone",
             inst' = inst, seen \subseteq seen', Current(n)' = o
      PROVE  Knows(n)'
  BY <1>t, <1>h, <1>k DEF Knows, GoKnows, GoneKnows, InstanceKnows, Recorded, InHand, There
<1>1. CASE NodeStart(n)
  <2>1. inst' = inst /\ seen' = seen
    BY <1>1, <1>u DEF NodeStart
  <2>2. CASE UNCHANGED <<nw, node>>
    BY <1>t, <1>c, <1>g, <1>k, <2>1, <2>2, OneNode
  <2>3. CASE /\ Cached(n).state = "deleting" /\ UNCHANGED node
             /\ nw' = [pc |-> "terminate", n |-> n, obj |-> Cached(n)]
    <3>1. Current(n)' = Current(n) => WorkerKnows'
      BY <1>c, <2>3 DEF WorkerKnows
    <3>. QED
      BY <1>t, <1>c, <1>g, <1>k, <2>1, <2>3, <3>1, OneNode
  <2>4. CASE /\ Cached(n).state = "live" /\ UNCHANGED node
             /\ nw' = [pc |-> "ready", n |-> n, obj |-> Cached(n)]
    <3>1. Current(n)' = Current(n) => WorkerKnows'
      BY <1>c, <2>4 DEF WorkerKnows
    <3>. QED
      BY <1>t, <1>c, <1>g, <1>k, <2>1, <2>4, <3>1, OneNode
  <2>5. CASE /\ Cached(n).state = "live" /\ Cached(n) = Current(n)
             /\ Put(n, [Cached(n) EXCEPT !.fin = TRUE])
             /\ nw' = [pc |-> "ready", n |-> n, obj |-> [Cached(n) EXCEPT !.fin = TRUE]]
    <3>. DEFINE o == [Cached(n) EXCEPT !.fin = TRUE]
    <3>1. o \in NodeObj
      BY <1>c, NodeChanges
    <3>2. o.state = Cached(n).state /\ o.id = Cached(n).id
      BY <1>c DEF NodeObj
    <3>3. Put(n, o) /\ nw' = [pc |-> "ready", n |-> n, obj |-> o]
      BY <2>5
    <3>. HIDE DEF o
    <3>4. Follows(Current(n), o) /\ Follows(o, o)
      BY <2>5, <3>2 DEF Follows
    <3>5. Current(n)' = o => WorkerKnows'
      <4>1. o.state = "live"
        BY <2>5, <3>2
      <4>2. nw'.pc = "ready" /\ nw'.n = n /\ nw'.obj = o
        BY <3>3
      <4>. QED
        BY <3>4, <4>1, <4>2 DEF WorkerKnows
    <3>6. Current(n)' = o => Knows(n)'
      BY <1>k, <2>1, <2>5, <3>1, <3>2
    <3>. QED
      BY <1>t, <1>g, <2>1, <3>1, <3>3, <3>4, <3>5, <3>6, OneNode
  <2>. QED
    BY <1>1, <2>2, <2>3, <2>4, <2>5 DEF NodeStart
<1>w. ASSUME nw.pc # "idle", nw.n = n
      PROVE  /\ Follows(nw.obj, Current(n))
             /\ nw.pc = "ready" => nw.obj.state = "live"
             /\ nw.pc \in {"terminate", "drop"} => nw.obj.state = "deleting"
             /\ nw.pc = "drop" => nw.obj.id /\ inst[n] = "terminated"
  BY <1>t, <1>w DEF WorkerKnows
<1>2. CASE Terminate(n) /\ UNCHANGED inst
  <2>1. seen \subseteq seen' /\ UNCHANGED node
    BY <1>2, <1>u, <1>f DEF Terminate
  <2>2. UNCHANGED nw \/ WorkerKnows'
    <3>1. CASE NodeRetry(n)
      BY <1>r, <3>1
    <3>2. CASE nw.obj.id /\ inst' = [inst EXCEPT ![n] = "terminated"]
               /\ nw' = [nw EXCEPT !.pc = "drop"]
      <4>1. inst'[n] = "terminated" /\ nw.n = n /\ nw.pc = "terminate"
        BY <1>2, <1>t, <3>2 DEF Terminate, TypeOK
      <4>2. nw'.pc = "drop" /\ nw'.n = n /\ nw'.obj = nw.obj
        BY <1>t, <3>2, <4>1 DEF TypeOK
      <4>3. Current(n)' = Current(n)
        BY <2>1 DEF Current
      <4>. QED
        BY <1>w, <3>2, <4>1, <4>2, <4>3 DEF WorkerKnows
    <3>. QED
      BY <1>2, <3>1, <3>2 DEF Terminate
  <2>. QED
    BY <1>2, <1>t, <1>c, <1>g, <1>k, <2>1, <2>2, OneNode
<1>3. CASE Terminate(n) /\ ~UNCHANGED inst
  <2>1. /\ nw.obj.id /\ inst' = [inst EXCEPT ![n] = "terminated"] /\ UNCHANGED node
        /\ nw' = [nw EXCEPT !.pc = "drop"] \/ NodeRetry(n)
        /\ nw.pc = "terminate" /\ nw.n = n /\ seen \subseteq seen'
    BY <1>3, <1>u, <1>f DEF Terminate
  <2>2. inst'[n] = "terminated" /\ \A m \in Nodes \ {n} : inst'[m] = inst[m]
    BY <1>t, <2>1 DEF TypeOK
  <2>3. NodeRetry(n) \/ (nw'.pc = "drop" /\ nw'.n = n /\ nw'.obj = nw.obj)
    BY <1>t, <2>1 DEF TypeOK
  <2>4. Current(n).id /\ Current(n).state \in {"deleting", "gone"}
    BY <1>w, <2>1 DEF Follows
  <2>5. Current(n)' = Current(n) => WorkerKnows'
    BY <1>r, <1>w, <2>1, <2>2, <2>3 DEF WorkerKnows
  <2>6. Current(n)' = Current(n) => Knows(n)'
    BY <1>t, <1>h, <2>1, <2>2, <2>4
    DEF Knows, GoKnows, GoneKnows, InstanceKnows, Recorded, InHand, There
  <2>. QED
    BY <1>t, <1>c, <1>g, <2>1, <2>2, <2>5, <2>6, OneNode
<1>4. CASE DropFinalizer(n)
  <2>1. nw.pc = "drop" /\ nw.n = n /\ inst' = inst /\ seen' = seen /\ WorkerKnows'
    BY <1>4, <1>u, <1>r DEF DropFinalizer
  <2>2. CASE UNCHANGED node
    BY <1>t, <1>c, <1>g, <1>k, <2>1, <2>2, OneNode
  <2>3. CASE nw.obj = Current(n) /\ Put(n, [nw.obj EXCEPT !.state = "gone", !.fin = FALSE])
    <3>. DEFINE o == [nw.obj EXCEPT !.state = "gone", !.fin = FALSE]
    <3>1. o \in NodeObj
      BY <1>c, NodeChanges
    <3>2. o.state = "gone" /\ o.id = nw.obj.id /\ ~o.fin
      BY <1>c DEF NodeObj
    <3>3. Put(n, o)
      BY <2>3
    <3>. HIDE DEF o
    <3>4. Follows(Current(n), o)
      BY <2>3, <3>2 DEF Follows
    <3>5. inst[n] = "terminated" /\ Current(n).id /\ Current(n).state = "deleting"
      BY <1>w, <2>1, <2>3
    <3>6. Current(n)' = o => Knows(n)'
      BY <1>t, <1>h, <2>1, <2>3, <3>2, <3>5
      DEF Knows, GoKnows, GoneKnows, InstanceKnows, Recorded, InHand, There
    <3>. QED
      BY <1>t, <1>g, <2>1, <3>1, <3>3, <3>4, <3>6, OneNode
  <2>. QED
    BY <1>4, <2>2, <2>3 DEF DropFinalizer
<1>5. CASE MakeReady(n)
  <2>1. inst' = inst /\ seen' = seen /\ WorkerKnows'
    BY <1>5, <1>u, <1>r DEF MakeReady
  <2>2. CASE UNCHANGED node
    BY <1>t, <1>c, <1>g, <1>k, <2>1, <2>2, OneNode
  <2>3. ASSUME NEW b \in BOOLEAN, nw.obj = Current(n), Put(n, [nw.obj EXCEPT !.ready = b])
        PROVE  ProvisionInv'
    <3>. DEFINE o == [nw.obj EXCEPT !.ready = b]
    <3>1. o \in NodeObj
      BY <1>c, NodeChanges
    <3>2. o.state = nw.obj.state /\ o.id = nw.obj.id /\ o.fin = nw.obj.fin
      BY <1>c DEF NodeObj
    <3>3. Put(n, o)
      BY <2>3
    <3>. HIDE DEF o
    <3>4. Follows(Current(n), o)
      BY <2>3, <3>2 DEF Follows
    <3>6. Current(n)' = o => Knows(n)'
      BY <1>k, <2>1, <2>3, <3>1, <3>2
    <3>. QED
      BY <1>t, <1>g, <2>1, <3>1, <3>3, <3>4, <3>6, OneNode
  <2>4. (hyper'[n] = "Running") \in BOOLEAN
    OBVIOUS
  <2>. QED
    BY <1>5, <2>2, <2>3, <2>4 DEF MakeReady
<1>6. CASE NodeAbort(n)
  <2>1. inst' = inst /\ seen \subseteq seen' /\ WorkerKnows' /\ UNCHANGED node
    BY <1>6, <1>f, <1>r DEF NodeAbort
  <2>. QED
    BY <1>t, <1>c, <1>g, <1>k, <2>1, OneNode
<1>. QED
  BY <1>1, <1>2, <1>3, <1>4, <1>5, <1>6 DEF NodeStep

\* A step that leaves the current versions, the goroutines and the instances alone.
LEMMA NoWrite ==
    ASSUME ProvisionInv, TypeInv', VersionsFollow', seen \subseteq seen', inst' = inst,
           \A n \in Nodes : Current(n)' = Current(n) /\ go'[n] = go[n],
           UNCHANGED nw \/ WorkerKnows'
    PROVE  ProvisionInv'
<1>t. TypeInv /\ WorkerKnows /\ \A n \in Nodes : Knows(n)
  BY InvParts
<1>1. \A n \in Nodes : Knows(n)'
  BY <1>t, Kept
<1>2. \A n \in Nodes : Follows(Current(n), Current(n)') /\ Current(n)' \in NodeObj
  BY <1>t, CurrentTypes, FollowsTransitive
<1>3. WorkerKnows'
  BY <1>t, <1>2, WorkerKept
<1>. QED
  BY <1>1, <1>3 DEF ProvisionInv, TypeInv, Knows

\* The informers, the other controllers, the jobs and the users preserve it.
LEMMA AroundInv ==
    ASSUME ProvisionInv, NEW n \in Nodes,
           NodeEvent(n) \/ BindNode(n) \/ Discover(n) \/ Join(n) \/ RunHypervisor(n)
           \/ DeleteNode(n)
    PROVE  ProvisionInv'
<1>t. TypeInv /\ TypeOK /\ VersionsFollow /\ Knows(n) /\ TypeInv'
  BY InvParts, AroundTypes DEF TypeInv
<1>c. /\ Current(n) \in NodeObj /\ Cached(n) \in NodeObj
      /\ Follows(Current(n), Current(n))
  BY <1>t, CurrentTypes, FollowsTransitive
<1>g. UNCHANGED nw /\ UNCHANGED go /\ UNCHANGED inst /\ seen \subseteq seen'
  BY DEF NodeEvent, BindNode, Discover, Join, RunHypervisor, DeleteNode, workers, outside,
         faults, Spend
<1>k. ASSUME NEW o \in NodeObj, o.state = Current(n).state, o.id = Current(n).id,
             o.fin = Current(n).fin, Put(n, o)
      PROVE  ProvisionInv'
  <2>1. Follows(Current(n), o)
    BY <1>k DEF Follows
  <2>2. Current(n)' = o => Knows(n)'
    BY <1>t, <1>g, <1>k
    DEF Knows, GoKnows, GoneKnows, InstanceKnows, Recorded, InHand, There
  <2>. QED
    BY <1>t, <1>g, <1>k, <2>1, <2>2, OneNode
<1>1. CASE NodeEvent(n)
  <2>1. node[n] \in Seq(NodeObj) /\ Len(node[n]) > 1 /\ node'[n] = Tail(node[n])
        /\ \A m \in Nodes \ {n} : node'[m] = node[m]
    BY <1>1, <1>t DEF NodeEvent, TypeInv
  <2>2. Newest(node'[n]) = Newest(node[n])
    BY <2>1, Dropped
  <2>3. \A i \in DOMAIN node'[n] : i + 1 \in DOMAIN node[n] /\ node'[n][i] = node[n][i + 1]
    BY <2>1, Dropped
  <2>4. ASSUME NEW m \in Nodes PROVE Current(m)' = Current(m)
    BY <2>1, <2>2 DEF Current
  <2>5. ASSUME NEW m \in Nodes, NEW i \in DOMAIN node'[m]
        PROVE  Follows(node'[m][i], Current(m))
    <3>1. CASE m = n
      BY <1>t, <2>3, <2>5, <3>1 DEF VersionsFollow
    <3>2. CASE m # n
      BY <1>t, <2>1, <2>5, <3>2 DEF VersionsFollow
    <3>. QED
      BY <3>1, <3>2
  <2>6. VersionsFollow'
    BY <2>4, <2>5 DEF VersionsFollow
  <2>. QED
    BY <1>t, <1>g, <2>4, <2>6, NoWrite
<1>2. CASE BindNode(n)
  <2>. DEFINE o == [Cached(n) EXCEPT !.k8s = TRUE]
  <2>1. o \in NodeObj
    BY <1>c, NodeChanges
  <2>2. o.state = Cached(n).state /\ o.id = Cached(n).id /\ o.fin = Cached(n).fin
    BY <1>c DEF NodeObj
  <2>3. Put(n, o) /\ Cached(n) = Current(n)
    BY <1>2 DEF BindNode
  <2>. HIDE DEF o
  <2>. QED
    BY <1>k, <2>1, <2>2, <2>3
<1>3. CASE Discover(n)
  <2>. DEFINE o == [Current(n) EXCEPT !.cap = TRUE, !.k8s = TRUE, !.ready = TRUE]
  <2>1. o \in NodeObj
    BY <1>c, NodeChanges
  <2>2. o.state = Current(n).state /\ o.id = Current(n).id /\ o.fin = Current(n).fin
    BY <1>c DEF NodeObj
  <2>3. Put(n, o)
    BY <1>3 DEF Discover
  <2>. HIDE DEF o
  <2>. QED
    BY <1>k, <2>1, <2>2, <2>3
<1>4. CASE Join(n) \/ RunHypervisor(n)
  <2>1. UNCHANGED node
    BY <1>4 DEF Join, RunHypervisor
  <2>2. \A m \in Nodes : Current(m)' = Current(m)
    BY <2>1 DEF Current
  <2>3. VersionsFollow'
    BY <1>t, <2>1, <2>2 DEF VersionsFollow
  <2>. QED
    BY <1>t, <1>g, <2>2, <2>3, NoWrite
<1>5. CASE DeleteNode(n)
  <2>1. ASSUME NEW o \in NodeObj, Put(n, o), o.id = Current(n).id, Current(n).state = "live",
               \/ o.state = "deleting"
               \/ o.state = "gone" /\ ~o.fin /\ "early" \in seen'
        PROVE  ProvisionInv'
    <3>1. Follows(Current(n), o)
      BY <2>1 DEF Follows
    <3>2. Current(n)' = o => Knows(n)'
      BY <1>t, <1>g, <2>1
      DEF Knows, GoKnows, GoneKnows, InstanceKnows, Recorded, InHand, There
    <3>. QED
      BY <1>t, <1>g, <2>1, <3>1, <3>2, OneNode
  <2>2. ASSUME Put(n, [Current(n) EXCEPT !.state = "deleting"]), Current(n).state = "live"
        PROVE  ProvisionInv'
    <3>. DEFINE o == [Current(n) EXCEPT !.state = "deleting"]
    <3>1. o \in NodeObj
      BY <1>c, NodeChanges
    <3>2. o.state = "deleting" /\ o.id = Current(n).id
      BY <1>c DEF NodeObj
    <3>3. Put(n, o)
      BY <2>2
    <3>. HIDE DEF o
    <3>. QED
      BY <2>1, <2>2, <3>1, <3>2, <3>3
  <2>3. ASSUME Put(n, [Current(n) EXCEPT !.state = "gone"]), Current(n).state = "live",
               ~Current(n).fin, "early" \in seen'
        PROVE  ProvisionInv'
    <3>. DEFINE o == [Current(n) EXCEPT !.state = "gone"]
    <3>1. o \in NodeObj
      BY <1>c, NodeChanges
    <3>2. o.state = "gone" /\ o.id = Current(n).id /\ o.fin = Current(n).fin
      BY <1>c DEF NodeObj
    <3>3. Put(n, o)
      BY <2>3
    <3>. HIDE DEF o
    <3>. QED
      BY <2>1, <2>3, <3>1, <3>2, <3>3
  <2>4. Spend("early") => "early" \in seen'
    BY DEF Spend
  <2>. QED
    BY <1>5, <2>2, <2>3, <2>4 DEF DeleteNode
<1>. QED
  BY <1>1, <1>2, <1>3, <1>4, <1>5

\* So does the pool controller, which starts the goroutines and waits for them.
LEMMA PoolInv ==
    ASSUME ProvisionInv, PoolStep \/ PoolAbort \/ PoolEvent \/ DeletePool
    PROVE  ProvisionInv'
<1>t. TypeInv /\ TypeOK /\ VersionsFollow /\ WorkerKnows /\ TypeInv'
  BY InvParts, PoolTypes DEF TypeInv
<1>k. \A n \in Nodes : Knows(n)
  BY InvParts
<1>1. UNCHANGED node /\ UNCHANGED inst /\ UNCHANGED nw /\ seen \subseteq seen'
  BY DEF PoolStep, PoolStart, Refresh, ScaleUp, WaitAll, RefreshAgain, PoolAbort, PoolEvent,
         DeletePool, workers, outside, faults, Spend
<1>2. \A n \in Nodes : Current(n)' = Current(n)
  BY <1>1 DEF Current
<1>3. VersionsFollow'
  BY <1>t, <1>1, <1>2 DEF VersionsFollow
<1>4. CASE UNCHANGED go
  BY <1>t, <1>1, <1>2, <1>3, <1>4, NoWrite
<1>5. ASSUME \A n \in Nodes : Knows(n)' PROVE ProvisionInv'
  <2>1. \A n \in Nodes : Follows(Current(n), Current(n)') /\ Current(n)' \in NodeObj
    BY <1>t, <1>2, CurrentTypes, FollowsTransitive
  <2>2. WorkerKnows'
    BY <1>t, <1>1, <2>1, WorkerKept
  <2>. QED
    BY <1>t, <1>3, <1>5, <2>2 DEF ProvisionInv, TypeInv, Knows
<1>6. CASE ScaleUp /\ ~UNCHANGED go
  <2>1. PICK S \in SUBSET Fresh :
          go' = [n \in Nodes |-> IF n \in S THEN [go[n] EXCEPT !.pc = "create"] ELSE go[n]]
    BY <1>6 DEF ScaleUp
  <2>2. ASSUME NEW n \in Nodes PROVE Knows(n)'
    <3>1. CASE n \notin S
      <4>1. go'[n] = go[n]
        BY <2>1, <3>1
      <4>. QED
        BY <1>k, <1>1, <1>2, <4>1, Kept
    <3>2. CASE n \in S
      <4>1. go'[n].pc = "create" /\ Current(n).state = "none"
        BY <1>t, <2>1, <3>2 DEF Fresh, TypeOK
      <4>. QED
        BY <1>k, <1>1, <1>2, <4>1
        DEF Knows, GoKnows, GoneKnows, InstanceKnows, Recorded, InHand, There
    <3>. QED
      BY <3>1, <3>2
  <2>. QED
    BY <1>5, <2>2
<1>7. CASE WaitAll
  <2>1. ASSUME NEW n \in Nodes PROVE Knows(n)'
    <3>1. go[n].pc \in {"idle", "done", "failed"} /\ go'[n].pc = "idle"
      BY <1>7 DEF WaitAll, Running, IdleGo
    <3>. QED
      BY <1>k, <1>1, <1>2, <3>1
      DEF Knows, GoKnows, GoneKnows, InstanceKnows, Recorded, InHand, There
  <2>. QED
    BY <1>5, <2>1
<1>8. ASSUME PoolStart \/ Refresh \/ RefreshAgain \/ PoolAbort \/ PoolEvent \/ DeletePool
      PROVE  UNCHANGED go
  BY <1>8 DEF PoolStart, Refresh, RefreshAgain, PoolAbort, PoolEvent, DeletePool, workers
<1>. QED
  BY <1>4, <1>6, <1>7, <1>8 DEF PoolStep

\* So does a restart, after which nobody has anything in hand.
LEMMA CrashInv ==
    ASSUME ProvisionInv, Crash
    PROVE  ProvisionInv'
<1>k. TypeInv /\ \A n \in Nodes : Knows(n)
  BY InvParts
<1>1. /\ TypeInv' /\ seen \subseteq seen' /\ seen' \cap {"crash", "panic"} # {}
      /\ \A n \in Nodes : node'[n] = <<Current(n)>> /\ Current(n)' = Current(n)
  BY <1>k, Restarted
<1>2. inst' = inst /\ go' = IdleGo /\ nw' = IdleNode
  BY DEF Crash, outside
<1>3. VersionsFollow'
  <2>1. ASSUME NEW n \in Nodes PROVE \A i \in DOMAIN node'[n] : node'[n][i] = Current(n)
    BY <1>1, <1>k, CurrentTypes, Listed
  <2>2. \A n \in Nodes : Follows(Current(n), Current(n))
    BY <1>k, CurrentTypes, FollowsTransitive
  <2>. QED
    BY <1>1, <2>1, <2>2 DEF VersionsFollow
<1>4. WorkerKnows'
  BY <1>2 DEF WorkerKnows, IdleNode
<1>5. ASSUME NEW n \in Nodes PROVE Knows(n)'
  <2>1. go'[n].pc = "idle"
    BY <1>2 DEF IdleGo
  <2>. QED
    BY <1>k, <1>1, <1>2, <2>1
    DEF Knows, GoKnows, GoneKnows, InstanceKnows, Recorded, InHand, There
<1>. QED
  BY <1>1, <1>3, <1>4, <1>5 DEF ProvisionInv, TypeInv, Knows

\* ProvisionInv is inductive.
LEMMA InvStep == ProvisionInv /\ [Next]_vars => ProvisionInv'
<1>. SUFFICES ASSUME ProvisionInv, [Next]_vars PROVE ProvisionInv'
  OBVIOUS
<1>1. CASE UNCHANGED vars
  <2>1. UNCHANGED <<node, inst, go, nw, seen>>
    BY <1>1 DEF vars, outside, workers, faults
  <2>2. TypeInv /\ VersionsFollow
    BY InvParts
  <2>3. TypeInv'
    BY <1>1, <2>2, TypeStep
  <2>4. \A n \in Nodes : Current(n)' = Current(n)
    BY <2>1 DEF Current
  <2>5. VersionsFollow'
    BY <2>1, <2>2, <2>4 DEF VersionsFollow
  <2>. QED
    BY <2>1, <2>3, <2>4, <2>5, NoWrite
<1>. QED
  BY <1>1, PoolInv, GoInv, WorkerInv, AroundInv, CrashInv DEF Next

LEMMA InvInit == Init => ProvisionInv
<1>. SUFFICES ASSUME Init PROVE ProvisionInv
  OBVIOUS
<1>1. TypeInv
  BY TypeInit
<1>2. ASSUME NEW n \in Nodes
      PROVE  /\ node[n] = <<NewNode("none")>> /\ go[n].pc = "idle" /\ inst[n] = "none"
             /\ Current(n) = NewNode("none")
  BY ObjectTypes, Listed DEF Init, IdleGo, Current
<1>3. VersionsFollow
  <2>1. ASSUME NEW n \in Nodes, NEW i \in DOMAIN node[n] PROVE node[n][i] = NewNode("none")
    BY <1>2, <2>1, ObjectTypes, Listed
  <2>2. Follows(NewNode("none"), NewNode("none"))
    BY ObjectTypes, FollowsTransitive
  <2>. QED
    BY <1>2, <2>1, <2>2 DEF VersionsFollow
<1>4. WorkerKnows
  BY DEF Init, IdleNode, WorkerKnows
<1>5. NewNode("none").state = "none" /\ ~NewNode("none").id
  BY DEF NewNode
<1>6. ASSUME NEW n \in Nodes PROVE Knows(n)
  BY <1>2, <1>5 DEF Knows, GoKnows, GoneKnows, InstanceKnows
<1>. QED
  BY <1>1, <1>3, <1>4, <1>6, InvParts

\* A refused, failed or unanswered write, a call the cloud rejects or a deletion leaves
\* no instance behind: what runs is named by its GPUNode or still in the hands of its
\* goroutine, unless one of the five events happened that the provisioner has no
\* answer to.
THEOREM NoUnexplainedOrphan == Spec => []OrphansExplained
<1>1. ProvisionInv => OrphansExplained
  BY DEF ProvisionInv, InstanceKnows, OrphansExplained, NoOrphan
<1>. QED
  BY <1>1, InvInit, InvStep, PTL DEF Spec

\* Undoing a creation never hits an instance that a GPUNode names, as long as no
\* answer of the API server is lost.
THEOREM RecordedInstanceRuns == Spec => []RecordedRuns
<1>1. ProvisionInv => RecordedRuns
  BY DEF ProvisionInv, InstanceKnows, RecordedRuns
<1>. QED
  BY <1>1, InvInit, InvStep, PTL DEF Spec

\* The finalizer of a GPUNode goes only after its instance, whatever happens between
\* the deletion hook's reads and writes.
THEOREM TerminatedFirst == Spec => TerminatedBeforeGone
<1>. DEFINE A == \A n \in Nodes : Current(n).fin /\ Current(n).id /\ Current(n)'.state = "gone"
                                    => inst[n] = "terminated"
<1>1. ProvisionInv /\ [Next]_vars => [A]_vars
  <2>. SUFFICES ASSUME ProvisionInv, Next, NEW m \in Nodes,
                       Current(m).fin, Current(m).id, Current(m)'.state = "gone"
                PROVE  inst[m] = "terminated"
    OBVIOUS
  <2>t. TypeInv /\ WorkerKnows /\ Knows(m) /\ Current(m) \in NodeObj
    BY InvParts, CurrentTypes
  <2>1. Current(m).state # "gone"
    BY <2>t DEF Knows, GoneKnows
  <2>2. ASSUME UNCHANGED node PROVE FALSE
    BY <2>1, <2>2 DEF Current
  <2>3. ASSUME NEW n \in Nodes, NEW o \in NodeObj, Put(n, o) PROVE n = m /\ o.state = "gone"
    <3>1. Current(n)' = o /\ \A k \in Nodes \ {n} : node'[k] = node[k]
      BY <2>t, <2>3, PutNode
    <3>2. n = m
      BY <2>1, <3>1 DEF Current
    <3>. QED
      BY <3>1, <3>2
  <2>4. ASSUME Current(m)' = Current(m) PROVE FALSE
    BY <2>1, <2>4
  <2>5. ASSUME NEW n \in Nodes, NEW o \in NodeObj, Put(n, o),
               o.state = Current(n).state \/ o.state \in {"live", "deleting"}
        PROVE  FALSE
    BY <2>1, <2>3, <2>5
  <2>6. CASE PoolStep \/ PoolAbort \/ PoolEvent \/ DeletePool
    BY <2>2, <2>6
    DEF PoolStep, PoolStart, Refresh, ScaleUp, WaitAll, RefreshAgain, PoolAbort, PoolEvent,
        DeletePool
  <2>7. CASE Crash
    BY <2>t, <2>4, <2>7, Restarted
  <2>8. ASSUME NEW n \in Nodes, GoStep(n) \/ GoAbort(n) PROVE FALSE
    <3>. DEFINE capped == [go[n].obj EXCEPT !.cap = TRUE]
                named  == [go[n].obj EXCEPT !.id = TRUE]
    <3>1. go[n].obj \in NodeObj /\ NewNode("live") \in NodeObj /\ NewNode("live").state = "live"
      BY <2>t, ObjectTypes DEF TypeInv, TypeOK, NewNode
    <3>2. capped \in NodeObj /\ named \in NodeObj
      BY <3>1, NodeChanges
    <3>3. capped.state = go[n].obj.state /\ named.state = go[n].obj.state
      BY <3>1 DEF NodeObj
    <3>4. \/ UNCHANGED node \/ Put(n, NewNode("live"))
          \/ go[n].obj = Current(n) /\ (Put(n, capped) \/ Put(n, named))
      BY <2>8 DEF GoStep, GoAbort, Create, WriteStatus, CreateNode, GetNode, PatchNode,
                  TerminateNew
    <3>. HIDE DEF capped, named
    <3>. QED
      BY <2>2, <2>5, <3>1, <3>2, <3>3, <3>4
  <2>9. ASSUME NEW n \in Nodes, NodeStart(n) \/ NodeStep(n) \/ NodeAbort(n)
        PROVE  inst[m] = "terminated"
    <3>c. Cached(n) \in NodeObj /\ nw.obj \in NodeObj
      BY <2>t, CurrentTypes DEF TypeInv, TypeOK
    <3>1. CASE NodeStart(n)
      <4>. DEFINE o == [Cached(n) EXCEPT !.fin = TRUE]
      <4>1. o \in NodeObj
        BY <3>c, NodeChanges
      <4>2. o.state = Cached(n).state
        BY <3>c DEF NodeObj
      <4>3. UNCHANGED node \/ (Cached(n).state = "live" /\ Put(n, o))
        BY <3>1 DEF NodeStart
      <4>. HIDE DEF o
      <4>. QED
        BY <2>2, <2>5, <4>1, <4>2, <4>3
    <3>2. CASE DropFinalizer(n)
      <4>. DEFINE o == [nw.obj EXCEPT !.state = "gone", !.fin = FALSE]
      <4>1. o \in NodeObj
        BY <3>c, NodeChanges
      <4>2. UNCHANGED node \/ Put(n, o)
        BY <3>2 DEF DropFinalizer
      <4>3. n = m
        BY <2>2, <2>3, <4>1, <4>2
      <4>. QED
        BY <2>t, <3>2, <4>3 DEF DropFinalizer, WorkerKnows
    <3>3. CASE MakeReady(n)
      <4>1. ASSUME NEW b \in BOOLEAN, nw.obj = Current(n), Put(n, [nw.obj EXCEPT !.ready = b])
            PROVE  FALSE
        <5>. DEFINE o == [nw.obj EXCEPT !.ready = b]
        <5>1. o \in NodeObj
          BY <3>c, NodeChanges
        <5>2. o.state = nw.obj.state
          BY <3>c DEF NodeObj
        <5>3. Put(n, o)
          BY <4>1
        <5>. HIDE DEF o
        <5>. QED
          BY <2>5, <4>1, <5>1, <5>2, <5>3
      <4>2. (hyper'[n] = "Running") \in BOOLEAN
        OBVIOUS
      <4>. QED
        BY <2>2, <3>3, <4>1, <4>2 DEF MakeReady
    <3>4. CASE Terminate(n) \/ NodeAbort(n)
      BY <2>2, <3>4 DEF Terminate, NodeAbort
    <3>. QED
      BY <2>9, <3>1, <3>2, <3>3, <3>4 DEF NodeStep
  <2>10. ASSUME NEW n \in Nodes, NodeEvent(n) PROVE FALSE
    <3>1. node[n] \in Seq(NodeObj) /\ Len(node[n]) > 1 /\ node'[n] = Tail(node[n])
          /\ \A k \in Nodes \ {n} : node'[k] = node[k]
      BY <2>t, <2>10 DEF NodeEvent, TypeInv
    <3>2. Newest(node'[n]) = Newest(node[n])
      BY <3>1, Dropped
    <3>. QED
      BY <2>4, <3>1, <3>2 DEF Current
  <2>11. ASSUME NEW n \in Nodes, BindNode(n) \/ Discover(n) PROVE FALSE
    <3>. DEFINE bound == [Cached(n) EXCEPT !.k8s = TRUE]
                found == [Current(n) EXCEPT !.cap = TRUE, !.k8s = TRUE, !.ready = TRUE]
    <3>c. Cached(n) \in NodeObj /\ Current(n) \in NodeObj
      BY <2>t, CurrentTypes
    <3>1. bound \in NodeObj /\ found \in NodeObj
      BY <3>c, NodeChanges
    <3>2. bound.state = Cached(n).state /\ found.state = Current(n).state
      BY <3>c DEF NodeObj
    <3>3. (Cached(n) = Current(n) /\ Put(n, bound)) \/ Put(n, found)
      BY <2>11 DEF BindNode, Discover
    <3>. HIDE DEF bound, found
    <3>. QED
      BY <2>5, <3>1, <3>2, <3>3
  <2>12. ASSUME NEW n \in Nodes, DeleteNode(n) PROVE FALSE
    <3>. DEFINE deleting == [Current(n) EXCEPT !.state = "deleting"]
                gone     == [Current(n) EXCEPT !.state = "gone"]
    <3>c. Current(n) \in NodeObj
      BY <2>t, CurrentTypes
    <3>1. deleting \in NodeObj /\ gone \in NodeObj
      BY <3>c, NodeChanges
    <3>2. deleting.state = "deleting"
      BY <3>c DEF NodeObj
    <3>3. Put(n, deleting) \/ (~Current(n).fin /\ Put(n, gone))
      BY <2>12 DEF DeleteNode
    <3>. HIDE DEF deleting, gone
    <3>. QED
      BY <2>3, <2>5, <3>1, <3>2, <3>3
  <2>13. ASSUME NEW n \in Nodes, Join(n) \/ RunHypervisor(n) PROVE FALSE
    BY <2>2, <2>13 DEF Join, RunHypervisor
  <2>. QED
    BY <2>6, <2>7, <2>8, <2>9, <2>10, <2>11, <2>12, <2>13 DEF Next
<1>2. TerminatedBeforeGone <=> [][A]_vars
  BY DEF TerminatedBeforeGone
<1>. QED
  BY <1>1, <1>2, InvInit, InvStep, PTL DEF Spec
================================================================================
