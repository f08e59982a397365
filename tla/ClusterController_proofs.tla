------------------------ MODULE ClusterController_proofs ------------------------
(***************************************************************************)
(* Proofs about ClusterController, for any pools, templates, vendors and   *)
(* specifications and any kinds and numbers of disturbances.               *)
(***************************************************************************)
EXTENDS ClusterController, TLAPS

\* The oldest and the newest of the versions of an object.
LEMMA Ends ==
    ASSUME NEW S, NEW s \in Seq(S), s # <<>>
    PROVE  /\ Newest(s) \in S /\ Head(s) \in S /\ Len(s) \in DOMAIN s /\ 1 \in DOMAIN s
           /\ Newest(s) = s[Len(s)] /\ Head(s) = s[1]
           /\ Len(s) = 1 => Head(s) = Newest(s)
  BY DEF Newest

\* A write adds the newest version.
LEMMA Pushed ==
    ASSUME NEW S, NEW s \in Seq(S), s # <<>>, NEW o \in S
    PROVE  /\ Push(s, o) \in Seq(S) /\ Push(s, o) # <<>>
           /\ \A i \in DOMAIN Push(s, o) :
                \/ Push(s, o)[i] = o
                \/ i \in DOMAIN s /\ Push(s, o)[i] = s[i]
  BY DEF Push, Newest

LEMMA PushedNewest ==
    ASSUME NEW S, NEW s \in Seq(S), s # <<>>, NEW o \in S
    PROVE  Newest(Push(s, o)) = o
  BY DEF Push, Newest

\* An event of the informer drops the oldest version.
LEMMA Dropped ==
    ASSUME NEW S, NEW s \in Seq(S), Len(s) > 1
    PROVE  /\ Tail(s) \in Seq(S) /\ Tail(s) # <<>> /\ Newest(Tail(s)) = Newest(s)
           /\ \A i \in DOMAIN Tail(s) : i + 1 \in DOMAIN s /\ Tail(s)[i] = s[i + 1]
<1>1. /\ Tail(s) \in Seq(S) /\ Len(Tail(s)) = Len(s) - 1
      /\ \A i \in 1..(Len(s) - 1) : Tail(s)[i] = s[i + 1]
  OBVIOUS
<1>2. DOMAIN s = 1..Len(s) /\ Len(s) \in Nat
  OBVIOUS
<1>3. DOMAIN Tail(s) = 1..(Len(s) - 1)
  BY <1>1
<1>4. Len(<<>>) = 0
  OBVIOUS
<1>5. Len(Tail(s)) # 0
  BY <1>1, <1>2
<1>6. Tail(s) # <<>>
  BY <1>4, <1>5, Zenon
<1>. QED
  BY <1>1, <1>2, <1>3, <1>6 DEF Newest

\* The informers list an object anew.
LEMMA Listed ==
    ASSUME NEW S, NEW o \in S
    PROVE  /\ <<o>> \in Seq(S) /\ <<o>> # <<>> /\ Newest(<<o>>) = o
           /\ \A i \in DOMAIN <<o>> : <<o>>[i] = o
  BY DEF Newest

--------------------------------------------------------------------------------
(* The invariant by the part of the state it is about *)

Versions == cluster \in Seq(ClusterObj) /\ cluster # <<>> /\ HashesTested

PoolVersions == pool \in [Pools -> Seq(PoolObj)] /\ \A p \in Pools : pool[p] # <<>>

Workers == [pc : Steps, obj : ClusterObj, fresh : BOOLEAN, todo : [Pools -> Calls],
            changed : BOOLEAN, failed : BOOLEAN]

Worker == w \in Workers /\ WorkerTested /\ FreshKnows

Budget == [faults : 0..MaxFaults, edits : 0..MaxEdits, flips : 0..MaxFlips]

Around ==
    /\ client \in Vendors \cup {None} /\ ClientKnows /\ tested \subseteq Vendors
    /\ queue \in BOOLEAN /\ late \in BOOLEAN /\ left \in Budget

LEMMA InvParts == ClusterInv <=> Versions /\ PoolVersions /\ Worker /\ Around
  BY DEF ClusterInv, TypeOK, Versions, PoolVersions, Worker, Workers, Around, Budget

LEMMA InvPartsNext == ClusterInv' <=> Versions' /\ PoolVersions' /\ Worker' /\ Around'
  BY DEF ClusterInv, TypeOK, Versions, PoolVersions, Worker, Workers, Around, Budget

--------------------------------------------------------------------------------
(* Objects *)

\* What the functions that change the status leave alone.
LEMMA StatusChanges ==
    ASSUME NEW o \in ClusterObj
    PROVE  /\ \A c \in {SetAsPending(o), SetAsUpdating(o), Retried(o), MadeReady(o)} :
                c \in ClusterObj /\ SameButStatus(c, o) /\ c.hash = o.hash
           /\ SetAsPending(o).phase = "Pending" /\ SetAsUpdating(o).phase = "Updating"
           /\ Retried(o).phase = "Updating"
<1>1. /\ SetAsPending(o) \in ClusterObj /\ SameButStatus(SetAsPending(o), o)
      /\ SetAsPending(o).hash = o.hash /\ SetAsPending(o).phase = "Pending"
  BY DEF SetAsPending, ClusterObj, SameButStatus
<1>2. /\ SetAsUpdating(o) \in ClusterObj /\ SameButStatus(SetAsUpdating(o), o)
      /\ SetAsUpdating(o).hash = o.hash /\ SetAsUpdating(o).phase = "Updating"
      /\ SetAsUpdating(o).retry = o.retry
  BY DEF SetAsUpdating, ClusterObj, SameButStatus
<1>3. /\ SetAsReady(o) \in ClusterObj /\ SameButStatus(SetAsReady(o), o)
      /\ SetAsReady(o).hash = o.hash
  BY DEF SetAsReady, ClusterObj, SameButStatus
<1>r. ASSUME NEW c \in ClusterObj, NEW r \in 0..MaxRetry
      PROVE  /\ [c EXCEPT !.retry = r] \in ClusterObj
             /\ SameButStatus([c EXCEPT !.retry = r], c) /\ [c EXCEPT !.retry = r].hash = c.hash
             /\ [c EXCEPT !.retry = r].phase = c.phase
  BY DEF ClusterObj, SameButStatus
<1>4. /\ Retried(o) \in ClusterObj /\ SameButStatus(Retried(o), o)
      /\ Retried(o).hash = o.hash /\ Retried(o).phase = "Updating"
  <2>. DEFINE c == SetAsUpdating(o)
              r == IF c.retry < MaxRetry THEN c.retry + 1 ELSE c.retry
  <2>1. o.retry \in 0..MaxRetry
    BY DEF ClusterObj
  <2>2. r \in 0..MaxRetry
    BY <1>2, <2>1, BoundAssumption
  <2>3. Retried(o) = [c EXCEPT !.retry = r]
    BY DEF Retried
  <2>. HIDE DEF c, r
  <2>4. /\ Retried(o) \in ClusterObj /\ SameButStatus(Retried(o), c)
        /\ Retried(o).hash = c.hash /\ Retried(o).phase = c.phase
    BY <1>2, <1>r, <2>2, <2>3 DEF c
  <2>. QED
    BY <1>2, <2>4 DEF c, SameButStatus
<1>5. /\ MadeReady(o) \in ClusterObj /\ SameButStatus(MadeReady(o), o)
      /\ MadeReady(o).hash = o.hash
  <2>1. 0 \in 0..MaxRetry
    BY BoundAssumption
  <2>2. /\ [SetAsReady(o) EXCEPT !.retry = 0] \in ClusterObj
        /\ SameButStatus([SetAsReady(o) EXCEPT !.retry = 0], SetAsReady(o))
        /\ [SetAsReady(o) EXCEPT !.retry = 0].hash = SetAsReady(o).hash
    BY <1>3, <1>r, <2>1
  <2>3. CASE o.phase = "Updating"
    <3>1. MadeReady(o) = [SetAsReady(o) EXCEPT !.retry = 0]
      BY <2>3 DEF MadeReady
    <3>. QED
      BY <1>3, <2>2, <3>1 DEF SameButStatus
  <2>4. CASE o.phase # "Updating"
    BY <1>3, <2>4 DEF MadeReady
  <2>. QED
    BY <2>3, <2>4
<1>. QED
  BY <1>1, <1>2, <1>4, <1>5

\* The end of Reconcile writes a status.
LEMMA Refreshes ==
    ASSUME NEW o \in ClusterObj
    PROVE  /\ RefreshStatus(MadeReady(o)) \in ClusterObj
           /\ SameButStatus(RefreshStatus(MadeReady(o)), o)
           /\ RefreshStatus(MadeReady(o)).hash = o.hash
<1>1. MadeReady(o) \in ClusterObj /\ SameButStatus(MadeReady(o), o) /\ MadeReady(o).hash = o.hash
  BY StatusChanges
<1>2. RunningPools \in SUBSET Pools /\ Owned \ RunningPools \in SUBSET Pools
  BY DEF RunningPools, Owned
<1>3. RefreshStatus(MadeReady(o))
        = [MadeReady(o) EXCEPT !.ready = RunningPools, !.notReady = Owned \ RunningPools]
  BY DEF RefreshStatus
<1>4. /\ RefreshStatus(MadeReady(o)) \in ClusterObj
      /\ SameButStatus(RefreshStatus(MadeReady(o)), MadeReady(o))
      /\ RefreshStatus(MadeReady(o)).hash = MadeReady(o).hash
  <2>2. PICK m \in ClusterObj : m = MadeReady(o)
    BY <1>1
  <2>3. PICK R \in SUBSET Pools, N \in SUBSET Pools : R = RunningPools /\ N = Owned \ RunningPools
    BY <1>2
  <2>4. RefreshStatus(MadeReady(o)) = [m EXCEPT !.ready = R, !.notReady = N]
    BY <1>3, <2>2, <2>3
  <2>5. PICK c : c = RefreshStatus(MadeReady(o))
    OBVIOUS
  <2>6. c = [m EXCEPT !.ready = R, !.notReady = N]
    BY <2>4, <2>5
  <2>7. c \in ClusterObj /\ SameButStatus(c, m) /\ c.hash = m.hash
    BY <2>6 DEF ClusterObj, SameButStatus
  <2>. QED
    BY <2>2, <2>5, <2>7
<1>. QED
  BY <1>1, <1>4 DEF SameButStatus

\* The finalizer, the deletion, the vendor's record and a new specification.
LEMMA ClusterChanges ==
    ASSUME NEW o \in ClusterObj, NEW c,
           \/ c = [o EXCEPT !.fin = TRUE]
           \/ c = [o EXCEPT !.fin = FALSE, !.state = "gone"]
           \/ \E s \in {"deleting", "gone"} : c = [o EXCEPT !.state = s]
           \/ \E v \in Vendors : c = [o EXCEPT !.hash = v]
           \/ \E s \in SpecType : c = [o EXCEPT !.spec = s]
    PROVE  c \in ClusterObj /\ c.phase = o.phase
<1>1. CASE c = [o EXCEPT !.fin = TRUE]
  BY <1>1 DEF ClusterObj
<1>2. CASE c = [o EXCEPT !.fin = FALSE, !.state = "gone"]
  BY <1>2 DEF ClusterObj
<1>3. CASE \E s \in {"deleting", "gone"} : c = [o EXCEPT !.state = s]
  BY <1>3 DEF ClusterObj
<1>4. CASE \E v \in Vendors : c = [o EXCEPT !.hash = v]
  BY <1>4 DEF ClusterObj
<1>5. CASE \E s \in SpecType : c = [o EXCEPT !.spec = s]
  BY <1>5 DEF ClusterObj
<1>. QED
  BY <1>1, <1>2, <1>3, <1>4, <1>5

\* The copies of a pool that are written.
LEMMA PoolChanges ==
    ASSUME NEW o \in PoolObj
    PROVE  /\ NoPool \in PoolObj
           /\ \A t \in Templates \cup {None} :
                NewPool(t) \in PoolObj /\ [o EXCEPT !.spec = t] \in PoolObj
           /\ \A s \in {"deleting", "gone"} : [o EXCEPT !.state = s] \in PoolObj
           /\ [o EXCEPT !.running = ~@] \in PoolObj
  BY DEF NoPool, NewPool, PoolObj

\* A new cluster, and the worker between two requests.
LEMMA IdleWorker ==
    /\ \A s \in SpecType : NewCluster(s) \in ClusterObj /\ NewCluster(s).hash = None
    /\ Idle \in Workers /\ Idle.pc = "idle" /\ Idle.fresh = FALSE /\ Idle.obj.hash = None
<1>1. 0 \in 0..MaxRetry
  BY BoundAssumption
<1>2. ASSUME NEW s \in SpecType
      PROVE  NewCluster(s) \in ClusterObj /\ NewCluster(s).hash = None
  BY <1>1 DEF NewCluster, ClusterObj
<1>3. (CHOOSE s \in Specs : TRUE) \in SpecType
  BY SpecAssumption
<1>4. NoCalls \in [Pools -> Calls]
  BY DEF NoCalls, Calls
<1>. QED
  BY <1>2, <1>3, <1>4 DEF Idle, Workers, Steps

\* HashTested with what has been tested as a parameter.
Tested(h, T) ==
    h # None => \E t \in T : t = h \/ (TypeOf[t] = "alibaba" /\ TypeOf[h] = "alibaba")

LEMMA TestedGrows ==
    ASSUME NEW h, NEW T, NEW U, T \subseteq U, Tested(h, T)
    PROVE  Tested(h, U)
  BY DEF Tested

\* A write of the cluster.
LEMMA PutVersions ==
    ASSUME Versions, tested \subseteq tested', NEW o \in ClusterObj, Tested(o.hash, tested'),
           PutCluster(o)
    PROVE  Versions' /\ Newest(cluster') = o
<1>1. cluster \in Seq(ClusterObj) /\ cluster # <<>>
  BY DEF Versions
<1>2. cluster' = Push(cluster, o)
  BY DEF PutCluster
<1>3. Newest(cluster') = o
  BY <1>1, <1>2, PushedNewest
<1>4. cluster' \in Seq(ClusterObj) /\ cluster' # <<>>
  BY <1>1, <1>2, Pushed
<1>5. \A i \in DOMAIN Push(cluster, o) :
        Push(cluster, o)[i] = o \/ (i \in DOMAIN cluster /\ Push(cluster, o)[i] = cluster[i])
  BY <1>1, Pushed
<1>6. ASSUME NEW i \in DOMAIN cluster' PROVE Tested(cluster'[i].hash, tested')
  <2>1. CASE cluster'[i] = o
    BY <2>1
  <2>2. CASE i \in DOMAIN cluster /\ cluster'[i] = cluster[i]
    <3>1. Tested(cluster[i].hash, tested)
      BY <2>2 DEF Versions, HashesTested, HashTested, TestedAs, Tested
    <3>. QED
      BY <2>2, <3>1, TestedGrows
  <2>. QED
    BY <1>2, <1>5, <2>1, <2>2
<1>7. HashesTested'
  BY <1>6 DEF HashesTested, HashTested, TestedAs, Tested
<1>. QED
  BY <1>3, <1>4, <1>7 DEF Versions

\* The versions of the cluster stay while others act.
LEMMA SameVersions ==
    ASSUME Versions, tested \subseteq tested', UNCHANGED cluster
    PROVE  Versions'
<1>1. ASSUME NEW i \in DOMAIN cluster' PROVE Tested(cluster'[i].hash, tested')
  <2>1. Tested(cluster[i].hash, tested)
    BY <1>1 DEF Versions, HashesTested, HashTested, TestedAs, Tested
  <2>. QED
    BY <2>1, TestedGrows
<1>2. HashesTested'
  BY <1>1 DEF HashesTested, HashTested, TestedAs, Tested
<1>. QED
  BY <1>2 DEF Versions

\* The ends of the versions of the cluster.
LEMMA ClusterEnds ==
    ASSUME Versions
    PROVE  /\ Newest(cluster) \in ClusterObj /\ Head(cluster) \in ClusterObj
           /\ Tested(Newest(cluster).hash, tested) /\ Tested(Head(cluster).hash, tested)
           /\ Len(cluster) = 1 => Head(cluster) = Newest(cluster)
<1>1. cluster \in Seq(ClusterObj) /\ cluster # <<>>
  BY DEF Versions
<1>2. /\ Newest(cluster) \in ClusterObj /\ Head(cluster) \in ClusterObj
      /\ Len(cluster) \in DOMAIN cluster /\ 1 \in DOMAIN cluster
      /\ Newest(cluster) = cluster[Len(cluster)] /\ Head(cluster) = cluster[1]
      /\ Len(cluster) = 1 => Head(cluster) = Newest(cluster)
  BY <1>1, Ends
<1>3. \A i \in DOMAIN cluster : Tested(cluster[i].hash, tested)
  BY DEF Versions, HashesTested, HashTested, TestedAs, Tested
<1>. QED
  BY <1>2, <1>3

\* A write of a pool, and the ends of its versions.
LEMMA PutPoolVersions ==
    ASSUME PoolVersions, NEW p \in Pools, NEW o \in PoolObj, PutPool(p, o)
    PROVE  PoolVersions'
<1>1. pool[p] \in Seq(PoolObj) /\ pool[p] # <<>>
  BY DEF PoolVersions
<1>2. Push(pool[p], o) \in Seq(PoolObj) /\ Push(pool[p], o) # <<>>
  <2>1. Push(pool[p], o) \in Seq(PoolObj)
    BY <1>1 DEF Push
  <2>2. Push(pool[p], o) # <<>>
    BY <1>1, Pushed
  <2>. QED
    BY <2>1, <2>2
<1>. QED
  BY <1>2 DEF PutPool, PoolVersions

LEMMA PoolEnds ==
    ASSUME PoolVersions, NEW p \in Pools
    PROVE  Current(p) \in PoolObj /\ Cached(p) \in PoolObj
  BY Ends DEF PoolVersions, Current, Cached

\* A deletion of a pool, and the effect of a call of the reconciler.
LEMMA DeletedPools ==
    ASSUME PoolVersions, NEW p \in Pools
    PROVE  Deleted(p) \subseteq PoolObj
<1>1. Current(p) \in PoolObj
  BY PoolEnds
<1>2. \A s \in {"deleting", "gone"} : [Current(p) EXCEPT !.state = s] \in PoolObj
  BY <1>1, PoolChanges
<1>. QED
  BY <1>2 DEF Deleted

LEMMA EffectVersions ==
    ASSUME PoolVersions, w \in Workers, NEW p \in Pools, Effect(p) \/ UNCHANGED pool
    PROVE  PoolVersions'
<1>1. CASE UNCHANGED pool
  BY <1>1 DEF PoolVersions
<1>2. CASE Effect(p)
  <2>1. Current(p) \in PoolObj /\ Deleted(p) \subseteq PoolObj
    BY PoolEnds, DeletedPools
  <2>2. PICK t \in Templates \cup {None} : t = w.obj.spec.pools[p]
    BY DEF Workers, ClusterObj, SpecType
  <2>3. NewPool(t) \in PoolObj /\ [Current(p) EXCEPT !.spec = t] \in PoolObj
    BY <2>1, PoolChanges
  <2>4. \E o \in PoolObj : PutPool(p, o)
    BY <1>2, <2>1, <2>2, <2>3 DEF Effect
  <2>. QED
    BY <2>4, PutPoolVersions
<1>. QED
  BY <1>1, <1>2

\* What the worker is to know after a step.
LEMMA WorkerNext ==
    ASSUME w' \in Workers, Tested(w'.obj.hash, tested'),
           w'.pc \in {"check", "refresh"} => w'.obj.spec.vendor \in {None, w'.obj.hash},
           w'.pc \in {"unreachable", "status"} => w'.obj.phase = "Updating",
           w'.fresh => w'.pc # "idle" /\ SameButStatus(w'.obj, Newest(cluster'))
    PROVE  Worker'
  BY DEF Worker, WorkerTested, FreshKnows, HashTested, TestedAs, Tested

LEMMA WorkerNow ==
    ASSUME Worker
    PROVE  /\ w \in Workers /\ w.obj \in ClusterObj /\ Tested(w.obj.hash, tested)
           /\ w.pc \in {"check", "refresh"} => w.obj.spec.vendor \in {None, w.obj.hash}
           /\ w.pc \in {"unreachable", "status"} => w.obj.phase = "Updating"
           /\ w.fresh => w.pc # "idle" /\ SameButStatus(w.obj, Newest(cluster))
  BY DEF Worker, Workers, WorkerTested, FreshKnows, HashTested, TestedAs, Tested

LEMMA Resting ==
    ASSUME w' = Idle
    PROVE  Worker'
<1>1. Tested(None, tested')
  BY DEF Tested
<1>. QED
  BY <1>1, IdleWorker, WorkerNext

\* Goto.
LEMMA Moved ==
    ASSUME w \in Workers, NEW pc \in Steps, NEW o \in ClusterObj, Goto(pc, o)
    PROVE  /\ w' \in Workers /\ w'.pc = pc /\ w'.obj = o /\ w'.fresh = w.fresh
           /\ queue' = queue
  BY DEF Goto, Workers

\* A disturbance is counted.
LEMMA Spent ==
    ASSUME left \in Budget, NEW f, Spend(f)
    PROVE  left' \in Budget
<1>1. left.faults \in 0..MaxFaults
  BY DEF Budget
<1>2. left.faults - 1 \in 0..MaxFaults
  BY <1>1, FaultAssumption DEF Spend
<1>. QED
  BY <1>2 DEF Spend, Budget

\* A write of the status, which is refused if the copy is outdated.
LEMMA Updated ==
    ASSUME Versions, tested' = tested, NEW o \in ClusterObj, Tested(o.hash, tested),
           updateTFClusterStatus(o)
    PROVE  Versions' /\ (UNCHANGED cluster \/ (w.fresh /\ Newest(cluster') = o))
  BY PutVersions, SameVersions DEF updateTFClusterStatus

--------------------------------------------------------------------------------
(* Steps *)

LEMMA StartInv ==
    ASSUME ClusterInv, Start
    PROVE  ClusterInv'
<1>p. Versions /\ PoolVersions /\ Worker /\ Around
  BY InvParts
<1>. DEFINE o   == Head(cluster)
            now == Len(cluster) = 1
            f   == [o EXCEPT !.fin = TRUE]
            At(c) == /\ w' = [Idle EXCEPT !.pc = IF c.phase = "" THEN "phase" ELSE "list",
                                          !.obj = c, !.fresh = now]
                     /\ queue' = FALSE
<1>t. tested' = tested
  BY DEF Start
<1>e. /\ Newest(cluster) \in ClusterObj /\ o \in ClusterObj /\ (now => o = Newest(cluster))
      /\ Tested(o.hash, tested)
  BY <1>p, ClusterEnds
<1>f. f \in ClusterObj /\ f.hash = o.hash
  <2>1. f \in ClusterObj
    BY <1>e, ClusterChanges
  <2>2. f.hash = o.hash
    BY <1>e DEF ClusterObj
  <2>. QED
    BY <2>1, <2>2
<1>a. queue' \in BOOLEAN => Around'
  <2>1. late' \in BOOLEAN /\ left' \in Budget
    <3>1. late \in BOOLEAN /\ left \in Budget
      BY <1>p DEF Around
    <3>2. CASE UNCHANGED <<late, left>>
      BY <3>1, <3>2
    <3>3. CASE Spend("late") /\ late' = TRUE
      BY <3>1, <3>3, Spent
    <3>. QED
      BY <3>2, <3>3 DEF Start
  <2>2. UNCHANGED <<client, tested>>
    BY DEF Start
  <2>. QED
    BY <1>p, <2>1, <2>2 DEF Around, ClientKnows
<1>o. PoolVersions'
  BY <1>p DEF Start, PoolVersions
<1>c. ASSUME NEW c \in ClusterObj, At(c), Tested(c.hash, tested),
             now => SameButStatus(c, Newest(cluster'))
      PROVE  Worker'
  <2>1. PICK b \in BOOLEAN : b = now
    <3>1. now \in BOOLEAN
      OBVIOUS
    <3>. QED
      BY <3>1, Zenon
  <2>2. PICK pc \in {"phase", "list"} :
          w' = [Idle EXCEPT !.pc = pc, !.obj = c, !.fresh = b]
    BY <1>c, <2>1
  <2>3. w' \in Workers /\ w'.pc = pc /\ w'.obj = c /\ w'.fresh = b
    BY <2>2, IdleWorker DEF Workers, Steps
  <2>. QED
    BY <1>t, <1>c, <2>1, <2>3, WorkerNext
<1>1. CASE o.state = "gone" /\ queue' = FALSE /\ UNCHANGED <<cluster, w>>
  <2>1. Versions'
    BY <1>p, <1>t, <1>1, SameVersions
  <2>2. Worker'
    BY <1>p, <1>t, <1>1, WorkerNow, WorkerNext
  <2>. QED
    BY <1>1, <1>a, <1>o, <2>1, <2>2, InvPartsNext
<1>2. CASE /\ now /\ PutCluster([o EXCEPT !.fin = FALSE, !.state = "gone"])
           /\ queue' = FALSE /\ UNCHANGED w
  <2>. DEFINE g == [o EXCEPT !.fin = FALSE, !.state = "gone"]
  <2>1. g \in ClusterObj
    BY <1>e, ClusterChanges
  <2>2. g.hash = o.hash
    BY <1>e DEF ClusterObj
  <2>3. PutCluster(g)
    BY <1>2
  <2>. HIDE DEF g
  <2>4. Versions'
    BY <1>p, <1>t, <1>e, <2>1, <2>2, <2>3, PutVersions
  <2>5. ~w.fresh
    BY <1>p, WorkerNow DEF Start
  <2>6. Worker'
    BY <1>p, <1>t, <1>2, <2>5, WorkerNow, WorkerNext
  <2>. QED
    BY <1>2, <1>a, <1>o, <2>4, <2>6, InvPartsNext
<1>3. CASE At(o) /\ UNCHANGED cluster
  <2>1. Versions'
    BY <1>p, <1>t, <1>3, SameVersions
  <2>2. now => SameButStatus(o, Newest(cluster'))
    BY <1>e, <1>3 DEF SameButStatus
  <2>3. Worker'
    BY <1>c, <1>e, <1>3, <2>2
  <2>. QED
    BY <1>3, <1>a, <1>o, <2>1, <2>3, InvPartsNext
<1>4. CASE now /\ PutCluster(f) /\ At(f)
  <2>1. PutCluster(f) /\ At(f)
    BY <1>4
  <2>. HIDE DEF f, At
  <2>2. Versions' /\ Newest(cluster') = f
    BY <1>p, <1>t, <1>e, <1>f, <2>1, PutVersions
  <2>3. Worker'
    BY <1>c, <1>e, <1>f, <2>1, <2>2 DEF SameButStatus
  <2>4. queue' = FALSE
    BY <2>1 DEF At
  <2>. QED
    BY <1>a, <1>o, <2>2, <2>3, <2>4, InvPartsNext
<1>5. CASE Retry /\ UNCHANGED cluster
  <2>1. Versions'
    BY <1>p, <1>t, <1>5, SameVersions
  <2>. QED
    BY <1>5, <1>a, <1>o, <2>1, Resting, InvPartsNext DEF Retry
<1>. QED
  BY <1>1, <1>2, <1>3, <1>4, <1>5 DEF Start

\* The steps of Reconcile that read and write the pools.
LEMMA PoolsInv ==
    ASSUME ClusterInv, ListPools \/ EndPools \/ \E p \in Pools : CallPool(p)
    PROVE  ClusterInv'
<1>p. Versions /\ PoolVersions /\ Worker /\ Around
  BY InvParts
<1>w. /\ w \in Workers /\ w.obj \in ClusterObj /\ Tested(w.obj.hash, tested)
      /\ w.fresh => w.pc # "idle" /\ SameButStatus(w.obj, Newest(cluster))
  BY <1>p, WorkerNow
<1>u. UNCHANGED <<cluster, client, tested, late, left>>
  BY DEF ListPools, EndPools, CallPool
<1>v. Versions'
  BY <1>p, <1>u, SameVersions
<1>a. queue' \in BOOLEAN => Around'
  BY <1>p, <1>u DEF Around, ClientKnows
<1>q. queue \in BOOLEAN
  BY <1>p DEF Around
<1>1. CASE ListPools
  <2>. DEFINE todo == [p \in Pools |-> Call(w.obj.spec, p)]
  <2>1. todo \in [Pools -> Calls]
    BY DEF Call, Calls
  <2>2. PICK b \in BOOLEAN : b = (todo # NoCalls)
    <3>1. (todo # NoCalls) \in BOOLEAN
      OBVIOUS
    <3>. QED
      BY <3>1, Zenon
  <2>3. w' = [w EXCEPT !.pc = "pools", !.todo = todo, !.changed = b]
    BY <1>1, <2>2 DEF ListPools
  <2>. HIDE DEF todo
  <2>4. w' \in Workers /\ w'.pc = "pools" /\ w'.obj = w.obj /\ w'.fresh = w.fresh
    BY <1>w, <2>1, <2>3 DEF Workers, Steps
  <2>5. Worker'
    BY <1>w, <1>u, <2>4, WorkerNext
  <2>6. PoolVersions' /\ queue' = queue
    BY <1>1, <1>p DEF ListPools, PoolVersions
  <2>. QED
    BY <1>v, <1>a, <1>q, <2>5, <2>6, InvPartsNext
<1>2. CASE EndPools
  <2>1. PoolVersions'
    BY <1>2, <1>p DEF EndPools, PoolVersions
  <2>2. CASE Retry
    BY <1>v, <1>a, <2>1, <2>2, Resting, InvPartsNext DEF Retry
  <2>3. CASE Goto("vendor", w.obj)
    <3>1. "vendor" \in Steps
      BY DEF Steps
    <3>2. w' \in Workers /\ w'.pc = "vendor" /\ w'.obj = w.obj /\ w'.fresh = w.fresh
          /\ queue' = queue
      BY <1>w, <2>3, <3>1, Moved
    <3>3. Worker'
      BY <1>w, <1>u, <3>2, WorkerNext
    <3>. QED
      BY <1>v, <1>a, <1>q, <2>1, <3>2, <3>3, InvPartsNext
  <2>. QED
    BY <1>2, <2>2, <2>3 DEF EndPools
<1>3. ASSUME NEW p \in Pools, CallPool(p) PROVE ClusterInv'
  <2>1. PICK b \in BOOLEAN : w' = [w EXCEPT !.todo[p] = "none", !.failed = b]
    <3>1. (w.failed \/ ~Accepted(p)) \in BOOLEAN
      OBVIOUS
    <3>2. PICK b \in BOOLEAN : b = (w.failed \/ ~Accepted(p))
      BY <3>1, Zenon
    <3>3. w' = [w EXCEPT !.todo[p] = "none", !.failed = b]
      BY <1>3, <1>w, <3>2 DEF CallPool, Workers
    <3>. QED
      BY <3>3
  <2>2. w' \in Workers /\ w'.pc = w.pc /\ w'.obj = w.obj /\ w'.fresh = w.fresh
    BY <1>w, <2>1 DEF Workers, Calls
  <2>3. w.pc = "pools" /\ queue' = queue
    BY <1>3 DEF CallPool
  <2>4. Worker'
    BY <1>w, <1>u, <2>2, <2>3, WorkerNext
  <2>5. PoolVersions'
    BY <1>3, <1>p, <1>w, EffectVersions DEF CallPool
  <2>. QED
    BY <1>v, <1>a, <1>q, <2>3, <2>4, <2>5, InvPartsNext
<1>. QED
  BY <1>1, <1>2, <1>3

\* The steps of Reconcile that write the status.
LEMMA StatusInv ==
    ASSUME ClusterInv, Phase \/ WriteStatus \/ Check \/ Refresh
    PROVE  ClusterInv'
<1>p. Versions /\ PoolVersions /\ Worker /\ Around
  BY InvParts
<1>w. /\ w \in Workers /\ w.obj \in ClusterObj /\ Tested(w.obj.hash, tested)
      /\ w.pc \in {"check", "refresh"} => w.obj.spec.vendor \in {None, w.obj.hash}
      /\ w.pc \in {"unreachable", "status"} => w.obj.phase = "Updating"
      /\ w.fresh => w.pc # "idle" /\ SameButStatus(w.obj, Newest(cluster))
  BY <1>p, WorkerNow
<1>u. UNCHANGED <<pool, client, tested, late, left>>
  BY DEF Phase, WriteStatus, Check, Refresh
<1>o. PoolVersions'
  BY <1>p, <1>u DEF PoolVersions
<1>a. queue' \in BOOLEAN => Around'
  BY <1>p, <1>u DEF Around, ClientKnows
<1>q. queue \in BOOLEAN
  BY <1>p DEF Around
<1>r. ASSUME Retry \/ Return, Versions' PROVE ClusterInv'
  BY <1>o, <1>a, <1>q, <1>r, Resting, InvPartsNext DEF Retry, Return
<1>s. UNCHANGED cluster => Versions'
  BY <1>p, <1>u, SameVersions
<1>x. ASSUME NEW o \in ClusterObj, o.hash = w.obj.hash, updateTFClusterStatus(o)
      PROVE  Versions'
  BY <1>p, <1>u, <1>w, <1>x, Updated
<1>1. CASE Phase
  <2>1. SetAsPending(w.obj) \in ClusterObj /\ SetAsPending(w.obj).hash = w.obj.hash
    BY <1>w, StatusChanges
  <2>. QED
    BY <1>1, <1>r, <1>x, <2>1 DEF Phase
<1>2. CASE WriteStatus
  BY <1>2, <1>w, <1>r, <1>x DEF WriteStatus
<1>3. CASE Check
  <2>1. CASE Goto("refresh", w.obj) /\ UNCHANGED cluster
    <3>1. "refresh" \in Steps /\ w.pc = "check"
      BY <1>3 DEF Steps, Check
    <3>2. w' \in Workers /\ w'.pc = "refresh" /\ w'.obj = w.obj /\ w'.fresh = w.fresh
          /\ queue' = queue
      BY <1>w, <2>1, <3>1, Moved
    <3>3. Worker'
      BY <1>w, <1>u, <2>1, <3>1, <3>2, WorkerNext
    <3>. QED
      BY <1>o, <1>a, <1>q, <1>s, <2>1, <3>2, <3>3, InvPartsNext
  <2>2. CASE updateTFClusterStatus(Retried(w.obj)) /\ Retry
    <3>1. Retried(w.obj) \in ClusterObj /\ Retried(w.obj).hash = w.obj.hash
      BY <1>w, StatusChanges
    <3>. QED
      BY <1>r, <1>x, <2>2, <3>1
  <2>. QED
    BY <1>3, <2>1, <2>2 DEF Check
<1>4. CASE Refresh
  <2>. DEFINE o == RefreshStatus(MadeReady(w.obj))
  <2>1. Retry \/ Return
    BY <1>4 DEF Refresh
  <2>2. UNCHANGED cluster \/ updateTFClusterStatus(o)
    BY <1>4 DEF Refresh
  <2>3. o \in ClusterObj /\ o.hash = w.obj.hash
    BY <1>w, Refreshes
  <2>. HIDE DEF o
  <2>. QED
    BY <1>r, <1>s, <1>x, <2>1, <2>2, <2>3
<1>. QED
  BY <1>1, <1>2, <1>3, <1>4

\* The test of the vendor: what is recorded as tested has been tested, by itself or by
\* the client of alibaba that is kept.
LEMMA VendorInv ==
    ASSUME ClusterInv, Vendor
    PROVE  ClusterInv'
<1>p. Versions /\ PoolVersions /\ Worker /\ Around
  BY InvParts
<1>w. /\ w \in Workers /\ w.obj \in ClusterObj /\ Tested(w.obj.hash, tested)
      /\ w.fresh => w.pc # "idle" /\ SameButStatus(w.obj, Newest(cluster))
  BY <1>p, WorkerNow
<1>. DEFINE v == w.obj.spec.vendor
<1>v. v \in Vendors \cup {None}
  BY <1>w DEF ClusterObj, SpecType
<1>u. UNCHANGED <<cluster, pool, late>>
  BY DEF Vendor
<1>o. PoolVersions'
  BY <1>p, <1>u DEF PoolVersions
<1>b. queue \in BOOLEAN /\ left \in Budget /\ client \in Vendors \cup {None}
      /\ tested \subseteq Vendors /\ late \in BOOLEAN
      /\ (client # None => TypeOf[client] = "alibaba")
  BY <1>p DEF Around, ClientKnows
<1>c. ASSUME v # None
      PROVE  /\ Client(v) \in Vendors /\ CachedClient(v) \in Vendors \cup {None}
             /\ CachedClient(v) # None => TypeOf[CachedClient(v)] = "alibaba"
             /\ Client(v) = v \/ (TypeOf[Client(v)] = "alibaba" /\ TypeOf[v] = "alibaba")
  BY <1>v, <1>b, <1>c DEF Client, CachedClient
<1>. HIDE DEF v
<1>a. ASSUME queue' \in BOOLEAN, left' \in Budget, tested' \subseteq Vendors,
             tested \subseteq tested', client' \in Vendors \cup {None},
             client' # None => TypeOf[client'] = "alibaba", Worker'
      PROVE  ClusterInv'
  <2>1. Versions'
    BY <1>p, <1>u, <1>a, SameVersions
  <2>2. Around'
    BY <1>b, <1>u, <1>a DEF Around, ClientKnows
  <2>. QED
    BY <1>o, <1>a, <2>1, <2>2, InvPartsNext
<1>g. ASSUME NEW pc \in {"status", "check", "refresh", "unreachable"}, NEW o \in ClusterObj,
             SameButStatus(o, w.obj), Tested(o.hash, tested'), Goto(pc, o),
             pc \in {"check", "refresh"} => o.spec.vendor \in {None, o.hash},
             pc \in {"unreachable", "status"} => o.phase = "Updating"
      PROVE  Worker' /\ queue' \in BOOLEAN
  <2>1. pc \in Steps
    BY DEF Steps
  <2>2. w' \in Workers /\ w'.pc = pc /\ w'.obj = o /\ w'.fresh = w.fresh /\ queue' = queue
    BY <1>w, <1>g, <2>1, Moved
  <2>3. w'.fresh => w'.pc # "idle" /\ SameButStatus(w'.obj, Newest(cluster'))
    BY <1>w, <1>u, <1>g, <2>2 DEF SameButStatus
  <2>. QED
    BY <1>b, <1>g, <2>2, <2>3, WorkerNext
<1>s. ASSUME NEW o \in ClusterObj
      PROVE  /\ SetAsUpdating(o) \in ClusterObj /\ SameButStatus(SetAsUpdating(o), o)
             /\ SetAsUpdating(o).hash = o.hash /\ SetAsUpdating(o).phase = "Updating"
  BY StatusChanges
<1>1. CASE (v = None \/ w.obj.hash = v) /\ Continue(w.obj, w.changed) /\ UNCHANGED <<client, tested, left>>
  <2>1. SameButStatus(w.obj, w.obj)
    BY DEF SameButStatus
  <2>2. Worker' /\ queue' \in BOOLEAN
    BY <1>1, <1>w, <1>g, <1>s, <2>1 DEF Continue, v
  <2>. QED
    BY <1>1, <1>a, <1>b, <2>2
<1>2. CASE /\ v # None /\ Continue([w.obj EXCEPT !.hash = v], TRUE)
           /\ client' = CachedClient(v) /\ tested' = tested \cup {Client(v)} /\ UNCHANGED left
  <2>. DEFINE o == [w.obj EXCEPT !.hash = v]
  <2>1. o \in ClusterObj
    BY <1>w, <1>v, <1>2, ClusterChanges
  <2>2. SameButStatus(o, w.obj) /\ o.hash = v
    BY <1>w DEF ClusterObj, SameButStatus
  <2>3. Goto("status", SetAsUpdating(o))
    BY <1>2 DEF Continue
  <2>. HIDE DEF o
  <2>4. Tested(v, tested')
    BY <1>c, <1>2 DEF Tested
  <2>5. SameButStatus(SetAsUpdating(o), w.obj) /\ Tested(SetAsUpdating(o).hash, tested')
    BY <1>s, <2>1, <2>2, <2>4 DEF SameButStatus
  <2>6. Worker' /\ queue' \in BOOLEAN
    BY <1>g, <1>s, <2>1, <2>3, <2>5
  <2>. QED
    BY <1>2, <1>a, <1>b, <1>c, <2>6
<1>3. CASE /\ v # None /\ (Spend("cloud") \/ UNCHANGED left)
           /\ \/ Retry /\ UNCHANGED <<client, tested>>
              \/ /\ Goto("unreachable", SetAsUpdating(w.obj))
                 /\ client' = CachedClient(v)
                 /\ tested' = tested \/ tested' = tested \cup {v}
  <2>1. left' \in Budget
    BY <1>3, <1>b, Spent
  <2>2. CASE Retry /\ UNCHANGED <<client, tested>>
    BY <1>a, <1>b, <2>1, <2>2, Resting DEF Retry
  <2>3. CASE ~(Retry /\ UNCHANGED <<client, tested>>)
    <3>1. /\ Goto("unreachable", SetAsUpdating(w.obj)) /\ client' = CachedClient(v)
          /\ tested \subseteq tested' /\ tested' \subseteq Vendors /\ v # None
      BY <1>3, <1>v, <1>b, <2>3
    <3>2. Tested(SetAsUpdating(w.obj).hash, tested')
      BY <1>w, <1>s, <3>1, TestedGrows
    <3>3. Worker' /\ queue' \in BOOLEAN
      BY <1>w, <1>g, <1>s, <3>1, <3>2
    <3>. QED
      BY <1>a, <1>b, <1>c, <2>1, <3>1, <3>3
  <2>. QED
    BY <2>2, <2>3
<1>4. CASE Retry /\ UNCHANGED <<client, tested, left>>
  BY <1>a, <1>b, <1>4, Resting DEF Retry
<1>. QED
  BY <1>1, <1>2, <1>3, <1>4 DEF Vendor, v

\* A failing call, or one whose answer is lost.
LEMMA AbortInv ==
    ASSUME ClusterInv, AbortStep
    PROVE  ClusterInv'
<1>p. Versions /\ PoolVersions /\ Worker /\ Around
  BY InvParts
<1>w. /\ w \in Workers /\ w.obj \in ClusterObj /\ Tested(w.obj.hash, tested)
      /\ w.fresh => w.pc # "idle" /\ SameButStatus(w.obj, Newest(cluster))
  BY <1>p, WorkerNow
<1>u. UNCHANGED <<client, tested, late>> /\ Abort
  BY DEF AbortStep
<1>l. left' \in Budget
  <2>1. left \in Budget
    BY <1>p DEF Around
  <2>2. \E f \in Faults : Spend(f)
    BY <1>u DEF Abort, Faults
  <2>. QED
    BY <2>1, <2>2, Spent
<1>a. queue' \in BOOLEAN => Around'
  BY <1>p, <1>u, <1>l DEF Around, ClientKnows
<1>1. CASE Retry /\ UNCHANGED <<cluster, pool>>
  <2>1. Versions' /\ PoolVersions'
    BY <1>1, <1>p, <1>u, SameVersions DEF PoolVersions
  <2>. QED
    BY <1>1, <1>a, <2>1, Resting, InvPartsNext DEF Retry
<1>2. CASE PutCluster(w.obj) /\ Retry /\ UNCHANGED pool
  <2>1. Versions'
    BY <1>2, <1>p, <1>u, <1>w, PutVersions
  <2>2. PoolVersions'
    BY <1>2, <1>p DEF PoolVersions
  <2>. QED
    BY <1>2, <1>a, <2>1, <2>2, Resting, InvPartsNext DEF Retry
<1>3. ASSUME NEW p \in Pools, w.pc = "pools", Effect(p) \/ UNCHANGED pool,
             w' = [w EXCEPT !.todo[p] = "none", !.failed = TRUE], UNCHANGED <<cluster, queue>>
      PROVE  ClusterInv'
  <2>1. Versions'
    BY <1>3, <1>p, <1>u, SameVersions
  <2>2. PoolVersions'
    BY <1>3, <1>p, <1>w, EffectVersions
  <2>3. w' \in Workers /\ w'.pc = w.pc /\ w'.obj = w.obj /\ w'.fresh = w.fresh
    BY <1>w, <1>3 DEF Workers, Calls
  <2>4. Worker'
    BY <1>w, <1>u, <1>3, <2>3, WorkerNext
  <2>5. queue' \in BOOLEAN
    BY <1>3, <1>p DEF Around
  <2>. QED
    BY <1>a, <2>1, <2>2, <2>4, <2>5, InvPartsNext
<1>. QED
  BY <1>u, <1>1, <1>2, <1>3 DEF Abort

\* The informers, users, the pool controller, the garbage collector and restarts.
LEMMA AroundInv ==
    ASSUME ClusterInv,
           \/ ClusterEvent \/ Crash \/ EditSpec \/ DeleteCluster
           \/ \E p \in Pools : \/ PoolEvent(p) \/ PoolPhase(p) \/ PoolGone(p)
                               \/ Meddle(p) \/ CollectPool(p)
    PROVE  ClusterInv'
<1>p. Versions /\ PoolVersions /\ Worker /\ Around
  BY InvParts
<1>w. /\ w \in Workers /\ w.obj \in ClusterObj /\ Tested(w.obj.hash, tested)
      /\ w.pc \in {"check", "refresh"} => w.obj.spec.vendor \in {None, w.obj.hash}
      /\ w.pc \in {"unreachable", "status"} => w.obj.phase = "Updating"
      /\ w.fresh => w.pc # "idle" /\ SameButStatus(w.obj, Newest(cluster))
  BY <1>p, WorkerNow
<1>b. /\ queue \in BOOLEAN /\ left \in Budget /\ client \in Vendors \cup {None}
      /\ tested \subseteq Vendors /\ late \in BOOLEAN
      /\ cluster \in Seq(ClusterObj) /\ cluster # <<>>
      /\ pool \in [Pools -> Seq(PoolObj)]
  BY <1>p DEF Around, Versions, PoolVersions
<1>e. Newest(cluster) \in ClusterObj /\ Tested(Newest(cluster).hash, tested)
  BY <1>p, ClusterEnds
<1>u. UNCHANGED <<tested, late>>
  BY DEF ClusterEvent, Crash, EditSpec, DeleteCluster, PoolEvent, PoolPhase, PoolGone, Meddle,
         CollectPool
<1>a. ASSUME queue' \in BOOLEAN, left' \in Budget, client' \in {client, None} PROVE Around'
  BY <1>p, <1>u, <1>a DEF Around, ClientKnows
<1>s. ASSUME UNCHANGED w, Newest(cluster') = Newest(cluster) PROVE Worker'
  BY <1>w, <1>u, <1>s, WorkerNext
<1>1. CASE ClusterEvent
  <2>1. cluster' = Tail(cluster) /\ Len(cluster) > 1
    BY <1>1 DEF ClusterEvent
  <2>2. /\ cluster' \in Seq(ClusterObj) /\ cluster' # <<>> /\ Newest(cluster') = Newest(cluster)
        /\ \A i \in DOMAIN cluster' : i + 1 \in DOMAIN cluster /\ cluster'[i] = cluster[i + 1]
    BY <1>b, <2>1, Dropped
  <2>3. HashesTested'
    BY <1>p, <1>u, <2>2 DEF Versions, HashesTested, HashTested, TestedAs
  <2>4. Versions'
    BY <2>2, <2>3 DEF Versions
  <2>5. queue' \in BOOLEAN
    BY <1>1, <1>b DEF ClusterEvent
  <2>6. PoolVersions'
    BY <1>1, <1>p DEF ClusterEvent, PoolVersions
  <2>. QED
    BY <1>1, <1>a, <1>b, <1>s, <2>2, <2>4, <2>5, <2>6, InvPartsNext DEF ClusterEvent
<1>2. CASE Crash
  <2>1. cluster' = <<Newest(cluster)>>
    BY <1>2 DEF Crash
  <2>2. /\ cluster' \in Seq(ClusterObj) /\ cluster' # <<>>
        /\ \A i \in DOMAIN cluster' : cluster'[i] = Newest(cluster)
    BY <1>e, <2>1, Listed
  <2>3. HashesTested'
    BY <1>e, <1>u, <2>2 DEF HashesTested, HashTested, TestedAs, Tested
  <2>4. Versions'
    BY <2>2, <2>3 DEF Versions
  <2>5. \A p \in Pools : <<Current(p)>> \in Seq(PoolObj) /\ <<Current(p)>> # <<>>
    BY <1>p, PoolEnds, Listed
  <2>6. PoolVersions'
    BY <1>2, <2>5 DEF Crash, PoolVersions
  <2>7. left' \in Budget
    BY <1>2, <1>b, Spent DEF Crash
  <2>. QED
    BY <1>2, <1>a, <2>4, <2>6, <2>7, Resting, InvPartsNext DEF Crash
<1>o. ASSUME OutdateCluster PROVE Worker'
  <2>1. /\ w' \in Workers /\ w'.pc = w.pc /\ w'.obj = w.obj /\ w'.fresh = FALSE
    BY <1>w, <1>o DEF OutdateCluster, Workers
  <2>. QED
    BY <1>w, <1>u, <2>1, WorkerNext
<1>3. CASE EditSpec
  <2>1. PICK s \in Specs : PutCluster([Newest(cluster) EXCEPT !.spec = s])
    BY <1>3 DEF EditSpec
  <2>. DEFINE c == [Newest(cluster) EXCEPT !.spec = s]
  <2>2. s \in SpecType
    BY SpecAssumption
  <2>3. c \in ClusterObj
    BY <1>e, <2>2, ClusterChanges
  <2>4. c.hash = Newest(cluster).hash
    BY <1>e DEF ClusterObj
  <2>5. PutCluster(c)
    BY <2>1
  <2>. HIDE DEF c
  <2>6. Versions'
    BY <1>p, <1>e, <1>u, <2>3, <2>4, <2>5, PutVersions
  <2>7. left' \in Budget
    <3>1. left.edits \in 0..MaxEdits /\ left.edits > 0
      BY <1>3, <1>b DEF Budget, EditSpec
    <3>2. left.edits - 1 \in 0..MaxEdits
      BY <3>1, BoundAssumption
    <3>. QED
      BY <1>3, <1>b, <3>2 DEF Budget, EditSpec
  <2>8. PoolVersions'
    BY <1>3, <1>p DEF EditSpec, PoolVersions
  <2>. QED
    BY <1>3, <1>a, <1>b, <1>o, <2>6, <2>7, <2>8, InvPartsNext DEF EditSpec
<1>4. CASE DeleteCluster
  <2>1. PICK s \in {"deleting", "gone"} : PutCluster([Newest(cluster) EXCEPT !.state = s])
    BY <1>4 DEF DeleteCluster
  <2>. DEFINE c == [Newest(cluster) EXCEPT !.state = s]
  <2>2. c \in ClusterObj
    BY <1>e, ClusterChanges
  <2>3. c.hash = Newest(cluster).hash
    BY <1>e DEF ClusterObj
  <2>4. PutCluster(c)
    BY <2>1
  <2>. HIDE DEF c
  <2>5. Versions'
    BY <1>p, <1>e, <1>u, <2>2, <2>3, <2>4, PutVersions
  <2>6. left' \in Budget
    BY <1>4, <1>b, Spent DEF DeleteCluster
  <2>7. PoolVersions'
    BY <1>4, <1>p DEF DeleteCluster, PoolVersions
  <2>. QED
    BY <1>4, <1>a, <1>b, <1>o, <2>5, <2>6, <2>7, InvPartsNext DEF DeleteCluster
<1>v. UNCHANGED cluster => Versions'
  BY <1>p, <1>u, SameVersions
<1>5. ASSUME NEW p \in Pools, PoolEvent(p) PROVE ClusterInv'
  <2>1. pool[p] \in Seq(PoolObj) /\ Len(pool[p]) > 1
    BY <1>5, <1>b DEF PoolEvent
  <2>2. Tail(pool[p]) \in Seq(PoolObj) /\ Tail(pool[p]) # <<>>
    BY <2>1, Dropped
  <2>3. PoolVersions'
    BY <1>5, <1>p, <2>2 DEF PoolEvent, PoolVersions
  <2>. QED
    BY <1>5, <1>a, <1>b, <1>s, <1>v, <2>3, InvPartsNext DEF PoolEvent
<1>6. ASSUME NEW p \in Pools, NEW o \in PoolObj, PutPool(p, o), OutdatePool(p),
             UNCHANGED <<cluster, client, queue>>, left' \in Budget
      PROVE  ClusterInv'
  <2>1. PoolVersions'
    BY <1>6, <1>p, PutPoolVersions
  <2>2. w' \in Workers /\ w'.pc = w.pc /\ w'.obj = w.obj /\ w'.fresh = w.fresh
    <3>1. (IF w.todo[p] = "update" THEN "stale" ELSE w.todo[p]) \in Calls
      BY <1>w DEF Workers, Calls
    <3>. QED
      BY <1>w, <1>6, <3>1 DEF OutdatePool, Workers
  <2>3. Worker'
    BY <1>w, <1>u, <1>6, <2>2, WorkerNext
  <2>. QED
    BY <1>6, <1>a, <1>b, <1>v, <2>1, <2>3, InvPartsNext
<1>c. \A p \in Pools : Current(p) \in PoolObj /\ Deleted(p) \subseteq PoolObj
  BY <1>p, PoolEnds, DeletedPools
<1>7. ASSUME NEW p \in Pools, PoolPhase(p) PROVE ClusterInv'
  <2>1. [Current(p) EXCEPT !.running = ~@] \in PoolObj
    BY <1>c, PoolChanges
  <2>2. left' \in Budget
    <3>1. left.flips \in 0..MaxFlips /\ left.flips > 0
      BY <1>7, <1>b DEF Budget, PoolPhase
    <3>2. left.flips - 1 \in 0..MaxFlips
      BY <3>1, BoundAssumption
    <3>. QED
      BY <1>7, <1>b, <3>2 DEF Budget, PoolPhase
  <2>. QED
    BY <1>6, <1>7, <2>1, <2>2 DEF PoolPhase
<1>8. ASSUME NEW p \in Pools, PoolGone(p) PROVE ClusterInv'
  <2>1. [Current(p) EXCEPT !.state = "gone"] \in PoolObj
    BY <1>c, PoolChanges
  <2>. QED
    BY <1>6, <1>8, <1>b, <2>1 DEF PoolGone
<1>9. ASSUME NEW p \in Pools, Meddle(p) PROVE ClusterInv'
  <2>1. \A t \in Templates : [Current(p) EXCEPT !.spec = t] \in PoolObj
    BY <1>c, PoolChanges
  <2>2. \E o \in PoolObj : PutPool(p, o)
    BY <1>9, <1>c, <2>1 DEF Meddle
  <2>3. left' \in Budget
    BY <1>9, <1>b, Spent DEF Meddle
  <2>. QED
    BY <1>6, <1>9, <2>2, <2>3 DEF Meddle
<1>10. ASSUME NEW p \in Pools, CollectPool(p) PROVE ClusterInv'
  BY <1>6, <1>10, <1>b, <1>c DEF CollectPool
<1>. QED
  BY <1>1, <1>2, <1>3, <1>4, <1>5, <1>7, <1>8, <1>9, <1>10

LEMMA InvInit == Init => ClusterInv
<1>. SUFFICES ASSUME Init PROVE ClusterInv
  OBVIOUS
<1>1. PICK s \in Specs : cluster = <<NewCluster(s)>>
  BY DEF Init
<1>2. NewCluster(s) \in ClusterObj /\ NewCluster(s).hash = None
  BY SpecAssumption, IdleWorker
<1>3. cluster \in Seq(ClusterObj) /\ cluster # <<>> /\ \A i \in DOMAIN cluster : cluster[i] = NewCluster(s)
  BY <1>1, <1>2, Listed
<1>4. Versions
  BY <1>2, <1>3 DEF Versions, HashesTested, HashTested
<1>5. NoPool \in PoolObj
  BY DEF NoPool, PoolObj
<1>6. <<NoPool>> \in Seq(PoolObj) /\ <<NoPool>> # <<>>
  BY <1>5, Listed
<1>7. PoolVersions
  BY <1>6 DEF Init, PoolVersions
<1>8. Worker
  BY IdleWorker DEF Init, Worker, WorkerTested, HashTested, FreshKnows
<1>9. left \in Budget
  BY FaultAssumption, BoundAssumption DEF Init, Budget
<1>10. Around
  BY <1>9 DEF Init, Around, ClientKnows
<1>. QED
  BY <1>4, <1>7, <1>8, <1>10, InvParts

\* ClusterInv is inductive.
LEMMA InvStep == ClusterInv /\ [Next]_vars => ClusterInv'
<1>. SUFFICES ASSUME ClusterInv, [Next]_vars PROVE ClusterInv'
  OBVIOUS
<1>1. CASE UNCHANGED vars
  <2>p. Versions /\ PoolVersions /\ Worker /\ Around
    BY InvParts
  <2>u. UNCHANGED <<cluster, pool, client, queue, w, tested, late, left>>
    BY <1>1 DEF vars
  <2>1. Versions'
    BY <2>p, <2>u, SameVersions
  <2>2. PoolVersions' /\ Around'
    BY <2>p, <2>u DEF PoolVersions, Around, ClientKnows
  <2>3. Worker'
    BY <2>p, <2>u, WorkerNow, WorkerNext
  <2>. QED
    BY <2>1, <2>2, <2>3, InvPartsNext
<1>. QED
  BY <1>1, StartInv, PoolsInv, StatusInv, VendorInv, AbortInv, AroundInv DEF Next, WorkerStep

--------------------------------------------------------------------------------
(* What the theorems say of a step *)

\* Only a user changes the specification: the status is written whole, from a copy
\* that was read at the start of Reconcile, and never brings back an old specification.
OnlyUsersEdit == [][Newest(cluster').spec # Newest(cluster).spec => EditSpec]_vars

\* How a step changes what the API server holds of the cluster.
LEMMA ClusterWrites ==
    ASSUME ClusterInv, Next
    PROVE  /\ Newest(cluster').spec # Newest(cluster).spec => EditSpec
           /\ Newest(cluster').phase = "Running" /\ Newest(cluster).phase # "Running"
                => \/ Newest(cluster').spec.vendor = None
                   \/ TestedAs(Newest(cluster').spec.vendor)
<1>p. Versions /\ PoolVersions /\ Worker /\ Around
  BY InvParts
<1>w. /\ w \in Workers /\ w.obj \in ClusterObj /\ Tested(w.obj.hash, tested)
      /\ w.pc \in {"check", "refresh"} => w.obj.spec.vendor \in {None, w.obj.hash}
      /\ w.pc \in {"unreachable", "status"} => w.obj.phase = "Updating"
      /\ w.fresh => w.pc # "idle" /\ SameButStatus(w.obj, Newest(cluster))
  BY <1>p, WorkerNow
<1>e. /\ Newest(cluster) \in ClusterObj /\ Head(cluster) \in ClusterObj
      /\ Len(cluster) = 1 => Head(cluster) = Newest(cluster)
      /\ cluster \in Seq(ClusterObj) /\ cluster # <<>>
  BY <1>p, ClusterEnds DEF Versions
<1>. DEFINE Kept == Newest(cluster').spec = Newest(cluster).spec
            Fine == Newest(cluster').phase = "Running" /\ Newest(cluster).phase # "Running"
                      => \/ Newest(cluster').spec.vendor = None
                         \/ TestedAs(Newest(cluster').spec.vendor)
<1>n. ASSUME NEW o \in ClusterObj, PutCluster(o) PROVE Newest(cluster') = o
  BY <1>e, <1>n, PushedNewest DEF PutCluster
<1>s. Newest(cluster') = Newest(cluster) => Kept /\ Fine
  OBVIOUS
<1>u. UNCHANGED cluster => Kept /\ Fine
  OBVIOUS
<1>x. ASSUME NEW o \in ClusterObj, updateTFClusterStatus(o), SameButStatus(o, w.obj),
             o.phase # "Running" \/ w.pc = "refresh"
      PROVE  Kept /\ Fine
  <2>1. CASE UNCHANGED cluster
    BY <1>u, <2>1
  <2>2. CASE w.fresh /\ PutCluster(o)
    <3>1. Newest(cluster') = o
      BY <1>x, <1>n, <2>2
    <3>2. o.spec = w.obj.spec /\ w.obj.spec = Newest(cluster).spec
      BY <1>w, <1>x, <2>2 DEF SameButStatus
    <3>3. Kept
      BY <3>1, <3>2
    <3>4. w.pc = "refresh" => w.obj.spec.vendor = None \/ TestedAs(w.obj.spec.vendor)
      BY <1>w DEF Tested, TestedAs
    <3>5. Fine
      BY <1>x, <3>1, <3>2, <3>4
    <3>. QED
      BY <3>3, <3>5
  <2>. QED
    BY <1>x, <2>1, <2>2 DEF updateTFClusterStatus
<1>1. CASE Start
  <2>. DEFINE o == Head(cluster)
              f == [o EXCEPT !.fin = TRUE]
              g == [o EXCEPT !.fin = FALSE, !.state = "gone"]
  <2>1. f \in ClusterObj /\ g \in ClusterObj
    BY <1>e, ClusterChanges
  <2>2. f.spec = o.spec /\ f.phase = o.phase /\ g.spec = o.spec /\ g.phase = o.phase
    BY <1>e DEF ClusterObj
  <2>3. UNCHANGED cluster \/ (Len(cluster) = 1 /\ (PutCluster(f) \/ PutCluster(g)))
    BY <1>1 DEF Start
  <2>. HIDE DEF f, g
  <2>4. CASE Len(cluster) = 1 /\ PutCluster(f)
    <3>1. Newest(cluster') = f
      BY <1>n, <2>1, <2>4
    <3>. QED
      BY <1>e, <2>2, <2>4, <3>1
  <2>5. CASE Len(cluster) = 1 /\ PutCluster(g)
    <3>1. Newest(cluster') = g
      BY <1>n, <2>1, <2>5
    <3>. QED
      BY <1>e, <2>2, <2>5, <3>1
  <2>. QED
    BY <1>u, <2>3, <2>4, <2>5
<1>2. CASE Phase \/ WriteStatus \/ Check \/ Refresh
  <2>1. /\ SetAsPending(w.obj) \in ClusterObj /\ SameButStatus(SetAsPending(w.obj), w.obj)
        /\ Retried(w.obj) \in ClusterObj /\ SameButStatus(Retried(w.obj), w.obj)
        /\ SetAsPending(w.obj).phase = "Pending" /\ Retried(w.obj).phase = "Updating"
        /\ SameButStatus(w.obj, w.obj)
    BY <1>w, StatusChanges DEF SameButStatus
  <2>2. /\ RefreshStatus(MadeReady(w.obj)) \in ClusterObj
        /\ SameButStatus(RefreshStatus(MadeReady(w.obj)), w.obj)
    BY <1>w, Refreshes
  <2>3. CASE Phase
    BY <1>x, <2>1, <2>3 DEF Phase
  <2>4. CASE WriteStatus
    BY <1>w, <1>x, <2>1, <2>4 DEF WriteStatus
  <2>5. CASE Check
    BY <1>u, <1>x, <2>1, <2>5 DEF Check
  <2>6. CASE Refresh
    BY <1>u, <1>x, <2>2, <2>6 DEF Refresh
  <2>. QED
    BY <1>2, <2>3, <2>4, <2>5, <2>6
<1>3. CASE ListPools \/ EndPools \/ Vendor \/ \E p \in Pools : CallPool(p)
  BY <1>3, <1>u DEF ListPools, EndPools, Vendor, CallPool
<1>4. CASE ClusterEvent
  <2>1. Newest(cluster') = Newest(cluster)
    BY <1>4, <1>e, Dropped DEF ClusterEvent
  <2>. QED
    BY <1>s, <2>1
<1>5. CASE AbortStep
  <2>1. UNCHANGED cluster \/ (w.pc = "status" /\ w.fresh /\ PutCluster(w.obj))
    BY <1>5 DEF AbortStep, Abort
  <2>2. CASE w.pc = "status" /\ w.fresh /\ PutCluster(w.obj)
    <3>1. updateTFClusterStatus(w.obj) /\ w.obj.phase = "Updating" /\ SameButStatus(w.obj, w.obj)
      BY <1>w, <2>2 DEF updateTFClusterStatus, SameButStatus
    <3>. QED
      BY <1>w, <1>x, <3>1
  <2>. QED
    BY <1>u, <2>1, <2>2
<1>6. CASE Crash
  <2>1. Newest(cluster') = Newest(cluster)
    BY <1>6, <1>e, Listed DEF Crash
  <2>. QED
    BY <1>s, <2>1
<1>7. CASE EditSpec
  <2>1. PICK s \in Specs : PutCluster([Newest(cluster) EXCEPT !.spec = s])
    BY <1>7 DEF EditSpec
  <2>. DEFINE c == [Newest(cluster) EXCEPT !.spec = s]
  <2>2. s \in SpecType
    BY SpecAssumption
  <2>3. c \in ClusterObj /\ c.phase = Newest(cluster).phase
    BY <1>e, <2>2, ClusterChanges
  <2>4. PutCluster(c)
    BY <2>1
  <2>. HIDE DEF c
  <2>5. Newest(cluster') = c
    BY <1>n, <2>3, <2>4
  <2>6. Fine
    BY <2>3, <2>5
  <2>. QED
    BY <1>7, <2>6
<1>8. CASE DeleteCluster
  <2>1. PICK s \in {"deleting", "gone"} : PutCluster([Newest(cluster) EXCEPT !.state = s])
    BY <1>8 DEF DeleteCluster
  <2>. DEFINE c == [Newest(cluster) EXCEPT !.state = s]
  <2>2. c \in ClusterObj /\ c.phase = Newest(cluster).phase
    BY <1>e, ClusterChanges
  <2>3. c.spec = Newest(cluster).spec
    BY <1>e DEF ClusterObj
  <2>4. PutCluster(c)
    BY <2>1
  <2>. HIDE DEF c
  <2>5. Newest(cluster') = c
    BY <1>n, <2>2, <2>4
  <2>6. Kept /\ Fine
    BY <2>2, <2>3, <2>5
  <2>. QED
    BY <2>6
<1>9. CASE \E p \in Pools : PoolEvent(p) \/ PoolPhase(p) \/ PoolGone(p) \/ Meddle(p) \/ CollectPool(p)
  BY <1>9, <1>u DEF PoolEvent, PoolPhase, PoolGone, Meddle, CollectPool
<1>. QED
  BY <1>1, <1>2, <1>3, <1>4, <1>5, <1>6, <1>7, <1>8, <1>9 DEF Next, WorkerStep

\* The cluster, its pools, the worker and the kept client keep their types.
THEOREM ClusterTypes == Spec => []TypeOK
<1>1. ClusterInv => TypeOK
  BY DEF ClusterInv
<1>. QED
  BY <1>1, InvInit, InvStep, PTL DEF Spec

\* For any vendors and specifications, however often they are edited while Reconcile
\* runs: a cluster becomes Running only with a vendor that has been tested, or whose
\* type is alibaba and another one of that type has been.
THEOREM VendorTestedFirst == Spec => TestedBeforeReady
<1>. DEFINE A == LET o == Newest(cluster)
                     n == Newest(cluster') IN
                 n.phase = "Running" /\ o.phase # "Running"
                   => n.spec.vendor = None \/ TestedAs(n.spec.vendor)
<1>1. ClusterInv /\ [Next]_vars => [A]_vars
  BY ClusterWrites
<1>2. TestedBeforeReady <=> [][A]_vars
  BY DEF TestedBeforeReady
<1>. QED
  BY <1>1, <1>2, InvInit, InvStep, PTL DEF Spec

\* A reconcile that works on an old copy of the cluster never undoes an edit of its
\* specification.
THEOREM EditsSurvive == Spec => OnlyUsersEdit
<1>. DEFINE A == Newest(cluster').spec # Newest(cluster).spec => EditSpec
<1>1. ClusterInv /\ [Next]_vars => [A]_vars
  BY ClusterWrites
<1>2. OnlyUsersEdit <=> [][A]_vars
  BY DEF OnlyUsersEdit
<1>. QED
  BY <1>1, <1>2, InvInit, InvStep, PTL DEF Spec
=================================================================================
