------------------------- MODULE AllocationLedger_proofs -------------------------
(***************************************************************************)
(* Proofs that GPUAllocation, as long as nothing fails, implements         *)
(* AllocationLedger and keeps its books, for any connections, GPUs,        *)
(* requests, capacities and lengths of the informers' queues.              *)
(***************************************************************************)
EXTENDS GPUAllocation_proofs, FiniteSetTheorems, WellFoundedInduction

--------------------------------------------------------------------------------
(* What the invariant says at the points where the worker uses it *)

LEMMA LedgerParts ==
    ASSUME LedgerInv
    PROVE  /\ Kinds = {} /\ pool /\ TypeOK /\ FinalizerNeeded /\ WorkerKnows
           /\ HandCalm /\ WorkCalm /\ w \in Worker
           /\ \A g \in GPUs : GPUChain(g) /\ CopiesAgree(g)
           /\ \A g \in GPUs : AtWork => ReadyLast(g)
           /\ w.pc # "idle" => w.c \in Conns
           /\ w.gpu \in GPUs \cup {None} /\ w.obj \in ConnObj /\ w.val \in GPUObj
           /\ \A c \in Conns : ConnCalm(c) /\ PodCalm(c) /\ conn[c] \in ConnObj
           /\ \A g \in GPUs : /\ gpu[g] \in GPUObj /\ sched[g] \in GPUObj
                              /\ gpuStore[g] \in GPUObj
                              /\ gpuWatch[g] \in Seq(GPUObj) /\ gpuNotif[g] \in Seq(GPUObj)
<1>1. TypeOK /\ FinalizerNeeded /\ WorkerKnows /\ HandCalm /\ WorkCalm /\ pool /\ Kinds = {}
  BY DEF LedgerInv, DeletionInv
<1>2. /\ \A g \in GPUs : GPUChain(g) /\ CopiesAgree(g)
      /\ \A g \in GPUs : AtWork => ReadyLast(g)
      /\ \A c \in Conns : ConnCalm(c) /\ PodCalm(c)
  BY DEF LedgerInv, GPUCalm
<1>3. w.pc # "idle" => w.c \in Conns
  BY <1>1 DEF WorkerKnows
<1>4. /\ w \in Worker /\ w.gpu \in GPUs \cup {None} /\ w.obj \in ConnObj /\ w.val \in GPUObj
      /\ \A c \in Conns : conn[c] \in ConnObj
  BY <1>1 DEF TypeOK, Worker
<1>5. \A g \in GPUs : /\ gpu[g] \in GPUObj /\ sched[g] \in GPUObj
                      /\ gpuStore[g] \in GPUObj
                      /\ gpuWatch[g] \in Seq(GPUObj) /\ gpuNotif[g] \in Seq(GPUObj)
  BY <1>1 DEF TypeOK
<1>. QED
  BY <1>1, <1>2, <1>3, <1>4, <1>5

\* While the worker has a GPU, every copy of it except the API server's is its own.
LEMMA HandFacts ==
    ASSUME LedgerInv, AtWork, w.gpu # None
    PROVE  /\ w.gpu \in GPUs /\ w.gpu = w.obj.gpu
           /\ IsReady(gpu[w.gpu]) /\ IsReady(w.val) /\ sched[w.gpu] = w.val
           /\ gpuStore[w.gpu] = w.val
           /\ gpuNotif[w.gpu] = <<>> /\ gpuWatch[w.gpu] = <<>>
<1>1. /\ w.gpu \in GPUs /\ w.gpu = w.obj.gpu
      /\ IsReady(gpu[w.gpu]) /\ IsReady(w.val) /\ sched[w.gpu] = w.val
  BY LedgerParts DEF HandCalm
<1>2. gpuNotif[w.gpu] = <<>> /\ gpuWatch[w.gpu] = <<>>
  BY <1>1, LedgerParts DEF ReadyLast
<1>3. gpuStore[w.gpu] = w.val
  BY <1>1, <1>2, LedgerParts DEF GPUChain
<1>. QED
  BY <1>1, <1>2, <1>3

\* Until it has one, the scheduler's copy of a GPU with a status is the current one.
LEMMA KnownFacts ==
    ASSUME LedgerInv, AtWork, w.gpu = None, NEW g \in GPUs, IsReady(sched[g])
    PROVE  /\ gpuNotif[g] = <<>> /\ gpuWatch[g] = <<>>
           /\ sched[g] = gpu[g] /\ gpuStore[g] = gpu[g]
<1>1. gpuNotif[g] = <<>> /\ gpuWatch[g] = <<>>
  BY LedgerParts DEF ReadyLast
<1>2. ~InHand(g)
  BY NoneAssumption DEF InHand
<1>. QED
  BY <1>1, <1>2, LedgerParts DEF GPUChain, CopiesAgree

\* The connection whose deletion the worker handles is the current one.
LEMMA DeletingFacts ==
    ASSUME LedgerInv, w.pc # "idle", w.obj.state = "deleting"
    PROVE  w.fresh /\ w.obj = conn[w.c] /\ conn[w.c].state = "deleting"
  BY LedgerParts DEF WorkerKnows, WorkCalm

\* The connection that the worker has put the finalizer on is still there.
LEMMA ThereFacts ==
    ASSUME LedgerInv, w.pc \notin {"idle", "addFinalizer"}
    PROVE  conn[w.c].state \in {"live", "deleting"}
<1>1. w.c \in Conns /\ w.obj.state \in {"live", "deleting"}
  BY LedgerParts DEF WorkerKnows
<1>2. CASE w.obj.state = "live"
  BY <1>1, <1>2, LedgerParts DEF WorkerKnows, FinalizerNeeded
<1>. QED
  BY <1>1, <1>2, DeletingFacts

--------------------------------------------------------------------------------
(* What a step has to leave alone *)

\* Steps that touch no GPU and hand none over keep the copies of the GPUs in order.
LEMMA GPUFrame ==
    ASSUME LedgerInv, UNCHANGED <<gpuVars, cacheVars>>, AtWork' => AtWork,
           NEW g \in GPUs, InHand(g) => InHand(g)'
    PROVE  GPUCalm(g)'
<1>1. GPUCalm(g)
  BY DEF LedgerInv
<1>2. /\ gpu' = gpu /\ gpuWatch' = gpuWatch /\ gpuStore' = gpuStore
      /\ gpuNotif' = gpuNotif /\ sched' = sched
  BY DEF gpuVars, cacheVars
<1>3. GPUChain(g)'
  BY <1>1, <1>2 DEF GPUCalm, GPUChain
<1>4. CopiesAgree(g)'
  BY <1>1, <1>2 DEF GPUCalm, CopiesAgree
<1>5. ReadyLast(g) => ReadyLast(g)'
  BY <1>2 DEF ReadyLast
<1>6. AllReady(g) => AllReady(g)'
  BY <1>2 DEF AllReady
<1>. QED
  BY <1>1, <1>3, <1>4, <1>5, <1>6 DEF GPUCalm

\* A connection stays in order when its binding does.
LEMMA ConnFrame ==
    ASSUME LedgerInv, NEW c \in Conns,
           conn'[c].gpu = conn[c].gpu, conn'[c].phase = conn[c].phase,
           \A g \in GPUs : IsReady(sched[g]) => IsReady(sched'[g])
    PROVE  ConnCalm(c)'
<1>1. ConnCalm(c) /\ conn[c].gpu \in GPUs \cup {None}
  BY LedgerParts DEF ConnObj
<1>. QED
  BY <1>1 DEF ConnCalm

\* So does its pod.
LEMMA PodFrame ==
    ASSUME LedgerInv, NEW c \in Conns,
           pod'[c].phase # "none" => pod[c].phase # "none" /\ pod'[c].gpu = pod[c].gpu,
           conn'[c].gpu = conn[c].gpu, conn[c].state = "gone" => conn'[c].state = "gone",
           w.pc = "updateConn" => /\ w'.pc = w.pc /\ w'.c = w.c
                                  /\ w'.obj = w.obj /\ w'.gpu = w.gpu
    PROVE  PodCalm(c)'
<1>1. PodCalm(c)
  BY LedgerParts
<1>. QED
  BY <1>1 DEF PodCalm

\* A worker that has returned holds nothing.
LEMMA IdleFacts ==
    ASSUME w' = IdleWorker
    PROVE  HandCalm' /\ WorkCalm' /\ ~AtWork' /\ \A g \in GPUs : ~InHand(g)'
<1>1. w'.pc = "idle"
  BY DEF IdleWorker
<1>. QED
  BY <1>1 DEF HandCalm, WorkCalm, AtWork, InHand

\* No fault happens, so the caches have caught up whenever a reconcile starts.
LEMMA NoFaults ==
    ASSUME LedgerInv
    PROVE  /\ ~Abort /\ ~Crash /\ ~PoolChange
           /\ \A c \in Conns : ~LosePod(c) /\ (Start(c) => Drained)
           /\ \A g \in GPUs : ~LoseGPU(g) /\ (DiscoverPatch(g) => gpu[g].state = "bare")
<1>1. \A f : ~Spend(f)
  BY LedgerParts DEF Spend
<1>. QED
  BY <1>1, LedgerParts
  DEF Abort, Crash, PoolChange, LosePod, Start, LoseGPU, DiscoverPatch

--------------------------------------------------------------------------------
(* The steps of the worker *)

LEMMA StartLedger ==
    ASSUME LedgerInv, DeletionInv', NEW c \in Conns, Start(c)
    PROVE  LedgerInv'
<1>. DEFINE o == connCache[c]
<1>1. /\ w.pc = "idle" /\ Drained
      /\ \/ w' = IdleWorker
         \/ /\ o.state \notin {"none", "gone"}
            /\ w' = [IdleWorker EXCEPT !.pc = FirstStep(o), !.c = c, !.obj = o,
                                       !.fresh = (connWatch[c] = <<>>)]
      /\ UNCHANGED <<connVars, gpuVars, cacheVars, podVars, pool>>
  BY NoFaults DEF Start
<1>2. o = conn[c] /\ connWatch[c] = <<>> /\ podCache[c] = pod[c]
  BY <1>1 DEF LedgerInv, DeletionInv, ChainEnds, Drained
<1>3. \A g \in GPUs : ~InHand(g)
  BY <1>1 DEF InHand, AtWork
<1>4. \/ w'.pc = "idle" /\ w'.gpu = None
      \/ /\ w'.pc = FirstStep(o) /\ w'.c = c /\ w'.obj = o /\ w'.fresh
         /\ w'.gpu = None /\ o.state \notin {"none", "gone"}
  <2>1. CASE w' = IdleWorker
    BY <2>1 DEF IdleWorker
  <2>2. CASE o.state \notin {"none", "gone"} /\ w' # IdleWorker
    BY <1>1, <1>2, <2>2 DEF IdleWorker
  <2>. QED
    BY <1>1, <2>1, <2>2
<1>5. \A g \in GPUs : ~InHand(g)'
  BY <1>4, NoneAssumption DEF InHand
<1>6. ASSUME NEW g \in GPUs PROVE GPUCalm(g)'
  <2>1. /\ gpu' = gpu /\ gpuWatch' = gpuWatch /\ gpuStore' = gpuStore
        /\ gpuNotif' = gpuNotif /\ sched' = sched
    BY <1>1 DEF gpuVars, cacheVars
  <2>2. GPUChain(g) /\ CopiesAgree(g) /\ ~InHand(g) /\ ~InHand(g)'
    BY <1>3, <1>5, LedgerParts
  <2>3. GPUChain(g)' /\ CopiesAgree(g)'
    BY <2>1, <2>2 DEF GPUChain, CopiesAgree
  <2>4. gpuWatch'[g] = <<>> /\ gpuNotif'[g] = <<>> /\ Len(<<>>) = 0
    BY <1>1, <2>1 DEF Drained
  <2>5. ReadyLast(g)'
    BY <2>4 DEF ReadyLast
  <2>. QED
    BY <2>3, <2>5 DEF GPUCalm
<1>7. HandCalm'
  BY <1>4 DEF HandCalm, AtWork
<1>8. WorkCalm'
  <2>1. CASE w'.pc = "idle"
    BY <2>1 DEF WorkCalm, AtWork
  <2>2. CASE /\ w'.pc = FirstStep(o) /\ w'.c = c /\ w'.obj = o /\ w'.fresh
             /\ w'.gpu = None /\ o.state \notin {"none", "gone"}
    <3>1. o.gpu = None <=> o.phase \in {"", "Pending"}
      BY <1>2, LedgerParts DEF ConnCalm
    <3>2. FirstStep(o) \in {"release", "addFinalizer", "schedule", "getGPU"}
      BY DEF FirstStep, AfterFinalizer
    <3>3. FirstStep(o) = "schedule" => o.phase \in {"", "Pending"}
      BY DEF FirstStep, AfterFinalizer
    <3>4. conn' = conn /\ podCache' = podCache /\ pod' = pod
      BY <1>1 DEF connVars, podVars
    <3>. QED
      BY <1>2, <2>2, <3>1, <3>2, <3>3, <3>4 DEF WorkCalm
  <2>. QED
    BY <1>4, <2>1, <2>2
<1>9. ASSUME NEW d \in Conns PROVE ConnCalm(d)' /\ PodCalm(d)'
  <2>1. conn' = conn /\ pod' = pod /\ sched' = sched
    BY <1>1 DEF connVars, podVars, cacheVars
  <2>. QED
    BY <1>1, <2>1, ConnFrame, PodFrame
<1>. QED
  BY <1>1, <1>6, <1>7, <1>8, <1>9, LedgerParts DEF LedgerInv

LEMMA AddFinalizerLedger ==
    ASSUME LedgerInv, DeletionInv', AddFinalizer
    PROVE  LedgerInv'
<1>1. /\ w.pc = "addFinalizer" /\ w.c \in Conns /\ w.gpu = None /\ AtWork
      /\ UNCHANGED <<gpuVars, cacheVars, podVars, pool>>
  BY LedgerParts DEF AddFinalizer, WorkCalm, AtWork
<1>2. conn' = conn => conn'[w.c] = conn[w.c]
  OBVIOUS
<1>3. \A g \in GPUs : ~InHand(g)
  BY <1>1, NoneAssumption DEF InHand
<1>4. CASE Requeue /\ UNCHANGED connVars
  <2>1. w' = IdleWorker /\ conn' = conn /\ pod' = pod /\ sched' = sched
    BY <1>1, <1>4 DEF Requeue, connVars, podVars, cacheVars
  <2>2. \A g \in GPUs : GPUCalm(g)'
    BY <1>1, <1>3, <2>1, IdleFacts, GPUFrame
  <2>3. \A d \in Conns : ConnCalm(d)' /\ PodCalm(d)'
    BY <1>1, <2>1, ConnFrame, PodFrame
  <2>. QED
    BY <1>1, <2>1, <2>2, <2>3, IdleFacts, LedgerParts DEF LedgerInv
<1>5. CASE w.fresh
  <2>. DEFINE o == [w.obj EXCEPT !.fin = TRUE]
  <2>1. PutConn(w.c, o) /\ w' = [w EXCEPT !.obj = o, !.pc = AfterFinalizer(o)]
    BY <1>5 DEF AddFinalizer
  <2>2. w.obj = conn[w.c] /\ w.obj.state = "live" /\ w.obj \in ConnObj
    BY <1>1, <1>5, LedgerParts DEF WorkerKnows
  <2>3. o.gpu = conn[w.c].gpu /\ o.phase = conn[w.c].phase /\ o.state = "live"
    BY <2>2 DEF ConnObj
  <2>4. AfterFinalizer(o) \in {"schedule", "getGPU"}
        /\ (AfterFinalizer(o) = "schedule" => o.phase \in {"", "Pending"})
    BY DEF AfterFinalizer
  <2>. HIDE DEF o
  <2>5. w'.obj = o /\ w'.pc = AfterFinalizer(o) /\ w'.c = w.c /\ w'.gpu = None
    BY <1>1, <2>1, LedgerParts DEF Worker
  <2>6. \A d \in Conns : /\ conn'[d].gpu = conn[d].gpu /\ conn'[d].phase = conn[d].phase
                         /\ conn[d].state = "gone" => conn'[d].state = "gone"
    BY <1>1, <2>1, <2>2, <2>3, LedgerParts DEF PutConn, TypeOK
  <2>7. pod' = pod /\ sched' = sched /\ podCache' = podCache
    BY <1>1 DEF podVars, cacheVars
  <2>8. \A d \in Conns : ConnCalm(d)' /\ PodCalm(d)'
    BY <1>1, <2>6, <2>7, ConnFrame, PodFrame
  <2>9. \A g \in GPUs : GPUCalm(g)'
    <3>1. AtWork' => AtWork
      BY <1>1
    <3>. QED
      BY <1>1, <1>3, <3>1, GPUFrame
  <2>10. HandCalm'
    BY <2>5 DEF HandCalm
  <2>11. WorkCalm'
    <3>1. o.gpu = None <=> o.phase \in {"", "Pending"}
      BY <1>1, <2>3, LedgerParts DEF ConnCalm
    <3>2. conn'[w.c].gpu = o.gpu
      BY <1>1, <2>3, <2>6
    <3>3. podCache'[w.c].phase = "none" => pod'[w.c].phase = "none"
      BY <1>1, <2>7, LedgerParts DEF WorkCalm
    <3>. QED
      BY <1>1, <2>3, <2>4, <2>5, <3>1, <3>2, <3>3 DEF WorkCalm
  <2>. QED
    BY <1>1, <2>8, <2>9, <2>10, <2>11, LedgerParts DEF LedgerInv
<1>. QED
  BY <1>4, <1>5 DEF AddFinalizer

\* Schedule takes the share in memory, where nobody else has a copy of the GPU.
LEMMA SchedulePickLedger ==
    ASSUME LedgerInv, DeletionInv', NEW g \in GPUs, SchedulePick(g)
    PROVE  LedgerInv'
<1>. DEFINE f == Minus(sched[g].free, Req[w.c])
<1>1. /\ w.pc = "schedule" /\ w.c \in Conns /\ w.gpu = None /\ AtWork
      /\ w.obj.state = "live" /\ w.obj.gpu = None /\ conn[w.c].gpu = None
      /\ IsReady(sched[g]) /\ Fits(sched[g].free, Req[w.c]) /\ SetAvailable(g, f)
      /\ w' = [w EXCEPT !.pc = "startWorker", !.obj.phase = "Starting",
                        !.obj.gpu = g, !.gpu = g, !.val = Ready(f)]
      /\ UNCHANGED <<connVars, gpuVars, podVars, pool>>
  BY LedgerParts DEF SchedulePick, WorkCalm, WorkerKnows, AtWork, IsReady
<1>2. /\ gpuNotif[g] = <<>> /\ gpuWatch[g] = <<>>
      /\ sched[g] = gpu[g] /\ gpuStore[g] = gpu[g]
  BY <1>1, KnownFacts
<1>3. /\ w'.pc = "startWorker" /\ w'.c = w.c /\ w'.gpu = g /\ w'.val = Ready(f)
      /\ w'.obj.gpu = g /\ w'.obj.phase = "Starting" /\ w'.obj.state = "live"
  BY <1>1, LedgerParts DEF Worker, ConnObj
<1>4. /\ Ready(f).state = "ready" /\ Ready(f).free = f
      /\ [gpu[g] EXCEPT !.free = f] = Ready(f)
  BY <1>1, <1>2, LedgerParts DEF Ready, IsReady, GPUObj
<1>. HIDE DEF f
<1>5. /\ sched'[g] = Ready(f) /\ gpuStore'[g] = Ready(f) /\ gpuNotif' = gpuNotif
      /\ \A h \in GPUs \ {g} : sched'[h] = sched[h] /\ gpuStore'[h] = gpuStore[h]
  BY <1>1, <1>2, <1>4, LedgerParts DEF SetAvailable, TypeOK
<1>6. gpu' = gpu /\ gpuWatch' = gpuWatch /\ conn' = conn /\ pod' = pod /\ podCache' = podCache
  BY <1>1 DEF gpuVars, connVars, podVars
<1>7. GPUCalm(g)'
  <2>1. InHand(g)' /\ Len(<<>>) = 0
    BY <1>3 DEF InHand, AtWork
  <2>. QED
    BY <1>2, <1>5, <1>6, <2>1 DEF GPUCalm, GPUChain, CopiesAgree, ReadyLast
<1>8. ASSUME NEW h \in GPUs \ {g} PROVE GPUCalm(h)'
  <2>1. GPUChain(h) /\ CopiesAgree(h) /\ ReadyLast(h) /\ ~InHand(h) /\ ~InHand(h)'
    BY <1>1, <1>3, LedgerParts, NoneAssumption DEF InHand
  <2>. QED
    BY <1>5, <1>6, <2>1 DEF GPUCalm, GPUChain, CopiesAgree, ReadyLast
<1>9. HandCalm'
  <2>1. Fits(gpu'[g].free, Req[w.c]) /\ f = Minus(gpu'[g].free, Req[w.c])
    BY <1>1, <1>2, <1>6 DEF f
  <2>2. IsReady(gpu'[g]) /\ IsReady(w'.val) /\ sched'[g] = w'.val /\ w'.val.free = f
    BY <1>1, <1>2, <1>3, <1>4, <1>5, <1>6 DEF IsReady
  <2>3. conn'[w.c].gpu = None
    BY <1>1, <1>6
  <2>. QED
    BY <1>3, <2>1, <2>2, <2>3 DEF HandCalm
<1>10. WorkCalm'
  <2>1. g # None
    BY NoneAssumption
  <2>2. podCache'[w.c].phase = "none" => pod'[w.c].phase = "none"
    BY <1>1, <1>6, LedgerParts DEF WorkCalm
  <2>. QED
    BY <1>3, <2>1, <2>2 DEF WorkCalm
<1>11. \A d \in Conns : ConnCalm(d)' /\ PodCalm(d)'
  <2>1. \A h \in GPUs : IsReady(sched[h]) => IsReady(sched'[h])
    BY <1>4, <1>5 DEF IsReady
  <2>. QED
    BY <1>1, <1>6, <2>1, ConnFrame, PodFrame
<1>. QED
  BY <1>1, <1>7, <1>8, <1>9, <1>10, <1>11, LedgerParts DEF LedgerInv

LEMMA ScheduleNoneLedger ==
    ASSUME LedgerInv, DeletionInv', ScheduleNone \/ SchedulePanic
    PROVE  LedgerInv'
<1>1. /\ w.pc = "schedule" /\ w.c \in Conns /\ w.gpu = None /\ AtWork
      /\ w.obj.state = "live" /\ w.obj.gpu = None /\ conn[w.c].gpu = None
      /\ UNCHANGED <<connVars, gpuVars, cacheVars, podVars, pool>>
  BY LedgerParts DEF ScheduleNone, SchedulePanic, WorkCalm, WorkerKnows, AtWork
<1>2. conn' = conn /\ pod' = pod /\ sched' = sched /\ podCache' = podCache
  BY <1>1 DEF connVars, podVars, cacheVars
<1>3. \A g \in GPUs : GPUCalm(g)'
  <2>1. \A g \in GPUs : ~InHand(g)
    BY <1>1, NoneAssumption DEF InHand
  <2>2. AtWork' => AtWork
    BY <1>1
  <2>. QED
    BY <1>1, <2>1, <2>2, GPUFrame
<1>4. \A d \in Conns : ConnCalm(d)' /\ PodCalm(d)'
  BY <1>1, <1>2, ConnFrame, PodFrame
<1>5. HandCalm' /\ WorkCalm'
  <2>1. CASE ScheduleNone
    <3>1. w' = [w EXCEPT !.pc = "getGPU", !.obj.phase = "Pending"]
      BY <2>1 DEF ScheduleNone
    <3>2. /\ w'.pc = "getGPU" /\ w'.c = w.c /\ w'.gpu = None
          /\ w'.obj.gpu = None /\ w'.obj.phase = "Pending" /\ w'.obj.state = "live"
      BY <1>1, <3>1, LedgerParts DEF Worker, ConnObj
    <3>3. podCache'[w.c].phase = "none" => pod'[w.c].phase = "none"
      BY <1>1, <1>2, LedgerParts DEF WorkCalm
    <3>. QED
      BY <1>1, <1>2, <3>2, <3>3 DEF HandCalm, WorkCalm
  <2>2. CASE SchedulePanic
    BY <2>2, IdleFacts DEF SchedulePanic, Requeue
  <2>. QED
    BY <2>1, <2>2
<1>. QED
  BY <1>1, <1>3, <1>4, <1>5, LedgerParts DEF LedgerInv

LEMMA GetGPULedger ==
    ASSUME LedgerInv, DeletionInv', GetGPU
    PROVE  LedgerInv'
<1>1. /\ w.pc = "getGPU" /\ w.c \in Conns /\ w.gpu = None /\ AtWork
      /\ w.obj.state = "live" /\ w.obj.gpu = conn[w.c].gpu
      /\ w.obj.gpu = None <=> w.obj.phase \in {"", "Pending"}
      /\ podCache[w.c].phase = "none" => pod[w.c].phase = "none"
      /\ UNCHANGED <<connVars, gpuVars, cacheVars, podVars, pool>>
  BY LedgerParts DEF GetGPU, WorkCalm, WorkerKnows, AtWork
<1>2. /\ conn' = conn /\ pod' = pod /\ sched' = sched /\ podCache' = podCache
      /\ gpu' = gpu
  BY <1>1 DEF connVars, podVars, cacheVars, gpuVars
<1>3. \A g \in GPUs : GPUCalm(g)'
  <2>1. \A g \in GPUs : ~InHand(g)
    BY <1>1, NoneAssumption DEF InHand
  <2>2. AtWork' => AtWork
    BY <1>1
  <2>. QED
    BY <1>1, <2>1, <2>2, GPUFrame
<1>4. \A d \in Conns : ConnCalm(d)' /\ PodCalm(d)'
  BY <1>1, <1>2, ConnFrame, PodFrame
<1>5. w.obj.gpu # None => /\ w.obj.gpu \in GPUs /\ InStore(w.obj.gpu)
                          /\ IsReady(gpu[w.obj.gpu])
                          /\ gpuStore[w.obj.gpu] = gpu[w.obj.gpu]
                          /\ sched[w.obj.gpu] = gpu[w.obj.gpu]
  <2>. SUFFICES ASSUME w.obj.gpu # None
                PROVE  /\ w.obj.gpu \in GPUs /\ InStore(w.obj.gpu)
                       /\ IsReady(gpu[w.obj.gpu])
                       /\ gpuStore[w.obj.gpu] = gpu[w.obj.gpu]
                       /\ sched[w.obj.gpu] = gpu[w.obj.gpu]
    OBVIOUS
  <2>1. w.obj.gpu \in GPUs /\ IsReady(sched[w.obj.gpu])
    BY <1>1, LedgerParts DEF ConnCalm, ConnObj
  <2>2. gpuStore[w.obj.gpu] = gpu[w.obj.gpu] /\ sched[w.obj.gpu] = gpu[w.obj.gpu]
    BY <1>1, <2>1, KnownFacts
  <2>. QED
    BY <2>1, <2>2 DEF InStore, IsReady
<1>6. CASE w.obj.gpu # None
  <2>1. w' = [w EXCEPT !.gpu = w.obj.gpu, !.val = gpuStore[w.obj.gpu], !.pc = "startWorker"]
    BY <1>1, <1>5, <1>6 DEF GetGPU
  <2>2. /\ w'.pc = "startWorker" /\ w'.c = w.c /\ w'.gpu = w.obj.gpu
        /\ w'.obj = w.obj /\ w'.val = gpu[w.obj.gpu]
    BY <1>5, <1>6, <2>1, LedgerParts DEF Worker
  <2>3. HandCalm'
    BY <1>1, <1>2, <1>5, <1>6, <2>2 DEF HandCalm
  <2>4. WorkCalm'
    BY <1>1, <1>2, <1>6, <2>2 DEF WorkCalm
  <2>. QED
    BY <1>1, <1>3, <1>4, <2>3, <2>4, LedgerParts DEF LedgerInv
<1>7. CASE w.obj.gpu = None
  <2>1. w' = [w EXCEPT !.pc = "updateConn"]
    BY <1>7 DEF GetGPU, InStore, Goto
  <2>2. w'.pc = "updateConn" /\ w'.c = w.c /\ w'.gpu = None /\ w'.obj = w.obj
    BY <1>1, <2>1, LedgerParts DEF Worker
  <2>3. HandCalm'
    BY <2>2 DEF HandCalm
  <2>4. WorkCalm'
    BY <1>1, <1>2, <1>7, <2>2 DEF WorkCalm
  <2>. QED
    BY <1>1, <1>3, <1>4, <2>3, <2>4, LedgerParts DEF LedgerInv
<1>. QED
  BY <1>6, <1>7

\* The pod in the cache is the one there is, so tryStartWorker does not fail.
LEMMA StartWorkerFacts ==
    ASSUME LedgerInv, StartWorker
    PROVE  /\ w.pc = "startWorker" /\ w.c \in Conns /\ w.gpu # None /\ AtWork
           /\ w.obj.state = "live" /\ w.obj.gpu = w.gpu
           /\ w'.pc = "updateConn" /\ w'.c = w.c /\ w'.gpu = w.gpu /\ w'.val = w.val
           /\ w'.obj.state = "live" /\ w'.obj.gpu = w.gpu
           /\ w'.obj.phase \notin {"", "Pending"}
           /\ \/ pod' = pod
              \/ pod' = [pod EXCEPT ![w.c] = [phase |-> "Pending", gpu |-> w.gpu]]
           /\ UNCHANGED <<connVars, gpuVars, cacheVars, podCache, pool>>
<1>1. /\ w.pc = "startWorker" /\ w.c \in Conns /\ w.gpu # None /\ AtWork
      /\ w.obj.state = "live"
      /\ podCache[w.c].phase = "none" => pod[w.c].phase = "none"
      /\ w.obj.gpu = None <=> w.obj.phase \in {"", "Pending"}
      /\ pool
      /\ UNCHANGED <<connVars, gpuVars, cacheVars, podCache, pool>>
  BY LedgerParts DEF StartWorker, WorkCalm, WorkerKnows, AtWork
<1>2. w.obj.gpu = w.gpu
  BY <1>1, HandFacts
<1>. DEFINE ph == IF podCache[w.c].phase = "Running" THEN "Running" ELSE w.obj.phase
<1>3. CASE w' = [w EXCEPT !.pc = "updateConn", !.obj.phase = ph] /\ UNCHANGED pod
  <2>1. ph \notin {"", "Pending"}
    BY <1>1, <1>2
  <2>. HIDE DEF ph
  <2>2. /\ w'.pc = "updateConn" /\ w'.c = w.c /\ w'.gpu = w.gpu /\ w'.val = w.val
        /\ w'.obj.state = w.obj.state /\ w'.obj.gpu = w.obj.gpu /\ w'.obj.phase = ph
    BY <1>3, LedgerParts DEF Worker, ConnObj
  <2>. QED
    BY <1>1, <1>2, <1>3, <2>1, <2>2
<1>4. CASE /\ pod' = [pod EXCEPT ![w.c] = [phase |-> "Pending", gpu |-> w.gpu]]
           /\ Goto("updateConn")
  <2>1. /\ w'.pc = "updateConn" /\ w'.c = w.c /\ w'.gpu = w.gpu /\ w'.val = w.val
        /\ w'.obj = w.obj
    BY <1>4, LedgerParts DEF Goto, Worker
  <2>. QED
    BY <1>1, <1>2, <1>4, <2>1
<1>. QED
  BY <1>1, <1>3, <1>4 DEF StartWorker

LEMMA StartWorkerLedger ==
    ASSUME LedgerInv, DeletionInv', StartWorker
    PROVE  LedgerInv'
<1>. USE StartWorkerFacts
<1>1. conn' = conn /\ sched' = sched /\ gpu' = gpu /\ pool' = pool
  BY DEF connVars, cacheVars, gpuVars
<1>2. \A g \in GPUs : GPUCalm(g)'
  <2>1. \A g \in GPUs : InHand(g) => InHand(g)'
    BY DEF InHand, AtWork
  <2>. QED
    BY <2>1, GPUFrame
<1>3. HandCalm'
  <2>1. /\ HandCalm /\ AtWork
    BY LedgerParts
  <2>2. /\ w.gpu = w.obj.gpu /\ IsReady(gpu[w.gpu]) /\ IsReady(w.val)
        /\ sched[w.gpu] = w.val
        /\ \/ /\ Fits(gpu[w.gpu].free, Req[w.c])
              /\ w.val.free = Minus(gpu[w.gpu].free, Req[w.c])
              /\ conn[w.c].gpu = None
           \/ w.val = gpu[w.gpu] /\ conn[w.c].gpu = w.gpu
    BY <2>1 DEF HandCalm
  <2>. QED
    BY <1>1, <2>2 DEF HandCalm
<1>4. WorkCalm'
  BY DEF WorkCalm
<1>5. ASSUME NEW d \in Conns PROVE ConnCalm(d)' /\ PodCalm(d)'
  <2>1. ConnCalm(d)'
    BY <1>1, ConnFrame
  <2>2. CASE pod' = pod \/ d # w.c
    <3>1. pod'[d] = pod[d]
      BY <2>2, LedgerParts DEF TypeOK
    <3>. QED
      BY <1>1, <2>1, <3>1, PodFrame
  <2>3. CASE pod' = [pod EXCEPT ![w.c] = [phase |-> "Pending", gpu |-> w.gpu]] /\ d = w.c
    <3>1. pod'[d].gpu = w.gpu
      BY <2>3, LedgerParts DEF TypeOK
    <3>. QED
      BY <2>1, <2>3, <3>1 DEF PodCalm
  <2>. QED
    BY <2>2, <2>3
<1>. QED
  BY <1>1, <1>2, <1>3, <1>4, <1>5, LedgerParts DEF LedgerInv

\* The status writer finds the connection and, in handleDeletion, changes nothing.
LEMMA UpdateConnFacts ==
    ASSUME LedgerInv, UpdateConn
    PROVE  /\ w.pc = "updateConn" /\ w.c \in Conns /\ AtWork /\ connWatch[w.c] = <<>>
           /\ \A d \in Conns \ {w.c} : conn'[d] = conn[d]
           /\ conn'[w.c].gpu = w.obj.gpu /\ conn'[w.c].phase = w.obj.phase
           /\ conn[w.c].state \in {"live", "deleting"}
           /\ w.obj.state = "deleting" => conn' = conn
           /\ IF w.gpu = None
              THEN w' = IdleWorker /\ w.obj.state = "live" /\ w.obj.gpu = None
                   /\ conn[w.c].gpu = None
              ELSE /\ w'.pc = "updateGPU" /\ w'.c = w.c /\ w'.gpu = w.gpu /\ w'.val = w.val
                   /\ w'.obj = w.obj /\ (w.obj.state = "deleting" => w'.fresh)
                   /\ w.obj.gpu = w.gpu
           /\ UNCHANGED <<gpuVars, cacheVars, podVars, pool>>
<1>. DEFINE o == [conn[w.c] EXCEPT !.phase = w.obj.phase, !.gpu = w.obj.gpu]
            b == w.fresh /\ o = conn[w.c]
<1>1. w.pc = "updateConn" /\ w.c \in Conns /\ AtWork
  BY LedgerParts DEF UpdateConn, AtWork
<1>2. conn[w.c].state \in {"live", "deleting"}
  BY <1>1, ThereFacts
<1>3. /\ connWatch[w.c] = <<>> /\ PutConn(w.c, o)
      /\ IF w.gpu = None THEN AfterUpdate(b)
         ELSE w' = [w EXCEPT !.pc = "updateGPU", !.fresh = b]
      /\ UNCHANGED <<gpuVars, cacheVars, podVars, pool>>
  BY <1>2 DEF UpdateConn
<1>4. o.gpu = w.obj.gpu /\ o.phase = w.obj.phase
  BY <1>1, LedgerParts DEF ConnObj
<1>5. w.obj.state = "deleting" => o = conn[w.c] /\ b
  BY <1>1, DeletingFacts, LedgerParts DEF ConnObj
<1>. HIDE DEF o
<1>6. conn'[w.c] = o /\ \A d \in Conns \ {w.c} : conn'[d] = conn[d]
  BY <1>1, <1>3, LedgerParts DEF PutConn, TypeOK
<1>7. w.obj.state = "deleting" => conn' = conn
  BY <1>1, <1>3, <1>5, LedgerParts DEF PutConn, TypeOK
<1>. HIDE DEF b
<1>8. CASE w.gpu = None
  <2>1. w.obj.state = "live"
    BY <1>1, <1>8, LedgerParts DEF WorkCalm, WorkerKnows
  <2>2. w.obj.gpu = None /\ conn[w.c].gpu = None
    BY <1>1, <1>8, <2>1, LedgerParts DEF WorkCalm
  <2>3. w' = IdleWorker
    BY <1>3, <1>8, <2>1 DEF AfterUpdate, Requeue, Return
  <2>. QED
    BY <1>1, <1>2, <1>3, <1>4, <1>6, <1>7, <1>8, <2>1, <2>2, <2>3
<1>9. CASE w.gpu # None
  <2>1. w.obj.gpu = w.gpu
    BY <1>1, <1>9, HandFacts
  <2>2. /\ w'.pc = "updateGPU" /\ w'.c = w.c /\ w'.gpu = w.gpu /\ w'.val = w.val
        /\ w'.obj = w.obj /\ w'.fresh = b
    BY <1>3, <1>9, LedgerParts DEF Worker
  <2>. QED
    BY <1>1, <1>2, <1>3, <1>4, <1>5, <1>6, <1>7, <1>9, <2>1, <2>2
<1>. QED
  BY <1>8, <1>9

LEMMA UpdateConnLedger ==
    ASSUME LedgerInv, DeletionInv', UpdateConn
    PROVE  LedgerInv'
<1>. USE UpdateConnFacts
<1>1. /\ sched' = sched /\ gpu' = gpu /\ pool' = pool /\ pod' = pod /\ podCache' = podCache
  BY DEF podVars, cacheVars, gpuVars
<1>2. \A g \in GPUs : GPUCalm(g)'
  <2>1. \A g \in GPUs : InHand(g) => InHand(g)'
    BY NoneAssumption DEF InHand, AtWork
  <2>. QED
    BY <2>1, GPUFrame
<1>3. w.gpu # None => w.gpu \in GPUs /\ IsReady(sched[w.gpu])
  BY HandFacts
<1>b. w.obj.state = "live" => (w.obj.gpu = None <=> w.obj.phase \in {"", "Pending"})
  BY LedgerParts DEF WorkCalm
<1>4. ASSUME NEW d \in Conns PROVE ConnCalm(d)'
  <2>1. CASE d # w.c \/ w.obj.state = "deleting"
    BY <1>1, <2>1, ConnFrame
  <2>2. CASE d = w.c /\ w.obj.state = "live"
    BY <1>1, <1>3, <1>b, <2>2 DEF ConnCalm
  <2>. QED
    BY <2>1, <2>2, LedgerParts DEF WorkerKnows
<1>5. ASSUME NEW d \in Conns PROVE PodCalm(d)'
  <2>1. CASE d # w.c
    <3>1. PodCalm(d) /\ conn'[d] = conn[d]
      BY <2>1, LedgerParts
    <3>. QED
      BY <1>1, <2>1, <3>1 DEF PodCalm
  <2>2. CASE d = w.c
    <3>. SUFFICES ASSUME pod[d].phase # "none"
                  PROVE  conn'[d].gpu # None /\ conn'[d].gpu = pod[d].gpu
      BY <1>1 DEF PodCalm
    <3>1. PodCalm(d) /\ conn[d].state # "gone"
      BY <2>2, LedgerParts
    <3>2. CASE w.obj.state = "live" /\ w.gpu # None /\ w.gpu = pod[d].gpu
      BY <2>2, <3>2
    <3>3. CASE conn[d].gpu # None /\ conn[d].gpu = pod[d].gpu
      <4>1. w.gpu # None
        BY <2>2, <3>3
      <4>2. w.obj.state = "deleting" => conn'[d].gpu = conn[d].gpu
        BY <2>2
      <4>3. w.obj.state = "live" => conn[d].gpu = w.gpu
        BY <2>2, <3>3, <4>1, LedgerParts DEF HandCalm
      <4>. QED
        BY <2>2, <3>3, <4>1, <4>2, <4>3, LedgerParts DEF WorkerKnows
    <3>. QED
      BY <3>1, <3>2, <3>3 DEF PodCalm
  <2>. QED
    BY <2>1, <2>2
<1>6. CASE w.gpu = None
  BY <1>1, <1>2, <1>4, <1>5, <1>6, IdleFacts, LedgerParts DEF LedgerInv
<1>7. CASE w.gpu # None
  <2>1. /\ w.gpu = w.obj.gpu /\ IsReady(gpu[w.gpu]) /\ IsReady(w.val)
        /\ sched[w.gpu] = w.val
        /\ \/ /\ w.obj.state = "deleting"
              /\ w.val.free = Plus(gpu[w.gpu].free, Req[w.c])
           \/ /\ w.obj.state = "live" /\ Fits(gpu[w.gpu].free, Req[w.c])
              /\ w.val.free = Minus(gpu[w.gpu].free, Req[w.c])
           \/ w.obj.state = "live" /\ w.val = gpu[w.gpu]
    BY <1>7, LedgerParts DEF HandCalm
  <2>2. HandCalm'
    BY <1>1, <1>7, <2>1 DEF HandCalm
  <2>3. WorkCalm'
    BY <1>1, <1>b, <1>7 DEF WorkCalm
  <2>. QED
    BY <1>1, <1>2, <1>4, <1>5, <2>2, <2>3, LedgerParts DEF LedgerInv
<1>. QED
  BY <1>6, <1>7

\* The write of the GPU succeeds: nobody else has changed it.
LEMMA UpdateGPUFacts ==
    ASSUME LedgerInv, UpdateGPU
    PROVE  /\ w.pc = "updateGPU" /\ w.c \in Conns /\ AtWork /\ w.gpu # None /\ w.gpu \in GPUs
           /\ PutGPU(w.gpu, w.val) /\ ~AtWork'
           /\ w.obj.state = "live" => w' = IdleWorker
           /\ w.obj.state = "deleting" => /\ w'.pc = "dropFinalizer" /\ w'.c = w.c
                                          /\ w'.obj = w.obj /\ w'.fresh
           /\ UNCHANGED <<connVars, cacheVars, podVars, pool>>
<1>1. w.pc = "updateGPU" /\ w.c \in Conns /\ AtWork /\ w.gpu # None
  BY LedgerParts DEF UpdateGPU, AtWork, WorkCalm
<1>2. /\ w.gpu \in GPUs /\ IsReady(gpu[w.gpu]) /\ IsReady(w.val) /\ gpuStore[w.gpu] = w.val
      /\ gpuWatch[w.gpu] = <<>>
  BY <1>1, HandFacts
<1>3. InStore(w.gpu) /\ "bare" \notin {w.val.state, gpu[w.gpu].state}
      /\ gpu[w.gpu].state # "absent"
  BY <1>1, <1>2 DEF InStore, IsReady
<1>4. PutGPU(w.gpu, w.val) /\ AfterUpdate(w.fresh)
      /\ UNCHANGED <<connVars, cacheVars, podVars, pool>>
  BY <1>2, <1>3 DEF UpdateGPU
<1>5. CASE w.obj.state = "live"
  <2>1. w' = IdleWorker
    BY <1>4, <1>5 DEF AfterUpdate, Requeue, Return
  <2>. QED
    BY <1>1, <1>2, <1>4, <1>5, <2>1, IdleFacts
<1>6. CASE w.obj.state = "deleting"
  <2>1. w' = [w EXCEPT !.pc = "dropFinalizer", !.fresh = w.fresh]
    BY <1>4, <1>6 DEF AfterUpdate
  <2>2. w.fresh
    BY <1>1, <1>6, DeletingFacts
  <2>3. w'.pc = "dropFinalizer" /\ w'.c = w.c /\ w'.obj = w.obj /\ w'.fresh
    BY <2>1, <2>2, LedgerParts DEF Worker
  <2>. QED
    BY <1>1, <1>2, <1>4, <1>6, <2>3 DEF AtWork
<1>. QED
  BY <1>1, <1>5, <1>6, LedgerParts DEF WorkerKnows

LEMMA UpdateGPULedger ==
    ASSUME LedgerInv, DeletionInv', UpdateGPU
    PROVE  LedgerInv'
<1>. USE UpdateGPUFacts
<1>1. /\ sched' = sched /\ gpuStore' = gpuStore /\ gpuNotif' = gpuNotif
      /\ conn' = conn /\ pod' = pod /\ podCache' = podCache /\ pool' = pool
  BY DEF podVars, cacheVars, connVars
<1>g. PICK g \in GPUs : g = w.gpu
  OBVIOUS
<1>2. GPUCalm(g)'
  <2>1. /\ IsReady(w.val) /\ gpuStore[g] = w.val /\ sched[g] = w.val
        /\ gpuNotif[g] = <<>> /\ gpuWatch[g] = <<>>
    BY <1>g, HandFacts
  <2>2. gpu'[g] = w.val
        /\ (gpuWatch'[g] = <<w.val>> \/ (gpuWatch'[g] = <<>>))
    BY <1>g, <2>1, LedgerParts DEF PutGPU, TypeOK
  <2>3. Len(<<w.val>>) = 1 /\ <<w.val>>[1] = w.val /\ Len(<<>>) = 0 /\ <<w.val>> # <<>>
    OBVIOUS
  <2>4. GPUChain(g)'
    BY <1>1, <2>1, <2>2, <2>3 DEF GPUChain
  <2>5. CopiesAgree(g)'
    BY <1>1, <2>1, <2>2, <2>3 DEF CopiesAgree
  <2>6. AllReady(g)'
    BY <1>1, <2>1, <2>2, <2>3 DEF AllReady
  <2>. QED
    BY <2>4, <2>5, <2>6 DEF GPUCalm
<1>3. ASSUME NEW h \in GPUs \ {g} PROVE GPUCalm(h)'
  <2>1. GPUChain(h) /\ CopiesAgree(h) /\ ReadyLast(h) /\ ~InHand(h) /\ ~InHand(h)'
    BY <1>g, LedgerParts DEF InHand
  <2>2. gpu'[h] = gpu[h] /\ gpuWatch'[h] = gpuWatch[h]
    BY <1>g, LedgerParts DEF PutGPU, TypeOK
  <2>. QED
    BY <1>1, <2>1, <2>2 DEF GPUCalm, GPUChain, CopiesAgree, ReadyLast
<1>4. HandCalm' /\ WorkCalm'
  <2>1. CASE w.obj.state = "live"
    BY <2>1, IdleFacts
  <2>2. CASE w.obj.state = "deleting"
    BY <2>2 DEF HandCalm, WorkCalm
  <2>. QED
    BY <2>1, <2>2, LedgerParts DEF WorkerKnows
<1>5. \A d \in Conns : ConnCalm(d)' /\ PodCalm(d)'
  BY <1>1, ConnFrame, PodFrame
<1>. QED
  BY <1>1, <1>g, <1>2, <1>3, <1>4, <1>5, LedgerParts DEF LedgerInv

\* Release finds the GPU that the connection holds, or the connection holds none.
LEMMA ReleaseFacts ==
    ASSUME LedgerInv, Release
    PROVE  /\ w.pc = "release" /\ w.c \in Conns /\ AtWork /\ w.gpu = None /\ w.obj.state = "deleting"
           /\ w.fresh /\ w.obj = conn[w.c]
           /\ w'.c = w.c /\ w'.obj = w.obj /\ w'.fresh
           /\ \/ /\ w.obj.gpu = None /\ w'.pc = "dropFinalizer" /\ UNCHANGED cacheVars
              \/ /\ w.obj.gpu # None /\ w.obj.gpu \in GPUs /\ IsReady(sched[w.obj.gpu])
                 /\ LET f == Plus(sched[w.obj.gpu].free, Req[w.c])
                    IN  /\ SetAvailable(w.obj.gpu, f)
                        /\ w'.pc = "updateConn" /\ w'.gpu = w.obj.gpu /\ w'.val = Ready(f)
           /\ UNCHANGED <<connVars, gpuVars, podVars, pool>>
<1>1. /\ w.pc = "release" /\ w.c \in Conns /\ AtWork /\ w.gpu = None
      /\ w.obj.state = "deleting"
      /\ UNCHANGED <<connVars, gpuVars, podVars, pool>>
  BY LedgerParts DEF Release, AtWork, WorkCalm, WorkerKnows
<1>2. w.fresh /\ w.obj = conn[w.c]
  BY <1>1, DeletingFacts
<1>3. CASE w.obj.gpu = None
  <2>1. w' = [w EXCEPT !.pc = "dropFinalizer", !.freed = w.obj.gpu] /\ UNCHANGED cacheVars
    BY <1>3 DEF Release, InStore
  <2>2. w'.c = w.c /\ w'.obj = w.obj /\ w'.fresh = w.fresh /\ w'.pc = "dropFinalizer"
    BY <2>1, LedgerParts DEF Worker
  <2>. QED
    BY <1>1, <1>2, <1>3, <2>1, <2>2
<1>4. CASE w.obj.gpu # None
  <2>1. w.obj.gpu \in GPUs /\ IsReady(sched[w.obj.gpu])
    BY <1>1, <1>2, <1>4, LedgerParts DEF ConnCalm, ConnObj
  <2>2. InStore(w.obj.gpu)
    BY <1>1, <1>4, <2>1, KnownFacts DEF InStore, IsReady
  <2>. DEFINE f == Plus(sched[w.obj.gpu].free, Req[w.c])
  <2>3. /\ SetAvailable(w.obj.gpu, f)
        /\ w' = [w EXCEPT !.pc = "updateConn", !.gpu = w.obj.gpu, !.val = Ready(f),
                          !.freed = w.obj.gpu]
    BY <2>1, <2>2 DEF Release, IsReady
  <2>. HIDE DEF f
  <2>4. /\ w'.c = w.c /\ w'.obj = w.obj /\ w'.fresh = w.fresh /\ w'.pc = "updateConn"
        /\ w'.gpu = w.obj.gpu /\ w'.val = Ready(f)
    BY <2>3, LedgerParts DEF Worker
  <2>. QED
    BY <1>1, <1>2, <1>4, <2>1, <2>3, <2>4 DEF f
<1>. QED
  BY <1>3, <1>4

LEMMA ReleaseLedger ==
    ASSUME LedgerInv, DeletionInv', Release
    PROVE  LedgerInv'
<1>. USE ReleaseFacts
<1>1. /\ gpu' = gpu /\ gpuWatch' = gpuWatch /\ conn' = conn /\ pod' = pod
      /\ podCache' = podCache /\ pool' = pool
  BY DEF podVars, gpuVars, connVars
<1>2. CASE w.obj.gpu = None /\ w'.pc = "dropFinalizer" /\ UNCHANGED cacheVars
  <2>1. ~AtWork' /\ \A g \in GPUs : ~InHand(g)
    BY <1>2, NoneAssumption DEF AtWork, InHand
  <2>2. \A g \in GPUs : GPUCalm(g)'
    BY <2>1, <1>2, GPUFrame
  <2>3. HandCalm' /\ WorkCalm'
    BY <1>2, <2>1 DEF HandCalm, WorkCalm
  <2>4. \A d \in Conns : ConnCalm(d)' /\ PodCalm(d)'
    BY <1>1, <1>2, ConnFrame, PodFrame DEF cacheVars
  <2>. QED
    BY <1>1, <2>2, <2>3, <2>4, LedgerParts DEF LedgerInv
<1>3. CASE w.obj.gpu # None /\ w'.pc = "updateConn"
  <2>g. PICK g \in GPUs : g = w.obj.gpu
    BY <1>3
  <2>. DEFINE f == Plus(sched[g].free, Req[w.c])
  <2>1. /\ g # None /\ g \in GPUs /\ IsReady(sched[g]) /\ SetAvailable(g, f)
        /\ w'.gpu = g /\ w'.val = Ready(f)
    BY <1>3, <2>g
  <2>2. /\ gpuNotif[g] = <<>> /\ gpuWatch[g] = <<>>
        /\ sched[g] = gpu[g] /\ gpuStore[g] = gpu[g]
    BY <2>1, KnownFacts
  <2>3. /\ Ready(f).state = "ready" /\ Ready(f).free = f
        /\ [gpu[g] EXCEPT !.free = f] = Ready(f)
    BY <2>1, <2>2, LedgerParts DEF Ready, IsReady, GPUObj
  <2>4. f = Plus(gpu[g].free, Req[w.c])
    BY <2>2
  <2>. HIDE DEF f
  <2>5. /\ sched'[g] = Ready(f) /\ gpuStore'[g] = Ready(f) /\ gpuNotif' = gpuNotif
        /\ \A h \in GPUs \ {g} : sched'[h] = sched[h] /\ gpuStore'[h] = gpuStore[h]
    BY <2>1, <2>2, <2>3, LedgerParts DEF SetAvailable, TypeOK
  <2>6. GPUCalm(g)'
    <3>1. InHand(g)' /\ Len(<<>>) = 0
      BY <1>3, <2>1 DEF InHand, AtWork
    <3>. QED
      BY <1>1, <2>2, <2>5, <3>1 DEF GPUCalm, GPUChain, CopiesAgree, ReadyLast
  <2>7. ASSUME NEW h \in GPUs \ {g} PROVE GPUCalm(h)'
    <3>1. GPUChain(h) /\ CopiesAgree(h) /\ ReadyLast(h) /\ ~InHand(h) /\ ~InHand(h)'
      BY <2>1, LedgerParts, NoneAssumption DEF InHand
    <3>. QED
      BY <1>1, <2>5, <3>1 DEF GPUCalm, GPUChain, CopiesAgree, ReadyLast
  <2>8. HandCalm'
    <3>1. IsReady(gpu'[g]) /\ IsReady(w'.val) /\ sched'[g] = w'.val /\ w'.val.free = f
      BY <1>1, <2>1, <2>2, <2>3, <2>5 DEF IsReady
    <3>. QED
      BY <1>1, <2>g, <2>1, <2>4, <3>1 DEF HandCalm
  <2>9. WorkCalm'
    BY <1>3, <2>1 DEF WorkCalm
  <2>10. \A d \in Conns : ConnCalm(d)' /\ PodCalm(d)'
    <3>1. \A h \in GPUs : IsReady(sched[h]) => IsReady(sched'[h])
      BY <2>3, <2>5 DEF IsReady
    <3>. QED
      BY <1>1, <3>1, ConnFrame, PodFrame
  <2>. QED
    BY <1>1, <2>6, <2>7, <2>8, <2>9, <2>10, LedgerParts DEF LedgerInv
<1>. QED
  BY <1>2, <1>3

LEMMA DropFinalizerLedger ==
    ASSUME LedgerInv, DeletionInv', DropFinalizer
    PROVE  LedgerInv'
<1>1. /\ w.pc = "dropFinalizer" /\ w.c \in Conns /\ ~AtWork /\ w.obj.state = "deleting"
      /\ UNCHANGED <<gpuVars, cacheVars, podVars, pool>>
  BY LedgerParts DEF DropFinalizer, AtWork, WorkerKnows
<1>2. PutConn(w.c, NoConn("gone")) /\ w' = IdleWorker
  BY <1>1, DeletingFacts DEF DropFinalizer, Return
<1>3. /\ conn'[w.c].state = "gone" /\ conn'[w.c].gpu = None /\ conn'[w.c].phase = ""
      /\ \A d \in Conns \ {w.c} : conn'[d] = conn[d]
  BY <1>1, <1>2, LedgerParts DEF PutConn, NoConn, TypeOK
<1>4. sched' = sched /\ pod' = pod
  BY <1>1 DEF cacheVars, podVars
<1>5. \A g \in GPUs : GPUCalm(g)'
  <2>1. \A g \in GPUs : ~InHand(g)
    BY <1>1 DEF InHand
  <2>. QED
    BY <1>1, <1>2, <2>1, IdleFacts, GPUFrame
<1>6. ASSUME NEW d \in Conns PROVE ConnCalm(d)' /\ PodCalm(d)'
  <2>1. CASE d = w.c
    BY <1>3, <2>1 DEF ConnCalm, PodCalm
  <2>2. CASE d # w.c
    BY <1>1, <1>3, <1>4, <2>2, ConnFrame, PodFrame
  <2>. QED
    BY <2>1, <2>2
<1>. QED
  BY <1>1, <1>2, <1>5, <1>6, IdleFacts, LedgerParts DEF LedgerInv

--------------------------------------------------------------------------------
(* The steps of the informers and of the rest of the cluster *)

\* The queues of GPU versions, as TailFacts and AppendFacts say of connections.
LEMMA GPUTail ==
    ASSUME NEW s \in Seq(GPUObj), s # <<>>
    PROVE  /\ Len(s) \in Nat /\ 1 \in 1..Len(s) /\ Head(s) = s[1]
           /\ Len(Tail(s)) = Len(s) - 1
           /\ \A i \in 1..Len(Tail(s)) : Tail(s)[i] = s[i + 1] /\ i + 1 \in 1..Len(s)
           /\ Tail(s) = <<>> <=> Len(s) = 1
<1>1. Len(s) \in Nat /\ Len(s) # 0
  OBVIOUS
<1>2. Head(s) = s[1] /\ Len(Tail(s)) = Len(s) - 1 /\ Tail(s) \in Seq(GPUObj)
  OBVIOUS
<1>3. \A i \in 1..Len(Tail(s)) : Tail(s)[i] = s[i + 1]
  BY <1>1
<1>4. Tail(s) = <<>> => Len(Tail(s)) = 0
  <2>1. Len(<<>>) = 0
    OBVIOUS
  <2>. QED
    BY <2>1
<1>5. Tail(s) # <<>> => Len(Tail(s)) # 0
  BY <1>2
<1>. QED
  BY <1>1, <1>2, <1>3, <1>4, <1>5

LEMMA GPUAppend ==
    ASSUME NEW s \in Seq(GPUObj), NEW o \in GPUObj
    PROVE  /\ Len(s) \in Nat /\ Len(Append(s, o)) = Len(s) + 1 /\ Append(s, o) # <<>>
           /\ Append(s, o)[Len(s) + 1] = o
           /\ \A i \in 1..Len(s) : Append(s, o)[i] = s[i]
           /\ \A i \in 1..Len(Append(s, o)) : i \in 1..Len(s) \/ i = Len(s) + 1
<1>1. Len(s) \in Nat /\ Len(Append(s, o)) = Len(s) + 1 /\ Append(s, o)[Len(s) + 1] = o
  OBVIOUS
<1>2. \A i \in 1..Len(s) : Append(s, o)[i] = s[i]
  OBVIOUS
<1>3. Append(s, o) # <<>>
  BY <1>1
<1>. QED
  BY <1>1, <1>2, <1>3

\* A step that leaves the worker and the other objects alone only has to keep the GPUs.
LEMMA CacheStep ==
    ASSUME LedgerInv, DeletionInv', UNCHANGED <<conn, podVars, pool, w>>,
           \A g \in GPUs : GPUCalm(g)',
           \A g \in GPUs : IsReady(sched[g]) => IsReady(sched'[g]),
           \A g \in GPUs : InHand(g) => sched'[g] = sched[g] /\ gpu'[g] = gpu[g]
    PROVE  LedgerInv'
<1>1. HandCalm'
  <2>. SUFFICES ASSUME AtWork, w.gpu # None PROVE HandCalm'
    BY DEF HandCalm, AtWork
  <2>1. sched'[w.gpu] = sched[w.gpu] /\ gpu'[w.gpu] = gpu[w.gpu]
    BY HandFacts DEF InHand
  <2>. QED
    BY <2>1, LedgerParts DEF HandCalm
<1>2. WorkCalm'
  BY LedgerParts DEF WorkCalm, AtWork, podVars
<1>3. \A d \in Conns : ConnCalm(d)' /\ PodCalm(d)'
  BY ConnFrame, PodFrame DEF podVars
<1>. QED
  BY <1>1, <1>2, <1>3, LedgerParts DEF LedgerInv

LEMMA GPUEventLedger ==
    ASSUME LedgerInv, DeletionInv', NEW g \in GPUs, GPUEvent(g)
    PROVE  LedgerInv'
<1>. DEFINE s == gpuWatch[g]
            n == gpuNotif[g]
<1>1. /\ s # <<>> /\ s \in Seq(GPUObj) /\ n \in Seq(GPUObj) /\ Head(s) \in GPUObj
      /\ gpuStore'[g] = Head(s) /\ gpuNotif'[g] = Append(n, Head(s)) /\ gpuWatch'[g] = Tail(s)
      /\ \A h \in GPUs \ {g} : /\ gpuStore'[h] = gpuStore[h] /\ gpuNotif'[h] = gpuNotif[h]
                               /\ gpuWatch'[h] = gpuWatch[h]
      /\ UNCHANGED <<conn, podVars, pool, w, gpu, sched>>
  BY LedgerParts DEF GPUEvent, TypeOK, connVars
<1>2. ~InHand(g)
  BY <1>1, HandFacts, NoneAssumption DEF InHand
<1>3. /\ \A h \in GPUs : InHand(h)' <=> InHand(h)
      /\ AtWork' <=> AtWork
  BY <1>1 DEF InHand, AtWork
<1>4. GPUCalm(g) /\ GPUChain(g) /\ CopiesAgree(g)
  BY LedgerParts DEF LedgerInv
<1>5. GPUCalm(g)'
  <2>t. /\ Len(s) \in Nat /\ 1 \in 1..Len(s) /\ Head(s) = s[1]
        /\ Len(Tail(s)) = Len(s) - 1
        /\ \A i \in 1..Len(Tail(s)) : Tail(s)[i] = s[i + 1] /\ i + 1 \in 1..Len(s)
        /\ Tail(s) = <<>> <=> Len(s) = 1
    BY <1>1, GPUTail
  <2>a. /\ Len(n) \in Nat /\ Len(Append(n, Head(s))) = Len(n) + 1 /\ Append(n, Head(s)) # <<>>
        /\ Append(n, Head(s))[Len(n) + 1] = Head(s)
        /\ \A i \in 1..Len(n) : Append(n, Head(s))[i] = n[i]
        /\ \A i \in 1..Len(Append(n, Head(s))) : i \in 1..Len(n) \/ i = Len(n) + 1
    BY <1>1, GPUAppend
  <2>. DEFINE t == Tail(s)
              m == Append(n, Head(s))
  <2>. HIDE DEF t, m
  <2>1. GPUChain(g)'
    <3>1. s[Len(s)] = gpu[g]
      BY <1>1, <1>4 DEF GPUChain
    <3>2. t = <<>> => Head(s) = gpu[g]
      BY <2>t, <3>1 DEF t
    <3>3. t # <<>> => t[Len(t)] = gpu[g]
      <4>1. t # <<>> => Len(t) \in 1..Len(t)
        BY <2>t DEF t
      <4>. QED
        BY <2>t, <3>1, <4>1 DEF t
    <3>. QED
      BY <1>1, <2>a, <3>2, <3>3 DEF GPUChain, t
  <2>2. CopiesAgree(g)'
    <3>1. /\ \A i \in 1..Len(s) : IsReady(s[i]) => s[i] = gpu[g]
          /\ \A i \in 1..Len(n) : IsReady(n[i]) => n[i] = gpu[g]
          /\ IsReady(sched[g]) => sched[g] = gpu[g]
      BY <1>2, <1>4 DEF CopiesAgree
    <3>2. IsReady(Head(s)) => Head(s) = gpu[g]
      BY <2>t, <3>1
    <3>3. \A i \in 1..Len(t) : IsReady(t[i]) => t[i] = gpu[g]
      BY <2>t, <3>1 DEF t
    <3>4. \A i \in 1..Len(m) : IsReady(m[i]) => m[i] = gpu[g]
      BY <2>a, <3>1, <3>2 DEF m
    <3>. QED
      BY <1>1, <3>1, <3>2, <3>3, <3>4 DEF CopiesAgree, t, m
  <2>3. ReadyLast(g) => ReadyLast(g)'
    <3>. SUFFICES ASSUME ReadyLast(g) PROVE ReadyLast(g)'
      OBVIOUS
    <3>1. /\ ~IsReady(sched[g]) /\ \A i \in 1..Len(n) : ~IsReady(n[i])
          /\ \A i \in 1..Len(s) : IsReady(s[i]) => i = Len(s)
      BY <1>1 DEF ReadyLast
    <3>2. \A i \in 1..Len(m) : IsReady(m[i]) => i = Len(m) /\ t = <<>>
      BY <2>t, <2>a, <3>1 DEF m, t
    <3>3. \A i \in 1..Len(t) : IsReady(t[i]) => i = Len(t)
      BY <2>t, <3>1 DEF t
    <3>. QED
      BY <1>1, <3>1, <3>2, <3>3 DEF ReadyLast, t, m
  <2>4. AllReady(g) => AllReady(g)'
    <3>. SUFFICES ASSUME AllReady(g) PROVE AllReady(g)'
      OBVIOUS
    <3>1. /\ IsReady(sched[g]) /\ IsReady(Head(s))
          /\ \A i \in 1..Len(n) : IsReady(n[i])
          /\ \A i \in 1..Len(s) : IsReady(s[i])
      BY <2>t DEF AllReady
    <3>2. \A i \in 1..Len(m) : IsReady(m[i])
      BY <2>a, <3>1 DEF m
    <3>3. \A i \in 1..Len(t) : IsReady(t[i])
      BY <2>t, <3>1 DEF t
    <3>. QED
      BY <1>1, <3>1, <3>2, <3>3 DEF AllReady, t, m
  <2>. QED
    BY <1>3, <1>4, <2>1, <2>2, <2>3, <2>4 DEF GPUCalm
<1>6. ASSUME NEW h \in GPUs \ {g} PROVE GPUCalm(h)'
  <2>1. GPUCalm(h)
    BY DEF LedgerInv
  <2>. QED
    BY <1>1, <1>3, <2>1 DEF GPUCalm, GPUChain, CopiesAgree, ReadyLast, AllReady
<1>. QED
  BY <1>1, <1>5, <1>6, CacheStep

LEMMA GPUNotifyLedger ==
    ASSUME LedgerInv, DeletionInv', NEW g \in GPUs, GPUNotify(g)
    PROVE  LedgerInv'
<1>. DEFINE n == gpuNotif[g]
<1>1. /\ n # <<>> /\ n \in Seq(GPUObj)
      /\ sched'[g] = Head(n) /\ gpuNotif'[g] = Tail(n)
      /\ \A h \in GPUs \ {g} : sched'[h] = sched[h] /\ gpuNotif'[h] = gpuNotif[h]
      /\ UNCHANGED <<conn, podVars, pool, w, gpu, gpuWatch, gpuStore>>
  BY LedgerParts DEF GPUNotify, OnEvent, TypeOK, connVars, gpuVars
<1>2. ~InHand(g)
  BY <1>1, HandFacts, NoneAssumption DEF InHand
<1>3. /\ \A h \in GPUs : InHand(h)' <=> InHand(h)
      /\ AtWork' <=> AtWork
  BY <1>1 DEF InHand, AtWork
<1>4. GPUCalm(g) /\ GPUChain(g) /\ CopiesAgree(g)
  BY LedgerParts DEF LedgerInv
<1>t. /\ Len(n) \in Nat /\ 1 \in 1..Len(n) /\ Head(n) = n[1]
      /\ Len(Tail(n)) = Len(n) - 1
      /\ \A i \in 1..Len(Tail(n)) : Tail(n)[i] = n[i + 1] /\ i + 1 \in 1..Len(n)
      /\ Tail(n) = <<>> <=> Len(n) = 1
  BY <1>1, GPUTail
<1>5. GPUCalm(g)'
  <2>. DEFINE t == Tail(n)
  <2>. HIDE DEF t
  <2>1. GPUChain(g)'
    <3>1. n[Len(n)] = gpuStore[g]
      BY <1>1, <1>4 DEF GPUChain
    <3>2. t = <<>> => Head(n) = gpuStore[g]
      BY <1>t, <3>1 DEF t
    <3>3. t # <<>> => t[Len(t)] = gpuStore[g]
      <4>1. t # <<>> => Len(t) \in 1..Len(t)
        BY <1>t DEF t
      <4>. QED
        BY <1>t, <3>1, <4>1 DEF t
    <3>. QED
      BY <1>1, <1>3, <1>4, <3>2, <3>3 DEF GPUChain, t
  <2>2. CopiesAgree(g)'
    <3>1. /\ \A i \in 1..Len(n) : IsReady(n[i]) => n[i] = gpu[g]
          /\ \A i \in 1..Len(gpuWatch[g]) : IsReady(gpuWatch[g][i]) => gpuWatch[g][i] = gpu[g]
          /\ IsReady(gpuStore[g]) => gpuStore[g] = gpu[g]
      BY <1>2, <1>4 DEF CopiesAgree
    <3>2. IsReady(Head(n)) => Head(n) = gpu[g]
      BY <1>t, <3>1
    <3>3. \A i \in 1..Len(t) : IsReady(t[i]) => t[i] = gpu[g]
      BY <1>t, <3>1 DEF t
    <3>. QED
      BY <1>1, <3>1, <3>2, <3>3 DEF CopiesAgree, t
  <2>3. ReadyLast(g) => ReadyLast(g)'
    <3>. SUFFICES ASSUME ReadyLast(g) PROVE ReadyLast(g)'
      OBVIOUS
    <3>1. /\ \A i \in 1..Len(n) : IsReady(n[i]) => i = Len(n) /\ gpuWatch[g] = <<>>
          /\ \A i \in 1..Len(gpuWatch[g]) : IsReady(gpuWatch[g][i]) => i = Len(gpuWatch[g])
      BY DEF ReadyLast
    <3>2. IsReady(Head(n)) => t = <<>> /\ gpuWatch[g] = <<>>
      BY <1>t, <3>1 DEF t
    <3>3. \A i \in 1..Len(t) : IsReady(t[i]) => i = Len(t) /\ gpuWatch[g] = <<>>
      BY <1>t, <3>1 DEF t
    <3>. QED
      BY <1>1, <3>1, <3>2, <3>3 DEF ReadyLast, t
  <2>4. AllReady(g) => AllReady(g)'
    <3>. SUFFICES ASSUME AllReady(g) PROVE AllReady(g)'
      OBVIOUS
    <3>1. IsReady(Head(n)) /\ \A i \in 1..Len(t) : IsReady(t[i])
      BY <1>t DEF AllReady, t
    <3>. QED
      BY <1>1, <3>1 DEF AllReady, t
  <2>. QED
    BY <1>3, <1>4, <2>1, <2>2, <2>3, <2>4 DEF GPUCalm
<1>6. ASSUME NEW h \in GPUs \ {g} PROVE GPUCalm(h)'
  <2>1. GPUCalm(h)
    BY DEF LedgerInv
  <2>. QED
    BY <1>1, <1>3, <2>1 DEF GPUCalm, GPUChain, CopiesAgree, ReadyLast, AllReady
<1>7. IsReady(sched[g]) => IsReady(sched'[g])
  <2>1. IsReady(sched[g]) => AllReady(g)
    BY <1>1, <1>4 DEF GPUCalm, ReadyLast
  <2>. QED
    BY <1>1, <1>t, <2>1 DEF AllReady
<1>. QED
  BY <1>1, <1>2, <1>5, <1>6, <1>7, CacheStep

\* Node discovery writes a GPU that no copy shows a status of.
LEMMA DiscoverLedger ==
    ASSUME LedgerInv, DeletionInv', NEW g \in GPUs, DiscoverCreate(g) \/ DiscoverPatch(g)
    PROVE  LedgerInv'
<1>. DEFINE s == gpuWatch[g]
<1>1. PICK o \in GPUObj : /\ PutGPU(g, o) /\ o # gpu[g] /\ ~IsReady(gpu[g])
                          /\ UNCHANGED <<conn, cacheVars, podVars, pool, w>>
  <2>1. CASE DiscoverCreate(g)
    BY <2>1, ObjectTypes DEF DiscoverCreate, Bare, IsReady, connVars
  <2>2. CASE DiscoverPatch(g)
    <3>1. gpu[g].state = "bare" /\ PutGPU(g, Ready(Cap[g]))
          /\ UNCHANGED <<conn, cacheVars, podVars, pool, w>>
      BY <2>2, NoFaults DEF DiscoverPatch, connVars
    <3>. QED
      BY <3>1, ObjectTypes DEF Ready, IsReady
  <2>. QED
    BY <2>1, <2>2
<1>2. /\ s \in Seq(GPUObj) /\ gpuWatch'[g] = Append(s, o) /\ gpu'[g] = o
      /\ sched' = sched /\ gpuStore' = gpuStore /\ gpuNotif' = gpuNotif
      /\ \A h \in GPUs \ {g} : gpu'[h] = gpu[h] /\ gpuWatch'[h] = gpuWatch[h]
  BY <1>1, LedgerParts DEF PutGPU, TypeOK, cacheVars
<1>3. ~InHand(g)
  BY <1>1, HandFacts, NoneAssumption DEF InHand
<1>4. /\ \A h \in GPUs : InHand(h)' <=> InHand(h)
      /\ AtWork' <=> AtWork
  BY <1>1 DEF InHand, AtWork
<1>5. GPUChain(g) /\ CopiesAgree(g)
  BY LedgerParts
<1>6. /\ ~IsReady(sched[g]) /\ ~IsReady(gpuStore[g])
      /\ \A i \in 1..Len(gpuNotif[g]) : ~IsReady(gpuNotif[g][i])
      /\ \A i \in 1..Len(s) : ~IsReady(s[i])
  BY <1>1, <1>3, <1>5 DEF CopiesAgree
<1>7. GPUCalm(g)'
  <2>. DEFINE t == Append(s, o)
  <2>1. /\ Len(s) \in Nat /\ Len(t) = Len(s) + 1 /\ t # <<>> /\ t[Len(s) + 1] = o
        /\ \A i \in 1..Len(s) : t[i] = s[i]
        /\ \A i \in 1..Len(t) : i \in 1..Len(s) \/ i = Len(s) + 1
    BY <1>2, GPUAppend
  <2>. HIDE DEF t
  <2>2. gpuWatch'[g] = t /\ \A i \in 1..Len(t) : IsReady(t[i]) => i = Len(t) /\ t[i] = o
    BY <1>2, <1>6, <2>1 DEF t
  <2>3. GPUChain(g)'
    BY <1>2, <1>5, <2>1, <2>2 DEF GPUChain
  <2>4. CopiesAgree(g)'
    BY <1>2, <1>6, <2>2 DEF CopiesAgree
  <2>5. ReadyLast(g)'
    BY <1>2, <1>6, <2>2 DEF ReadyLast
  <2>. QED
    BY <2>3, <2>4, <2>5 DEF GPUCalm
<1>8. ASSUME NEW h \in GPUs \ {g} PROVE GPUCalm(h)'
  <2>1. GPUCalm(h)
    BY DEF LedgerInv
  <2>. QED
    BY <1>2, <1>4, <2>1 DEF GPUCalm, GPUChain, CopiesAgree, ReadyLast, AllReady
<1>9. \A h \in GPUs : InHand(h) => gpu'[h] = gpu[h]
  BY <1>2, <1>3
<1>. QED
  BY <1>1, <1>2, <1>7, <1>8, <1>9, CacheStep

\* A step that leaves the GPUs and the worker's place alone only has to keep the
\* connections and the pods.
LEMMA ObjectStep ==
    ASSUME LedgerInv, DeletionInv', UNCHANGED <<gpuVars, cacheVars, pool>>,
           w'.pc = w.pc, w'.c = w.c, w'.obj = w.obj, w'.gpu = w.gpu, w'.val = w.val,
           w.pc # "idle" /\ w.obj.state = "deleting" => w'.fresh,
           \A c \in Conns : conn'[c].gpu = conn[c].gpu /\ conn'[c].phase = conn[c].phase,
           \A c \in Conns : conn[c].state = "gone" => conn'[c].state = "gone",
           \A c \in Conns : pod'[c].phase # "none"
                              => pod[c].phase # "none" /\ pod'[c].gpu = pod[c].gpu,
           \A c \in Conns : podCache'[c].phase = "none" /\ pod'[c].phase # "none"
                              => podCache[c].phase = "none"
    PROVE  LedgerInv'
<1>1. \A g \in GPUs : GPUCalm(g)'
  BY GPUFrame DEF AtWork, InHand
<1>2. gpu' = gpu /\ sched' = sched
  BY DEF gpuVars, cacheVars
<1>3. \A c \in Conns : ConnCalm(c)' /\ PodCalm(c)'
  BY <1>2, ConnFrame, PodFrame
<1>4. HandCalm'
  BY <1>2, LedgerParts DEF HandCalm, AtWork
<1>5. WorkCalm'
  <2>1. w.pc # "idle" => conn'[w.c].gpu = conn[w.c].gpu
    BY LedgerParts
  <2>2. w.pc \in {"addFinalizer", "schedule", "getGPU", "startWorker"} =>
          (podCache'[w.c].phase = "none" => pod'[w.c].phase = "none")
    BY LedgerParts DEF WorkCalm
  <2>. QED
    BY <2>1, <2>2, LedgerParts DEF WorkCalm, AtWork
<1>. QED
  BY <1>1, <1>3, <1>4, <1>5, LedgerParts DEF LedgerInv

LEMMA ConnStepLedger ==
    ASSUME LedgerInv, DeletionInv', NEW c \in Conns,
           ConnEvent(c) \/ PodEvent(c) \/ CreateConn(c) \/ DeleteConn(c) \/ RunPod(c)
             \/ CollectPod(c)
    PROVE  LedgerInv'
<1>d. w.pc # "idle" /\ w.obj.state = "deleting" => w.fresh
  BY LedgerParts DEF WorkCalm
<1>p. pod \in [Conns -> PodObj] /\ podCache \in [Conns -> PodObj]
  BY LedgerParts DEF TypeOK
<1>1. CASE ConnEvent(c)
  BY <1>1, <1>d, ObjectStep DEF ConnEvent, podVars
<1>2. CASE PodEvent(c)
  <2>1. /\ podCache' = [podCache EXCEPT ![c] = pod[c]]
        /\ UNCHANGED <<connVars, gpuVars, cacheVars, pod, pool, w>>
    BY <1>2 DEF PodEvent
  <2>2. \A d \in Conns : podCache'[d].phase = "none" /\ pod'[d].phase # "none"
                           => podCache[d].phase = "none"
    BY <1>p, <2>1
  <2>. QED
    BY <1>d, <2>1, <2>2, ObjectStep DEF connVars
<1>3. CASE CreateConn(c)
  <2>1. conn[c].gpu = None /\ conn[c].state = "none"
    BY <1>3, LedgerParts DEF CreateConn, FinalizerNeeded
  <2>2. conn[c].phase \in {"", "Pending"}
    BY <2>1, LedgerParts DEF ConnCalm
  <2>3. /\ PutConn(c, NoConn("live"))
        /\ UNCHANGED <<gpuVars, cacheVars, podVars, pool, w>>
    BY <1>3 DEF CreateConn
  <2>4. /\ conn'[c].gpu = None /\ conn'[c].phase = "" /\ conn'[c].state = "live"
        /\ \A d \in Conns \ {c} : conn'[d] = conn[d]
    BY <2>3, LedgerParts DEF PutConn, NoConn, TypeOK
  <2>5. \A g \in GPUs : GPUCalm(g)'
    BY <2>3, GPUFrame DEF AtWork, InHand
  <2>6. gpu' = gpu /\ sched' = sched /\ pod' = pod /\ podCache' = podCache
    BY <2>3 DEF gpuVars, cacheVars, podVars
  <2>7. \A d \in Conns : conn'[d].gpu = conn[d].gpu
    BY <2>1, <2>4
  <2>8. ASSUME NEW d \in Conns PROVE ConnCalm(d)'
    <3>1. CASE d = c
      BY <2>4, <3>1 DEF ConnCalm
    <3>2. CASE d # c
      BY <2>4, <2>6, <3>2, ConnFrame
    <3>. QED
      BY <3>1, <3>2
  <2>9. \A d \in Conns : PodCalm(d)'
    BY <2>1, <2>3, <2>4, <2>6, <2>7, PodFrame
  <2>10. HandCalm' /\ WorkCalm'
    <3>1. w.pc # "idle" => conn'[w.c].gpu = conn[w.c].gpu
      BY <2>7, LedgerParts
    <3>2. HandCalm'
      BY <2>3, <2>6, <3>1, LedgerParts DEF HandCalm, AtWork
    <3>3. WorkCalm'
      BY <2>3, <2>6, <3>1, LedgerParts DEF WorkCalm, AtWork
    <3>. QED
      BY <3>2, <3>3
  <2>. QED
    BY <2>3, <2>5, <2>8, <2>9, <2>10, LedgerParts DEF LedgerInv
<1>4. CASE DeleteConn(c)
  <2>1. /\ conn[c].state = "live" /\ conn[c] \in ConnObj /\ Outdate(c)
        /\ PutConn(c, IF conn[c].fin THEN [conn[c] EXCEPT !.state = "deleting"]
                      ELSE NoConn("gone"))
        /\ UNCHANGED <<gpuVars, cacheVars, podVars, pool>>
    BY <1>4, LedgerParts DEF DeleteConn
  <2>2. ~conn[c].fin => conn[c].gpu = None
    BY LedgerParts DEF FinalizerNeeded
  <2>3. /\ conn'[c].gpu = conn[c].gpu
        /\ conn[c].fin => conn'[c].phase = conn[c].phase
        /\ ~conn[c].fin => conn'[c].phase = "" /\ conn'[c].state = "gone"
        /\ \A d \in Conns \ {c} : conn'[d] = conn[d]
    <3>1. CASE conn[c].fin
      BY <2>1, <3>1, LedgerParts DEF PutConn, TypeOK, ConnObj
    <3>2. CASE ~conn[c].fin
      BY <2>1, <2>2, <3>2, LedgerParts DEF PutConn, TypeOK, NoConn
    <3>. QED
      BY <3>1, <3>2
  <2>4. /\ w'.pc = w.pc /\ w'.c = w.c /\ w'.obj = w.obj /\ w'.gpu = w.gpu /\ w'.val = w.val
        /\ w'.fresh = (w.fresh /\ w.c # c)
    BY <2>1, LedgerParts DEF Outdate, Worker
  <2>5. w.pc # "idle" /\ w.obj.state = "deleting" => w'.fresh
    <3>1. w.pc # "idle" /\ w.obj.state = "deleting" => w.c # c /\ w.fresh
      BY <2>1, DeletingFacts
    <3>. QED
      BY <2>4, <3>1
  <2>6. gpu' = gpu /\ sched' = sched /\ pod' = pod /\ podCache' = podCache
    BY <2>1 DEF gpuVars, cacheVars, podVars
  <2>7. \A g \in GPUs : GPUCalm(g)'
    BY <2>1, <2>4, GPUFrame DEF AtWork, InHand
  <2>8. ASSUME NEW d \in Conns PROVE ConnCalm(d)' /\ PodCalm(d)'
    <3>1. CASE d = c /\ ~conn[c].fin
      BY <2>2, <2>3, <3>1 DEF ConnCalm, PodCalm
    <3>2. CASE d # c \/ conn[c].fin
      <4>1. /\ conn'[d].gpu = conn[d].gpu /\ conn'[d].phase = conn[d].phase
            /\ conn[d].state = "gone" => conn'[d].state = "gone"
        BY <2>1, <2>3, <3>2
      <4>. QED
        BY <2>4, <2>6, <4>1, ConnFrame, PodFrame
    <3>. QED
      BY <3>1, <3>2
  <2>9. w.pc # "idle" => conn'[w.c].gpu = conn[w.c].gpu
    BY <2>3, LedgerParts
  <2>10. HandCalm'
    BY <2>4, <2>6, <2>9, LedgerParts DEF HandCalm, AtWork
  <2>11. WorkCalm'
    BY <2>4, <2>5, <2>6, <2>9, LedgerParts DEF WorkCalm, AtWork
  <2>. QED
    BY <2>1, <2>7, <2>8, <2>10, <2>11, LedgerParts DEF LedgerInv
<1>5. CASE RunPod(c)
  <2>1. /\ pod[c].phase = "Pending" /\ pod' = [pod EXCEPT ![c].phase = "Running"]
        /\ UNCHANGED <<connVars, gpuVars, cacheVars, podCache, pool, w>>
    BY <1>5 DEF RunPod
  <2>2. \A d \in Conns : pod'[d].gpu = pod[d].gpu /\ (pod'[d].phase # "none" => pod[d].phase # "none")
    BY <1>p, <2>1 DEF PodObj
  <2>. QED
    BY <1>d, <2>1, <2>2, ObjectStep DEF connVars
<1>6. CASE CollectPod(c)
  <2>1. /\ pod' = [pod EXCEPT ![c] = NoPod]
        /\ UNCHANGED <<connVars, gpuVars, cacheVars, podCache, pool, w>>
    BY <1>6 DEF CollectPod
  <2>2. \A d \in Conns : pod'[d].phase # "none" => pod'[d] = pod[d]
    BY <1>p, <2>1 DEF NoPod
  <2>. QED
    BY <1>d, <2>1, <2>2, ObjectStep DEF connVars
<1>. QED
  BY <1>1, <1>2, <1>3, <1>4, <1>5, <1>6

\* Every step keeps the books in order as long as nothing fails.
LEMMA LedgerStep == LedgerInv /\ [Next]_vars => LedgerInv'
<1>. SUFFICES ASSUME LedgerInv, [Next]_vars PROVE LedgerInv'
  OBVIOUS
<1>1. DeletionInv'
  BY DeletionStep DEF LedgerInv
<1>2. CASE UNCHANGED vars
  <2>1. UNCHANGED <<conn, gpuVars, cacheVars, podVars, pool, w>>
    BY <1>2 DEF vars, connVars
  <2>. QED
    BY <1>1, <2>1, ObjectStep, LedgerParts DEF WorkCalm, podVars
<1>3. CASE WorkerStep
  BY <1>1, <1>3, AddFinalizerLedger, ReleaseLedger, DropFinalizerLedger, SchedulePickLedger,
     ScheduleNoneLedger, GetGPULedger, StartWorkerLedger, UpdateConnLedger, UpdateGPULedger
  DEF WorkerStep
<1>4. ASSUME NEW c \in Conns, ConnNext(c) PROVE LedgerInv'
  BY <1>1, <1>4, StartLedger, ConnStepLedger, NoFaults DEF ConnNext
<1>5. ASSUME NEW g \in GPUs, GPUNext(g) PROVE LedgerInv'
  BY <1>1, <1>5, GPUEventLedger, GPUNotifyLedger, DiscoverLedger, NoFaults DEF GPUNext
<1>. QED
  BY <1>2, <1>3, <1>4, <1>5, NoFaults DEF Next

LEMMA LedgerInit == Kinds = {} /\ Init => LedgerInv
<1>. SUFFICES ASSUME Kinds = {}, Init PROVE LedgerInv
  OBVIOUS
<1>1. DeletionInv /\ pool
  BY DeletionInit DEF Init
<1>2. w.pc = "idle" /\ ~AtWork
  BY DEF Init, IdleWorker, AtWork
<1>3. HandCalm /\ WorkCalm
  BY <1>2 DEF HandCalm, WorkCalm
<1>4. ASSUME NEW g \in GPUs PROVE GPUCalm(g)
  <2>1. /\ gpu[g] = Absent /\ sched[g] = Absent /\ gpuStore[g] = Absent
        /\ gpuWatch[g] = <<>> /\ gpuNotif[g] = <<>> /\ Len(<<>>) = 0
    BY DEF Init
  <2>2. ~IsReady(Absent)
    BY DEF IsReady, Absent
  <2>. QED
    BY <2>1, <2>2 DEF GPUCalm, GPUChain, CopiesAgree, ReadyLast
<1>5. ASSUME NEW c \in Conns PROVE ConnCalm(c) /\ PodCalm(c)
  <2>1. conn[c] = NoConn("none") /\ pod[c] = NoPod
    BY DEF Init
  <2>2. conn[c].gpu = None /\ conn[c].phase = "" /\ pod[c].phase = "none"
    <3>1. NoConn("none").gpu = None /\ NoConn("none").phase = ""
      BY DEF NoConn
    <3>2. NoPod.phase = "none"
      BY DEF NoPod
    <3>. QED
      BY <2>1, <3>1, <3>2
  <2>. QED
    BY <2>2 DEF ConnCalm, PodCalm
<1>. QED
  BY <1>1, <1>3, <1>4, <1>5 DEF LedgerInv

--------------------------------------------------------------------------------
(* Results *)

\* As long as nothing fails, the GPU that handleDeletion will release is the one
\* that the worker pod was started on.
THEOREM PodOnItsGPU == Kinds = {} /\ Spec => []WorkerOnStatusGPU
<1>1. LedgerInv => WorkerOnStatusGPU
  <2>. SUFFICES ASSUME LedgerInv, NEW c \in Conns, conn[c].gpu # None, pod[c].phase # "none"
                PROVE  pod[c].gpu = conn[c].gpu
    BY DEF WorkerOnStatusGPU
  <2>1. PodCalm(c) /\ conn[c].state # "gone"
    BY LedgerParts DEF FinalizerNeeded
  <2>2. CASE /\ w.c = c /\ w.pc = "updateConn" /\ w.obj.state = "live"
             /\ w.gpu # None /\ w.gpu = pod[c].gpu
    BY <2>2, LedgerParts DEF HandCalm, AtWork
  <2>. QED
    BY <2>1, <2>2 DEF PodCalm
<1>. QED
  BY <1>1, LedgerInit, LedgerStep, PTL DEF Spec

--------------------------------------------------------------------------------
(* The refinement of AllocationLedger *)

FreeOf(g)   == IF gpu[g].state = "ready" THEN gpu[g].free ELSE Cap[g]
HolderOf(c) == IF Reserving(c) \/ Released(c) THEN None ELSE conn[c].gpu
FreeMap     == [g \in GPUs |-> FreeOf(g)]
HolderMap   == [c \in Conns |-> HolderOf(c)]

\* Outside of the two writes of the status the worker's binding is not yet, or no
\* longer, on its way.
LEMMA HolderElsewhere ==
    ASSUME NEW c \in Conns, w.pc \notin {"updateConn", "updateGPU", "dropFinalizer"}
    PROVE  HolderOf(c) = conn[c].gpu
  BY DEF HolderOf, Reserving, Released

\* Steps of the worker before its writes.
LEMMA EarlyStutter ==
    ASSUME LedgerInv, LedgerInv',
           AddFinalizer \/ ScheduleNone \/ SchedulePanic \/ GetGPU
             \/ (\E g \in GPUs : SchedulePick(g)) \/ (\E c \in Conns : Start(c)),
           NEW c \in Conns
    PROVE  gpu' = gpu /\ HolderOf(c)' = HolderOf(c)
<1>1. w.pc \in {"idle", "addFinalizer", "schedule", "getGPU"} /\ gpu' = gpu
  BY DEF AddFinalizer, ScheduleNone, SchedulePanic, GetGPU, SchedulePick, Start, gpuVars
<1>2. HolderOf(c) = conn[c].gpu
  BY <1>1, HolderElsewhere
<1>3. conn'[c].gpu = conn[c].gpu
  <2>1. CASE AddFinalizer
    <3>1. CASE UNCHANGED connVars
      BY <3>1 DEF connVars
    <3>2. CASE w.fresh
      <4>1. w.obj = conn[w.c] /\ w.c \in Conns /\ PutConn(w.c, [w.obj EXCEPT !.fin = TRUE])
        BY <2>1, <3>2, LedgerParts DEF AddFinalizer, WorkerKnows
      <4>. QED
        BY <4>1, LedgerParts DEF PutConn, TypeOK, ConnObj
    <3>. QED
      BY <2>1, <3>1, <3>2 DEF AddFinalizer
  <2>. QED
    BY <2>1 DEF ScheduleNone, SchedulePanic, GetGPU, SchedulePick, Start, connVars
<1>4. w'.pc \in {"idle", "release", "addFinalizer", "schedule", "getGPU", "startWorker"}
      \/ (w'.pc = "updateConn" /\ w'.gpu = None)
  <2>1. \A o : FirstStep(o) \in {"release", "addFinalizer", "schedule", "getGPU"}
               /\ AfterFinalizer(o) \in {"schedule", "getGPU"}
    BY DEF FirstStep, AfterFinalizer
  <2>2. w' = IdleWorker => w'.pc = "idle"
    BY DEF IdleWorker
  <2>3. CASE AddFinalizer
    <3>1. w' = IdleWorker \/ w'.pc = AfterFinalizer([w.obj EXCEPT !.fin = TRUE])
      BY <2>3, LedgerParts DEF AddFinalizer, Requeue, Worker
    <3>. QED
      BY <2>1, <2>2, <3>1
  <2>4. CASE ScheduleNone
    BY <2>4, LedgerParts DEF ScheduleNone, Worker
  <2>5. CASE SchedulePanic
    BY <2>2, <2>5 DEF SchedulePanic, Requeue
  <2>6. CASE GetGPU
    <3>1. CASE w' = [w EXCEPT !.pc = "updateConn"]
      <4>1. w.gpu = None
        BY <2>6, LedgerParts DEF GetGPU, WorkCalm
      <4>. QED
        BY <3>1, <4>1, LedgerParts DEF Worker
    <3>2. CASE InStore(w.obj.gpu)
      <4>1. w.obj.gpu # None /\ w.obj.phase # "Pending"
        BY <2>6, <3>2, LedgerParts DEF InStore, GetGPU, WorkCalm, WorkerKnows, AtWork
      <4>2. w' = [w EXCEPT !.gpu = w.obj.gpu, !.val = gpuStore[w.obj.gpu],
                           !.pc = "startWorker"]
        BY <2>6, <3>2, <4>1 DEF GetGPU
      <4>. QED
        BY <4>2, LedgerParts DEF Worker
    <3>. QED
      BY <2>6, <3>1, <3>2 DEF GetGPU, Goto
  <2>7. ASSUME NEW g \in GPUs, SchedulePick(g) PROVE w'.pc = "startWorker"
    BY <2>7, LedgerParts DEF SchedulePick, Worker
  <2>8. ASSUME NEW d \in Conns, Start(d)
        PROVE  w'.pc \in {"idle", "release", "addFinalizer", "schedule", "getGPU"}
    <3>1. w' = IdleWorker \/ w'.pc = FirstStep(connCache[d])
      BY <2>8 DEF Start, IdleWorker
    <3>. QED
      BY <2>1, <2>2, <3>1
  <2>. QED
    BY <2>3, <2>4, <2>5, <2>6, <2>7, <2>8
<1>5. HolderOf(c)' = conn'[c].gpu
  BY <1>4 DEF HolderOf, Reserving, Released
<1>. QED
  BY <1>1, <1>2, <1>3, <1>5

\* The other steps of the worker that the ledger does not see.
LEMMA LateStutter ==
    ASSUME LedgerInv, StartWorker \/ Release \/ DropFinalizer, NEW c \in Conns
    PROVE  gpu' = gpu /\ HolderOf(c)' = HolderOf(c)
<1>1. gpu' = gpu
  BY DEF StartWorker, Release, DropFinalizer, gpuVars
<1>2. CASE StartWorker
  <2>1. /\ w.pc = "startWorker" /\ AtWork /\ w.gpu # None /\ w.obj.state = "live"
        /\ w'.c = w.c /\ w'.gpu = w.gpu /\ w'.val = w.val /\ w'.pc = "updateConn"
        /\ conn' = conn
    BY <1>2, StartWorkerFacts DEF connVars
  <2>2. HolderOf(c) = conn[c].gpu
    BY <2>1, HolderElsewhere
  <2>3. w.val # gpu[w.gpu] => conn[w.c].gpu = None
    BY <2>1, LedgerParts DEF HandCalm
  <2>. QED
    BY <1>1, <2>1, <2>2, <2>3 DEF HolderOf, Reserving, Released
<1>3. CASE Release
  <2>1. /\ w.pc = "release" /\ w.obj.state = "deleting" /\ w.obj = conn[w.c]
        /\ w'.c = w.c /\ w'.obj = w.obj /\ conn' = conn
        /\ w'.pc = "updateConn" \/ (w.obj.gpu = None /\ w'.pc = "dropFinalizer")
    BY <1>3, ReleaseFacts DEF connVars
  <2>2. HolderOf(c) = conn[c].gpu
    BY <2>1, HolderElsewhere
  <2>. QED
    BY <1>1, <2>1, <2>2 DEF HolderOf, Reserving, Released
<1>4. CASE DropFinalizer
  <2>1. /\ w.pc = "dropFinalizer" /\ w.c \in Conns /\ w.obj.state = "deleting"
    BY <1>4, LedgerParts DEF DropFinalizer, WorkerKnows
  <2>2. PutConn(w.c, NoConn("gone")) /\ w' = IdleWorker
    BY <1>4, <2>1, DeletingFacts DEF DropFinalizer, Return
  <2>3. /\ conn'[w.c].gpu = None /\ \A d \in Conns \ {w.c} : conn'[d] = conn[d]
    BY <2>1, <2>2, LedgerParts DEF PutConn, NoConn, TypeOK
  <2>4. w'.pc = "idle"
    BY <2>2 DEF IdleWorker
  <2>. QED
    BY <1>1, <2>1, <2>3, <2>4 DEF HolderOf, Reserving, Released
<1>. QED
  BY <1>2, <1>3, <1>4

\* Neither the informers nor the rest of the cluster touch the ledger.
LEMMA EnvironmentStutter ==
    ASSUME LedgerInv,
           \/ \E c \in Conns : ConnEvent(c) \/ PodEvent(c) \/ CreateConn(c) \/ DeleteConn(c)
                                 \/ RunPod(c) \/ CollectPod(c)
           \/ \E g \in GPUs : GPUEvent(g) \/ GPUNotify(g) \/ DiscoverCreate(g)
                                \/ DiscoverPatch(g)
           \/ UNCHANGED vars
    PROVE  /\ \A g \in GPUs : FreeOf(g)' = FreeOf(g)
           /\ \A c \in Conns : HolderOf(c)' = HolderOf(c)
<1>1. CASE /\ gpu' = gpu /\ \A c \in Conns : conn'[c].gpu = conn[c].gpu
           /\ w'.pc = w.pc /\ w'.c = w.c /\ w'.obj = w.obj /\ w'.gpu = w.gpu /\ w'.val = w.val
  BY <1>1 DEF FreeOf, HolderOf, Reserving, Released
<1>2. ASSUME NEW d \in Conns, CreateConn(d)
      PROVE  \A c \in Conns : conn'[c].gpu = conn[c].gpu
  <2>1. conn[d].gpu = None /\ PutConn(d, NoConn("live"))
    BY <1>2, LedgerParts DEF CreateConn, FinalizerNeeded
  <2>. QED
    BY <2>1, LedgerParts DEF PutConn, NoConn, TypeOK
<1>3. ASSUME NEW d \in Conns, DeleteConn(d)
      PROVE  /\ gpu' = gpu /\ \A c \in Conns : conn'[c].gpu = conn[c].gpu
             /\ w'.pc = w.pc /\ w'.c = w.c /\ w'.obj = w.obj /\ w'.gpu = w.gpu
             /\ w'.val = w.val
  <2>1. /\ PutConn(d, IF conn[d].fin THEN [conn[d] EXCEPT !.state = "deleting"]
                      ELSE NoConn("gone"))
        /\ ~conn[d].fin => conn[d].gpu = None
        /\ Outdate(d) /\ gpu' = gpu /\ conn[d] \in ConnObj
    BY <1>3, LedgerParts DEF DeleteConn, FinalizerNeeded, gpuVars
  <2>2. ASSUME NEW c \in Conns PROVE conn'[c].gpu = conn[c].gpu
    <3>1. CASE c # d
      BY <2>1, <3>1, LedgerParts DEF PutConn, TypeOK
    <3>2. CASE c = d /\ conn[d].fin
      BY <2>1, <3>2, LedgerParts DEF PutConn, TypeOK, ConnObj
    <3>3. CASE c = d /\ ~conn[d].fin
      BY <2>1, <3>3, LedgerParts DEF PutConn, TypeOK, NoConn
    <3>. QED
      BY <3>1, <3>2, <3>3
  <2>. QED
    BY <2>1, <2>2, LedgerParts DEF Outdate, Worker
<1>4. ASSUME NEW d \in Conns, ConnEvent(d) \/ PodEvent(d) \/ RunPod(d) \/ CollectPod(d)
      PROVE  gpu' = gpu /\ conn' = conn /\ w' = w
  BY <1>4 DEF ConnEvent, PodEvent, RunPod, CollectPod, connVars, gpuVars
<1>5. ASSUME NEW h \in GPUs, GPUEvent(h) \/ GPUNotify(h)
      PROVE  gpu' = gpu /\ conn' = conn /\ w' = w
  BY <1>5 DEF GPUEvent, GPUNotify, connVars, gpuVars
<1>6. ASSUME NEW h \in GPUs, DiscoverCreate(h) \/ DiscoverPatch(h)
      PROVE  /\ \A g \in GPUs : FreeOf(g)' = FreeOf(g)
             /\ \A c \in Conns : HolderOf(c)' = HolderOf(c)
  <2>1. /\ ~IsReady(gpu[h]) /\ conn' = conn /\ w' = w
        /\ \/ gpu' = [gpu EXCEPT ![h] = Bare]
           \/ gpu' = [gpu EXCEPT ![h] = Ready(Cap[h])]
    BY <1>6, NoFaults DEF DiscoverCreate, DiscoverPatch, PutGPU, IsReady, connVars
  <2>2. ASSUME NEW g \in GPUs PROVE FreeOf(g)' = FreeOf(g)
    <3>1. CASE g # h
      BY <2>1, <3>1, LedgerParts DEF FreeOf, TypeOK
    <3>2. CASE g = h
      <4>1. Bare.state # "ready" /\ Ready(Cap[h]).free = Cap[h] /\ Ready(Cap[h]).state = "ready"
        BY DEF Bare, Ready
      <4>2. gpu'[g] = Bare \/ gpu'[g] = Ready(Cap[h])
        BY <2>1, <3>2, LedgerParts DEF TypeOK
      <4>. QED
        BY <2>1, <3>2, <4>1, <4>2 DEF FreeOf, IsReady
    <3>. QED
      BY <3>1, <3>2
  <2>3. AtWork /\ w.gpu # None => gpu'[w.gpu] = gpu[w.gpu]
    <3>1. AtWork /\ w.gpu # None => w.gpu \in GPUs /\ w.gpu # h
      BY <2>1, HandFacts
    <3>. QED
      BY <2>1, <3>1, LedgerParts DEF TypeOK
  <2>. QED
    BY <2>1, <2>2, <2>3 DEF HolderOf, Reserving, Released, AtWork
<1>7. ASSUME UNCHANGED vars PROVE gpu' = gpu /\ conn' = conn /\ w' = w
  BY <1>7 DEF vars, connVars, gpuVars
<1>8. ASSUME NEW d \in Conns, CreateConn(d) PROVE gpu' = gpu /\ w' = w
  BY <1>8 DEF CreateConn, gpuVars
<1>. QED
  BY <1>1, <1>2, <1>3, <1>4, <1>5, <1>6, <1>7, <1>8

\* What the ledger's steps say of each connection and GPU.
LEMMA LedgerReserve ==
    ASSUME NEW c \in Conns, NEW g \in GPUs,
           HolderOf(c) = None, HolderOf(c)' = g, Fits(FreeOf(g), Req[c]),
           FreeOf(g)' = Minus(FreeOf(g), Req[c]),
           \A h \in GPUs \ {g} : FreeOf(h)' = FreeOf(h),
           \A d \in Conns \ {c} : HolderOf(d)' = HolderOf(d)
    PROVE  Ledger!Next
<1>1. FreeMap' = [FreeMap EXCEPT ![g] = [d \in Dim |-> @[d] - Req[c][d]]]
  BY DEF FreeMap, Minus
<1>2. HolderMap' = [HolderMap EXCEPT ![c] = g]
  BY DEF HolderMap
<1>3. HolderMap[c] = None /\ \A d \in Dim : FreeMap[g][d] >= Req[c][d]
  BY DEF HolderMap, FreeMap, Fits
<1>4. Ledger!Reserve(c, g)
  BY <1>1, <1>2, <1>3 DEF Ledger!Reserve, FreeMap, HolderMap, FreeOf, HolderOf
<1>. QED
  BY <1>4 DEF Ledger!Next

LEMMA LedgerGiveBack ==
    ASSUME NEW c \in Conns, NEW g \in GPUs,
           HolderOf(c) = g, HolderOf(c)' = None,
           FreeOf(g)' = Plus(FreeOf(g), Req[c]),
           \A h \in GPUs \ {g} : FreeOf(h)' = FreeOf(h),
           \A d \in Conns \ {c} : HolderOf(d)' = HolderOf(d)
    PROVE  Ledger!Next
<1>1. FreeMap' = [FreeMap EXCEPT ![g] = [d \in Dim |-> @[d] + Req[c][d]]]
  BY DEF FreeMap, Plus
<1>2. HolderMap' = [HolderMap EXCEPT ![c] = None]
  BY DEF HolderMap
<1>3. HolderMap[c] = g /\ g # None
  BY NoneAssumption DEF HolderMap
<1>4. /\ HolderMap[c] # None
      /\ FreeMap' = [FreeMap EXCEPT ![HolderMap[c]] = [d \in Dim |-> @[d] + Req[c][d]]]
  BY <1>1, <1>3
<1>5. Ledger!GiveBack(c)
  BY <1>2, <1>4, Zenon DEF Ledger!GiveBack, FreeMap, HolderMap, FreeOf, HolderOf
<1>. QED
  BY <1>5 DEF Ledger!Next

LEMMA LedgerStutter ==
    ASSUME \A g \in GPUs : FreeOf(g)' = FreeOf(g),
           \A c \in Conns : HolderOf(c)' = HolderOf(c)
    PROVE  FreeMap' = FreeMap /\ HolderMap' = HolderMap
  BY DEF FreeMap, HolderMap

\* The write of the connection is a reservation when the request is nothing, and
\* otherwise leaves the ledger alone.
LEMMA UpdateConnRefines ==
    ASSUME LedgerInv, UpdateConn
    PROVE  Ledger!Next \/ (FreeMap' = FreeMap /\ HolderMap' = HolderMap)
<1>. USE UpdateConnFacts
<1>1. gpu' = gpu /\ \A g \in GPUs : FreeOf(g)' = FreeOf(g)
  BY DEF FreeOf, gpuVars
<1>2. \A d \in Conns \ {w.c} : HolderOf(d)' = HolderOf(d)
  <2>1. w' = IdleWorker => w'.pc = "idle"
    BY DEF IdleWorker
  <2>. QED
    BY <2>1 DEF HolderOf, Reserving, Released
<1>c. PICK c \in Conns : c = w.c
  OBVIOUS
<1>3. CASE w.gpu = None
  <2>1. w'.pc = "idle" /\ conn[c].gpu = None /\ conn'[c].gpu = None
    BY <1>3, <1>c DEF IdleWorker
  <2>2. HolderOf(c)' = HolderOf(c)
    BY <2>1 DEF HolderOf, Reserving, Released
  <2>. QED
    BY <1>1, <1>2, <1>c, <2>2, LedgerStutter
<1>4. CASE w.gpu # None
  <2>1. /\ w'.pc = "updateGPU" /\ w'.c = w.c /\ w'.gpu = w.gpu /\ w'.val = w.val
        /\ w'.obj = w.obj /\ conn'[c].gpu = w.gpu
    BY <1>4, <1>c
  <2>g. PICK g \in GPUs : g = w.gpu
    BY <1>4, HandFacts
  <2>2. CASE w.obj.state = "deleting"
    <3>1. HolderOf(c)' = HolderOf(c)
      BY <1>c, <2>1, <2>2 DEF HolderOf, Reserving, Released
    <3>. QED
      BY <1>1, <1>2, <1>c, <3>1, LedgerStutter
  <2>3. CASE w.obj.state = "live" /\ w.val # gpu[g]
    <3>1. HolderOf(c)' = HolderOf(c)
      BY <1>1, <1>4, <1>c, <2>1, <2>3, <2>g DEF HolderOf, Reserving, Released
    <3>. QED
      BY <1>1, <1>2, <1>c, <3>1, LedgerStutter
  <2>4. CASE w.obj.state = "live" /\ w.val = gpu[g]
    <3>1. HolderOf(c) = conn[c].gpu /\ HolderOf(c)' = g
      BY <1>1, <1>4, <1>c, <2>1, <2>4, <2>g DEF HolderOf, Reserving, Released
    <3>2. CASE conn[c].gpu = g
      BY <1>1, <1>2, <1>c, <3>1, <3>2, LedgerStutter
    <3>3. CASE conn[c].gpu # g
      <4>1. /\ Fits(gpu[g].free, Req[c]) /\ IsReady(gpu[g])
            /\ w.val.free = Minus(gpu[g].free, Req[c]) /\ conn[c].gpu = None
        BY <1>c, <1>4, <2>g, <2>4, <3>3, LedgerParts DEF HandCalm
      <4>2. FreeOf(g) = gpu[g].free
        BY <4>1 DEF FreeOf, IsReady
      <4>3. FreeOf(g)' = Minus(FreeOf(g), Req[c])
        BY <1>1, <2>4, <4>1, <4>2
      <4>. QED
        BY <1>1, <1>2, <1>c, <3>1, <4>1, <4>2, <4>3, LedgerReserve
    <3>. QED
      BY <3>2, <3>3
  <2>. QED
    BY <2>2, <2>3, <2>4, <2>g, LedgerParts DEF WorkerKnows
<1>. QED
  BY <1>3, <1>4

\* The write of the GPU is the reservation, or the release, that the worker is about.
LEMMA UpdateGPURefines ==
    ASSUME LedgerInv, UpdateGPU
    PROVE  Ledger!Next \/ (FreeMap' = FreeMap /\ HolderMap' = HolderMap)
<1>. USE UpdateGPUFacts
<1>c. PICK c \in Conns : c = w.c
  OBVIOUS
<1>g. PICK g \in GPUs : g = w.gpu
  OBVIOUS
<1>1. /\ gpu'[g] = w.val /\ conn' = conn /\ IsReady(gpu[g]) /\ IsReady(w.val)
      /\ \A h \in GPUs \ {g} : gpu'[h] = gpu[h]
  BY <1>g, HandFacts, LedgerParts DEF PutGPU, TypeOK, connVars
<1>2. /\ FreeOf(g) = gpu[g].free /\ FreeOf(g)' = w.val.free
      /\ \A h \in GPUs \ {g} : FreeOf(h)' = FreeOf(h)
  BY <1>1 DEF FreeOf, IsReady
<1>3. w.obj.state = "live" => w'.pc = "idle"
  BY DEF IdleWorker
<1>4. \A d \in Conns \ {c} : HolderOf(d)' = HolderOf(d)
  <2>1. \A d \in Conns \ {c} : HolderOf(d) = conn[d].gpu
    BY <1>c DEF HolderOf, Reserving, Released
  <2>2. ASSUME NEW d \in Conns \ {c} PROVE HolderOf(d)' = conn'[d].gpu
    <3>1. CASE w.obj.state = "live"
      BY <1>3, <3>1 DEF HolderOf, Reserving, Released
    <3>2. CASE w.obj.state = "deleting"
      BY <1>c, <3>2 DEF HolderOf, Reserving, Released
    <3>. QED
      BY <3>1, <3>2, LedgerParts DEF WorkerKnows
  <2>. QED
    BY <1>1, <2>1, <2>2
<1>5. CASE w.obj.state = "deleting"
  <2>1. HolderOf(c) = conn[c].gpu /\ HolderOf(c)' = None
    BY <1>c, <1>5 DEF HolderOf, Reserving, Released
  <2>2. conn[c].gpu = g
    BY <1>c, <1>g, <1>5, HandFacts, DeletingFacts
  <2>3. w.val.free = Plus(gpu[g].free, Req[c])
    BY <1>c, <1>g, <1>5, LedgerParts DEF HandCalm
  <2>. QED
    BY <1>2, <1>4, <2>1, <2>2, <2>3, LedgerGiveBack
<1>6. CASE w.obj.state = "live" /\ w.val = gpu[g]
  <2>1. HolderOf(c) = conn[c].gpu /\ HolderOf(c)' = conn'[c].gpu
    BY <1>g, <1>3, <1>6 DEF HolderOf, Reserving, Released
  <2>. QED
    BY <1>1, <1>2, <1>4, <1>6, <2>1, LedgerStutter
<1>7. CASE w.obj.state = "live" /\ w.val # gpu[g]
  <2>1. HolderOf(c) = None /\ HolderOf(c)' = conn'[c].gpu
    BY <1>c, <1>g, <1>3, <1>7 DEF HolderOf, Reserving, Released
  <2>2. /\ Fits(gpu[g].free, Req[c]) /\ conn[c].gpu = g
        /\ w.val.free = Minus(gpu[g].free, Req[c])
    BY <1>c, <1>g, <1>7, LedgerParts DEF HandCalm
  <2>. QED
    BY <1>1, <1>2, <1>4, <2>1, <2>2, LedgerReserve
<1>. QED
  BY <1>5, <1>6, <1>7, LedgerParts DEF WorkerKnows

LEMMA RefinesStep == LedgerInv /\ [Next]_vars => [Ledger!Next]_<<FreeMap, HolderMap>>
<1>. SUFFICES ASSUME LedgerInv, [Next]_vars
              PROVE  Ledger!Next \/ (FreeMap' = FreeMap /\ HolderMap' = HolderMap)
  OBVIOUS
<1>1. LedgerInv'
  BY LedgerStep
<1>2. CASE UpdateConn \/ UpdateGPU
  BY <1>2, UpdateConnRefines, UpdateGPURefines
<1>3. CASE AddFinalizer \/ ScheduleNone \/ SchedulePanic \/ GetGPU
             \/ (\E g \in GPUs : SchedulePick(g)) \/ (\E c \in Conns : Start(c))
             \/ StartWorker \/ Release \/ DropFinalizer
  <2>1. \A c \in Conns : HolderOf(c)' = HolderOf(c)
    BY <1>1, <1>3, EarlyStutter, LateStutter
  <2>2. gpu' = gpu
    BY <1>3 DEF AddFinalizer, ScheduleNone, SchedulePanic, GetGPU, SchedulePick, Start,
                StartWorker, Release, DropFinalizer, gpuVars
  <2>3. \A g \in GPUs : FreeOf(g)' = FreeOf(g)
    BY <2>2 DEF FreeOf
  <2>. QED
    BY <2>1, <2>3, LedgerStutter
<1>4. CASE \/ \E c \in Conns : ConnEvent(c) \/ PodEvent(c) \/ CreateConn(c) \/ DeleteConn(c)
                                 \/ RunPod(c) \/ CollectPod(c)
           \/ \E g \in GPUs : GPUEvent(g) \/ GPUNotify(g) \/ DiscoverCreate(g)
                                \/ DiscoverPatch(g)
           \/ UNCHANGED vars
  BY <1>4, EnvironmentStutter, LedgerStutter
<1>. QED
  BY <1>2, <1>3, <1>4, NoFaults DEF Next, WorkerStep, ConnNext, GPUNext

LEMMA RefinesInit == Init => Ledger!Init
<1>. SUFFICES ASSUME Init PROVE Ledger!Init
  OBVIOUS
<1>1. \A g \in GPUs : FreeOf(g) = Cap[g]
  BY DEF Init, FreeOf, Absent
<1>2. w.pc = "idle" /\ NoConn("none").gpu = None
  BY DEF Init, IdleWorker, NoConn
<1>3. \A c \in Conns : HolderOf(c) = None
  BY <1>2 DEF Init, HolderOf, Reserving, Released
<1>4. FreeMap = Cap /\ HolderMap = [c \in Conns |-> None]
  BY <1>1, <1>3, CapAssumption DEF FreeMap, HolderMap
<1>. QED
  BY <1>4 DEF Ledger!Init, FreeMap, HolderMap, FreeOf, HolderOf

\* As long as nothing fails, the reconciles, the scheduler, the informers and node
\* discovery together are an allocator that reserves and returns shares atomically.
THEOREM ImplementsLedger == Kinds = {} /\ Spec => LedgerSpec
<1>1. LedgerInv /\ [Next]_vars => [Ledger!Next]_<<FreeMap, HolderMap>>
  BY RefinesStep
<1>. QED
  BY <1>1, LedgerInit, LedgerStep, RefinesInit, PTL
  DEF Spec, LedgerSpec, Ledger!Spec, FreeMap, HolderMap, FreeOf, HolderOf

--------------------------------------------------------------------------------
(* Sums of requests.  Induction is replaced by a least counterexample.         *)

LEMMA Least ==
    ASSUME NEW T, T \subseteq Nat, T # {}
    PROVE  \E x \in T : \A y \in T : x <= y
<1>1. PICK x \in T : \A y \in T : ~ (<<y, x>> \in OpToRel(<, Nat))
  BY WFMin, NatLessThanWellFounded, Zenon
<1>2. ASSUME NEW y \in T PROVE x <= y
  <2>1. x \in Nat /\ y \in Nat
    OBVIOUS
  <2>2. y < x => <<y, x>> \in OpToRel(<, Nat)
    BY <2>1 DEF OpToRel
  <2>3. ~ (y < x)
    BY <1>1, <2>2, Zenon
  <2>. QED
    BY <2>1, <2>3
<1>. QED
  BY <1>2

Pick(s) == CHOOSE x \in s : TRUE

\* The equation of the recursive function in MapThenSumSet, on a set of sets.
Adds(F, D, d) == F = [s \in D |-> IF s = {} THEN 0 ELSE Req[Pick(s)][d] + F[s \ {Pick(s)}]]

SumOf(S, d) == MapThenSumSet(LAMBDA c : Req[c][d], S)

LEMMA PickFacts ==
    ASSUME NEW s \in SUBSET Conns
    PROVE  /\ IsFiniteSet(s) /\ Cardinality(s) \in Nat
           /\ s # {} => /\ Pick(s) \in s /\ s \ {Pick(s)} \in SUBSET Conns
                        /\ \A x \in s : Cardinality(s \ {x}) = Cardinality(s) - 1
<1>1. IsFiniteSet(s) /\ Cardinality(s) \in Nat
  BY ConnsAssumption, FS_Subset, FS_CardinalityType
<1>2. s # {} => Pick(s) \in s
  BY DEF Pick
<1>3. \A x \in s : Cardinality(s \ {x}) = Cardinality(s) - 1
  BY <1>1, FS_RemoveElement
<1>. QED
  BY <1>1, <1>2, <1>3

Small(S, n) == {s \in SUBSET S : Cardinality(s) <= n}

LEMMA AddsExists ==
    ASSUME NEW S \in SUBSET Conns, NEW d, NEW m \in Nat
    PROVE  \E F : Adds(F, Small(S, m), d)
<1>. DEFINE T == {n \in Nat : ~ \E F : Adds(F, Small(S, n), d)}
<1>. SUFFICES ASSUME m \in T PROVE FALSE
  OBVIOUS
<1>1. PICK n \in T : \A y \in T : n <= y
  BY Least
<1>2. CASE n = 0
  <2>. DEFINE F == [s \in Small(S, 0) |-> 0]
  <2>1. \A s \in Small(S, 0) : s = {}
    <3>1. ASSUME NEW s \in Small(S, 0) PROVE s = {}
      <4>1. s \in SUBSET Conns /\ Cardinality(s) <= 0
        BY DEF Small
      <4>. QED
        BY <4>1, PickFacts, FS_EmptySet
    <3>. QED
      BY <3>1
  <2>2. Adds(F, Small(S, 0), d)
    BY <2>1 DEF Adds
  <2>. QED
    BY <1>1, <1>2, <2>2
<1>3. CASE n # 0
  <2>1. n - 1 \in Nat /\ n - 1 \notin T
    BY <1>1, <1>3
  <2>2. PICK F : Adds(F, Small(S, n - 1), d)
    BY <2>1
  <2>. DEFINE G == [s \in Small(S, n) |->
                      IF s = {} THEN 0 ELSE Req[Pick(s)][d] + F[s \ {Pick(s)}]]
  <2>3. \A s \in Small(S, n - 1) : s \in Small(S, n)
    <3>1. ASSUME NEW s \in Small(S, n - 1) PROVE s \in Small(S, n)
      <4>1. s \in SUBSET S /\ s \in SUBSET Conns /\ Cardinality(s) <= n - 1
        BY DEF Small
      <4>2. Cardinality(s) \in Nat
        BY <4>1, PickFacts
      <4>. QED
        BY <1>1, <4>1, <4>2 DEF Small
    <3>. QED
      BY <3>1
  <2>4. \A s \in Small(S, n - 1) : G[s] = F[s]
    BY <2>2, <2>3 DEF Adds
  <2>5. ASSUME NEW s \in Small(S, n), s # {} PROVE s \ {Pick(s)} \in Small(S, n - 1)
    <3>1. s \in SUBSET S /\ s \in SUBSET Conns /\ Cardinality(s) <= n
      BY DEF Small
    <3>2. Cardinality(s) \in Nat /\ Cardinality(s \ {Pick(s)}) = Cardinality(s) - 1
      BY <2>5, <3>1, PickFacts
    <3>. QED
      BY <1>1, <3>1, <3>2 DEF Small
  <2>6. \A s \in Small(S, n) : s # {} => G[s \ {Pick(s)}] = F[s \ {Pick(s)}]
    BY <2>4, <2>5
  <2>. DEFINE H == [s \in Small(S, n) |->
                      IF s = {} THEN 0 ELSE Req[Pick(s)][d] + G[s \ {Pick(s)}]]
  <2>7. \A s \in Small(S, n) : G[s] = H[s]
    BY <2>6
  <2>8. G = H
    <3>1. DOMAIN G = Small(S, n) /\ DOMAIN H = Small(S, n)
      OBVIOUS
    <3>2. G = [s \in Small(S, n) |-> G[s]] /\ H = [s \in Small(S, n) |-> H[s]]
      OBVIOUS
    <3>. HIDE DEF G, H
    <3>. QED
      BY <2>7, <3>2
  <2>9. Adds(G, Small(S, n), d)
    BY <2>8 DEF Adds
  <2>. QED
    BY <1>1, <2>9
<1>. QED
  BY <1>2, <1>3

LEMMA SumAdds ==
    ASSUME NEW S \in SUBSET Conns, NEW d
    PROVE  \E F : Adds(F, SUBSET S, d) /\ SumOf(S, d) = F[S]
<1>1. Small(S, Cardinality(S)) = SUBSET S
  <2>1. ASSUME NEW s \in SUBSET S PROVE Cardinality(s) <= Cardinality(S)
    BY PickFacts, FS_Subset
  <2>. QED
    BY <2>1 DEF Small
<1>2. \E F : Adds(F, SUBSET S, d)
  <2>1. Cardinality(S) \in Nat
    BY PickFacts
  <2>2. \E F : Adds(F, Small(S, Cardinality(S)), d)
    BY <2>1, AddsExists
  <2>. QED
    BY <1>1, <2>2
<1>. DEFINE F == CHOOSE F : Adds(F, SUBSET S, d)
<1>3. Adds(F, SUBSET S, d)
  BY <1>2
<1>4. SumOf(S, d) = F[S]
  BY DEF SumOf, MapThenSumSet, MapThenFoldSet, Adds, Pick
<1>. QED
  BY <1>3, <1>4

\* The equation has one solution, whatever the set it starts from.
LEMMA AddsAgree ==
    ASSUME NEW S \in SUBSET Conns, NEW d \in Dim, NEW F, NEW G,
           Adds(F, SUBSET S, d), Adds(G, SUBSET Conns, d)
    PROVE  F[S] = G[S]
<1>. DEFINE bad == {s \in SUBSET S : F[s] # G[s]}
            T   == {Cardinality(s) : s \in bad}
<1>. SUFFICES ASSUME bad # {} PROVE FALSE
  <2>1. S \in SUBSET S
    OBVIOUS
  <2>. QED
    BY <2>1
<1>1. T \subseteq Nat /\ T # {}
  BY PickFacts
<1>2. PICK n \in T : \A y \in T : n <= y
  <2>. HIDE DEF T
  <2>. QED
    BY <1>1, Least
<1>3. PICK s \in bad : Cardinality(s) = n
  BY <1>2
<1>4. s \in SUBSET S /\ s \in SUBSET Conns
  OBVIOUS
<1>5. s # {}
  BY <1>3, <1>4 DEF Adds
<1>. DEFINE t == s \ {Pick(s)}
<1>6. t \in SUBSET S /\ t \in SUBSET Conns /\ Cardinality(t) = n - 1 /\ n \in Nat
  BY <1>3, <1>4, <1>5, PickFacts
<1>7. t \notin bad
  <2>1. t \in bad => n <= Cardinality(t)
    BY <1>2
  <2>. QED
    BY <1>6, <2>1
<1>8. F[t] = G[t]
  BY <1>6, <1>7
<1>9. F[s] = Req[Pick(s)][d] + F[t] /\ G[s] = Req[Pick(s)][d] + G[t]
  BY <1>4, <1>5 DEF Adds
<1>. QED
  BY <1>3, <1>8, <1>9

\* The solution for all connections: the order in which they are added is immaterial.
LEMMA AddsInsert ==
    ASSUME NEW d \in Dim, NEW G, Adds(G, SUBSET Conns, d)
    PROVE  \A s \in SUBSET Conns : /\ G[s] \in Int
                                   /\ \A x \in s : G[s] = G[s \ {x}] + Req[x][d]
<1>r. \A c \in Conns : Req[c][d] \in Nat
  BY ReqAssumption
<1>. DEFINE good(s) == G[s] \in Int /\ \A x \in s : G[s] = G[s \ {x}] + Req[x][d]
            bad == {s \in SUBSET Conns : ~ good(s)}
            T   == {Cardinality(s) : s \in bad}
<1>. SUFFICES ASSUME bad # {} PROVE FALSE
  OBVIOUS
<1>. HIDE DEF good
<1>1. T \subseteq Nat /\ T # {}
  BY PickFacts
<1>2. PICK n \in T : \A y \in T : n <= y
  <2>. HIDE DEF T
  <2>. QED
    BY <1>1, Least
<1>3. PICK s \in bad : Cardinality(s) = n
  BY <1>2
<1>4. s \in SUBSET Conns /\ n \in Nat
  BY <1>3, PickFacts
<1>5. \A u \in SUBSET Conns : Cardinality(u) = n - 1 \/ Cardinality(u) = n - 2 => good(u)
  <2>1. ASSUME NEW u \in SUBSET Conns, Cardinality(u) = n - 1 \/ Cardinality(u) = n - 2,
               ~ good(u)
        PROVE  FALSE
    <3>1. n <= Cardinality(u)
      BY <1>2, <2>1
    <3>. QED
      BY <1>4, <2>1, <3>1
  <2>. QED
    BY <2>1
<1>6. CASE s = {}
  <2>1. G[s] = 0
    BY <1>4, <1>6 DEF Adds
  <2>. QED
    BY <1>3, <1>6, <2>1 DEF good
<1>7. CASE s # {}
  <2>p. PICK y \in s : y = Pick(s)
    BY <1>4, <1>7, PickFacts
  <2>1. G[s] = Req[y][d] + G[s \ {y}]
    BY <1>4, <1>7, <2>p DEF Adds
  <2>2. s \ {y} \in SUBSET Conns /\ Cardinality(s \ {y}) = n - 1
    BY <1>3, <1>4, <1>7, PickFacts
  <2>3. good(s \ {y})
    BY <1>5, <2>2
  <2>4. G[s] \in Int /\ G[s \ {y}] \in Int
    BY <1>4, <1>r, <2>1, <2>3 DEF good
  <2>5. ASSUME NEW x \in s PROVE G[s] = G[s \ {x}] + Req[x][d]
    <3>1. CASE x = y
      BY <1>4, <1>r, <2>1, <2>4, <3>1
    <3>2. CASE x # y
      <4>. DEFINE v == (s \ {y}) \ {x}
      <4>1. s \ {x} \in SUBSET Conns /\ Cardinality(s \ {x}) = n - 1
        BY <1>3, <1>4, <1>7, PickFacts
      <4>2. good(s \ {x})
        BY <1>5, <4>1
      <4>3. (s \ {x}) \ {y} = v /\ y \in s \ {x} /\ x \in s \ {y}
        BY <3>2
      <4>4. v \in SUBSET Conns /\ Cardinality(v) = n - 2
        <5>1. PICK u \in SUBSET Conns : u = s \ {y}
          BY <2>2
        <5>2. u # {} /\ x \in u /\ v = u \ {x} /\ Cardinality(u) = n - 1
          BY <2>2, <4>3, <5>1
        <5>. HIDE DEF v
        <5>3. Cardinality(v) = Cardinality(u) - 1
          BY <5>2, PickFacts
        <5>4. v \in SUBSET Conns
          BY <5>2
        <5>. QED
          BY <1>4, <5>2, <5>3, <5>4
      <4>5. good(v)
        BY <1>5, <4>4
      <4>. HIDE DEF v
      <4>6. G[s \ {y}] = G[v] + Req[x][d]
        BY <2>3, <4>3 DEF good, v
      <4>7. G[s \ {x}] = G[v] + Req[y][d]
        BY <4>2, <4>3 DEF good
      <4>8. G[v] \in Int /\ Req[x][d] \in Nat /\ Req[y][d] \in Nat
        BY <1>4, <1>r, <4>5 DEF good
      <4>. QED
        BY <2>1, <4>6, <4>7, <4>8
    <3>. QED
      BY <3>1, <3>2
  <2>. QED
    BY <1>3, <2>4, <2>5 DEF good
<1>. QED
  BY <1>6, <1>7

\* What Load needs of a sum: one connection more adds its request.
LEMMA SumFacts ==
    ASSUME NEW d \in Dim
    PROVE  /\ SumOf({}, d) = 0
           /\ \A S \in SUBSET Conns : SumOf(S, d) \in Int
           /\ \A S \in SUBSET Conns : \A x \in S : SumOf(S, d) = SumOf(S \ {x}, d) + Req[x][d]
<1>1. PICK G : Adds(G, SUBSET Conns, d)
  BY SumAdds
<1>2. ASSUME NEW S \in SUBSET Conns PROVE SumOf(S, d) = G[S]
  <2>1. PICK F : Adds(F, SUBSET S, d) /\ SumOf(S, d) = F[S]
    BY SumAdds
  <2>2. F[S] = G[S]
    <3>1. Adds(F, SUBSET S, d) /\ Adds(G, SUBSET Conns, d)
      BY <1>1, <2>1
    <3>. QED
      BY <3>1, AddsAgree
  <2>. QED
    BY <2>1, <2>2
<1>3. G[{}] = 0
  BY <1>1 DEF Adds
<1>4. \A S \in SUBSET Conns : G[S] \in Int /\ \A x \in S : G[S] = G[S \ {x}] + Req[x][d]
  BY <1>1, AddsInsert
<1>5. ASSUME NEW S \in SUBSET Conns, NEW x \in S
      PROVE  SumOf(S, d) = SumOf(S \ {x}, d) + Req[x][d]
  <2>1. S \ {x} \in SUBSET Conns
    OBVIOUS
  <2>2. SumOf(S, d) = G[S] /\ SumOf(S \ {x}, d) = G[S \ {x}]
    BY <1>2, <2>1
  <2>. QED
    BY <1>4, <2>2
<1>. QED
  BY <1>2, <1>3, <1>4, <1>5

--------------------------------------------------------------------------------
(* The balance *)

HeldBy(g) == {c \in Conns : HolderOf(c) = g}

\* The ledger's own balance: what is left and what is held make up the capacity.
Books == \A g \in GPUs, d \in Dim : FreeOf(g)[d] = Cap[g][d] - SumOf(HeldBy(g), d)

\* A sum depends on the state only through its set.
LEMMA SumNext ==
    ASSUME NEW g \in GPUs, NEW d \in Dim, NEW S, S = HeldBy(g)'
    PROVE  SumOf(HeldBy(g), d)' = SumOf(S, d)
  BY DEF SumOf, MapThenSumSet, MapThenFoldSet

LEMMA BooksInit == Init => Books
<1>. SUFFICES ASSUME Init, NEW g \in GPUs, NEW d \in Dim
              PROVE  FreeOf(g)[d] = Cap[g][d] - SumOf(HeldBy(g), d)
  BY DEF Books
<1>1. FreeOf(g) = Cap[g]
  BY DEF Init, FreeOf, Absent
<1>2. w.pc = "idle" /\ NoConn("none").gpu = None
  BY DEF Init, IdleWorker, NoConn
<1>3. \A c \in Conns : HolderOf(c) = None
  BY <1>2 DEF Init, HolderOf, Reserving, Released
<1>4. HeldBy(g) = {}
  BY <1>3, NoneAssumption DEF HeldBy
<1>5. SumOf(HeldBy(g), d) = 0 /\ Cap[g][d] \in Nat
  BY <1>4, SumFacts, CapAssumption
<1>. QED
  BY <1>1, <1>5

LEMMA BooksStep ==
    ASSUME LedgerInv, Books, [Ledger!Next]_<<FreeMap, HolderMap>>
    PROVE  Books'
<1>m. /\ \A g \in GPUs : FreeMap[g] = FreeOf(g) /\ FreeMap'[g] = FreeOf(g)'
      /\ \A c \in Conns : HolderMap[c] = HolderOf(c) /\ HolderMap'[c] = HolderOf(c)'
      /\ FreeMap \in [GPUs -> {FreeOf(g) : g \in GPUs}]
      /\ HolderMap \in [Conns -> {HolderOf(c) : c \in Conns}]
  BY DEF FreeMap, HolderMap
<1>h. \A c \in Conns : HolderOf(c) \in GPUs \cup {None}
  BY LedgerParts DEF HolderOf, ConnObj
<1>i. \A g \in GPUs : HeldBy(g) \in SUBSET Conns
  BY DEF HeldBy
<1>r. \A c \in Conns, d \in Dim : Req[c][d] \in Nat
  BY ReqAssumption
<1>k. \A g \in GPUs, d \in Dim : /\ SumOf(HeldBy(g), d) \in Int /\ Cap[g][d] \in Nat
                                 /\ FreeOf(g)[d] = Cap[g][d] - SumOf(HeldBy(g), d)
  BY <1>i, SumFacts, CapAssumption DEF Books
<1>1. CASE FreeMap' = FreeMap /\ HolderMap' = HolderMap
  <2>1. \A g \in GPUs : FreeOf(g)' = FreeOf(g)
    BY <1>1, <1>m
  <2>2. \A c \in Conns : HolderOf(c)' = HolderOf(c)
    BY <1>1, <1>m
  <2>3. \A g \in GPUs : HeldBy(g)' = HeldBy(g)
    BY <2>2 DEF HeldBy
  <2>. QED
    BY <2>1, <2>3, SumNext DEF Books
<1>2. ASSUME NEW c \in Conns, NEW g \in GPUs, Ledger!Reserve(c, g) PROVE Books'
  <2>1. /\ HolderMap[c] = None
        /\ FreeMap' = [FreeMap EXCEPT ![g] = [d \in Dim |-> @[d] - Req[c][d]]]
        /\ HolderMap' = [HolderMap EXCEPT ![c] = g]
    BY <1>2 DEF Ledger!Reserve, FreeMap, HolderMap, FreeOf, HolderOf
  <2>2. /\ \A d \in Dim : FreeOf(g)'[d] = FreeOf(g)[d] - Req[c][d]
        /\ \A h \in GPUs \ {g} : FreeOf(h)' = FreeOf(h)
        /\ HolderOf(c) = None /\ HolderOf(c)' = g
        /\ \A e \in Conns \ {c} : HolderOf(e)' = HolderOf(e)
    BY <1>m, <2>1
  <2>3. \A h \in GPUs \ {g} : HeldBy(h)' = HeldBy(h)
    BY <2>2, NoneAssumption DEF HeldBy
  <2>4. HeldBy(g)' \in SUBSET Conns /\ c \in HeldBy(g)' /\ HeldBy(g)' \ {c} = HeldBy(g)
    BY <2>2, NoneAssumption DEF HeldBy
  <2>s. PICK S \in SUBSET Conns : S = HeldBy(g)'
    BY <2>4
  <2>5. \A d \in Dim : SumOf(S, d) = SumOf(HeldBy(g), d) + Req[c][d]
    BY <2>4, <2>s, SumFacts
  <2>6. ASSUME NEW d \in Dim PROVE FreeOf(g)'[d] = Cap[g][d] - SumOf(S, d)
    BY <1>k, <1>r, <2>2, <2>5
  <2>7. ASSUME NEW h \in GPUs, NEW d \in Dim
        PROVE  (FreeOf(h)[d] = Cap[h][d] - SumOf(HeldBy(h), d))'
    <3>1. CASE h = g
      BY <2>6, <2>s, <3>1, SumNext
    <3>2. CASE h # g
      BY <1>k, <2>2, <2>3, <3>2, SumNext
    <3>. QED
      BY <3>1, <3>2
  <2>. QED
    BY <2>7 DEF Books
<1>3. ASSUME NEW c \in Conns, Ledger!GiveBack(c) PROVE Books'
  <2>1. /\ HolderMap[c] # None
        /\ FreeMap' = [FreeMap EXCEPT ![HolderMap[c]] = [d \in Dim |-> @[d] + Req[c][d]]]
        /\ HolderMap' = [HolderMap EXCEPT ![c] = None]
    BY <1>3, Zenon DEF Ledger!GiveBack, FreeMap, HolderMap, FreeOf, HolderOf
  <2>g. PICK g \in GPUs : g = HolderMap[c]
    BY <1>h, <1>m, <2>1
  <2>2. /\ \A d \in Dim : FreeOf(g)'[d] = FreeOf(g)[d] + Req[c][d]
        /\ \A h \in GPUs \ {g} : FreeOf(h)' = FreeOf(h)
        /\ HolderOf(c) = g /\ HolderOf(c)' = None
        /\ \A e \in Conns \ {c} : HolderOf(e)' = HolderOf(e)
    BY <1>m, <2>1, <2>g
  <2>3. \A h \in GPUs \ {g} : HeldBy(h)' = HeldBy(h)
    BY <2>2, NoneAssumption DEF HeldBy
  <2>4. c \in HeldBy(g) /\ HeldBy(g)' = HeldBy(g) \ {c}
    BY <2>2, NoneAssumption DEF HeldBy
  <2>s. PICK S \in SUBSET Conns : S = HeldBy(g)'
    BY <2>4, <1>i
  <2>5. \A d \in Dim : SumOf(HeldBy(g), d) = SumOf(S, d) + Req[c][d] /\ SumOf(S, d) \in Int
    BY <1>i, <2>4, <2>s, SumFacts
  <2>6. ASSUME NEW d \in Dim PROVE FreeOf(g)'[d] = Cap[g][d] - SumOf(S, d)
    BY <1>k, <1>r, <2>2, <2>5
  <2>7. ASSUME NEW h \in GPUs, NEW d \in Dim
        PROVE  (FreeOf(h)[d] = Cap[h][d] - SumOf(HeldBy(h), d))'
    <3>1. CASE h = g
      BY <2>6, <2>s, <3>1, SumNext
    <3>2. CASE h # g
      BY <1>k, <2>2, <2>3, <3>2, SumNext
    <3>. QED
      BY <3>1, <3>2
  <2>. QED
    BY <2>7 DEF Books
<1>. QED
  BY <1>1, <1>2, <1>3 DEF Ledger!Next

\* As long as nothing fails, the persisted Available of a GPU is between reconciles
\* its capacity less the requests of the connections bound to it, for any number of
\* connections, and the scheduler agrees once the informers are idle.
THEOREM BooksBalance == Kinds = {} /\ Spec => []LedgerBalanced
<1>1. LedgerInv /\ Books /\ [Next]_vars => Books'
  BY RefinesStep, BooksStep
<1>2. LedgerInv /\ Books => LedgerBalanced
  <2>. SUFFICES ASSUME LedgerInv, Books, w.pc = "idle", NEW g \in GPUs, gpu[g].state = "ready"
                PROVE  /\ \A d \in Dim : gpu[g].free[d] = Cap[g][d] - Load(g, d)
                       /\ Drained => sched[g] = gpu[g]
    BY DEF LedgerBalanced
  <2>1. ASSUME NEW d \in Dim PROVE gpu[g].free[d] = Cap[g][d] - Load(g, d)
    <3>1. \A c \in Conns : HolderOf(c) = conn[c].gpu
      BY HolderElsewhere
    <3>2. \A c \in Conns : Holds(c, g) <=> HolderOf(c) = g
      BY <3>1, LedgerParts, NoneAssumption DEF Holds, FinalizerNeeded
    <3>3. {c \in Conns : Holds(c, g)} = HeldBy(g)
      BY <3>2 DEF HeldBy
    <3>4. Load(g, d) = SumOf(HeldBy(g), d)
      BY <3>3 DEF Load, SumOf
    <3>. QED
      BY <3>4 DEF Books, FreeOf
  <2>2. Drained => sched[g] = gpu[g]
    <3>1. ~InHand(g)
      BY DEF InHand, AtWork
    <3>. QED
      BY <3>1, LedgerParts DEF GPUChain, Drained
  <2>. QED
    BY <2>1, <2>2
<1>. QED
  BY <1>1, <1>2, BooksInit, LedgerInit, LedgerStep, PTL DEF Spec
=================================================================================
