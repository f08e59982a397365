-------------------------- MODULE GPUAllocation_proofs --------------------------
(***************************************************************************)
(* Proofs about GPUAllocation, for any connections, GPUs, requests,        *)
(* capacities and numbers of faults.                                       *)
(***************************************************************************)
EXTENDS GPUAllocation, TLAPS

\* The type invariant, with what the worker's steps need to preserve it.
TypeInv == TypeOK /\ (w.pc # "idle" => w.c \in Conns)

\* The objects written by the reconciler and the environment have their types.
LEMMA ObjectTypes ==
    /\ Zero \in Vector /\ Absent \in GPUObj /\ Bare \in GPUObj
    /\ \A f \in Vector : Ready(f) \in GPUObj
    /\ \A g \in GPUs : Cap[g] \in Vector
    /\ \A s \in {"none", "live", "deleting", "gone"} : NoConn(s) \in ConnObj
    /\ NoPod \in PodObj
    /\ IdleWorker \in Worker
<1>1. Zero \in Vector
  BY DEF Zero, Vector
<1>2. Absent \in GPUObj /\ Bare \in GPUObj /\ \A f \in Vector : Ready(f) \in GPUObj
  BY <1>1 DEF Absent, Bare, Ready, GPUObj
<1>3. \A g \in GPUs : Cap[g] \in Vector
  BY CapAssumption DEF Vector, Dim
<1>4. \A s \in {"none", "live", "deleting", "gone"} : NoConn(s) \in ConnObj
  BY DEF NoConn, ConnObj, Phases
<1>5. NoPod \in PodObj
  BY DEF NoPod, PodObj
<1>6. IdleWorker \in Worker
  BY <1>2, <1>4 DEF IdleWorker, Worker, Steps
<1>. QED
  BY <1>1, <1>2, <1>3, <1>4, <1>5, <1>6

\* Sums and differences of amounts are amounts.
LEMMA VectorTypes ==
    ASSUME NEW f \in Vector, NEW c \in Conns
    PROVE  Plus(f, Req[c]) \in Vector /\ Minus(f, Req[c]) \in Vector
  BY ReqAssumption DEF Vector, Plus, Minus

\* A write through the API server of an object of the right type keeps the types.
LEMMA PutTypes ==
    ASSUME TypeOK
    PROVE  /\ \A c \in Conns, o \in ConnObj : PutConn(c, o)
                => /\ conn' \in [Conns -> ConnObj] /\ connWatch' \in [Conns -> Seq(ConnObj)]
                   /\ connCache' \in [Conns -> ConnObj]
           /\ \A g \in GPUs, o \in GPUObj : PutGPU(g, o)
                => /\ gpu' \in [GPUs -> GPUObj] /\ gpuWatch' \in [GPUs -> Seq(GPUObj)]
           /\ \A g \in GPUs, f \in Vector : SetAvailable(g, f)
                => /\ sched' \in [GPUs -> GPUObj] /\ gpuStore' \in [GPUs -> GPUObj]
                   /\ gpuNotif' \in [GPUs -> Seq(GPUObj)]
<1>1. ASSUME NEW c \in Conns, NEW o \in ConnObj, PutConn(c, o)
      PROVE  /\ conn' \in [Conns -> ConnObj] /\ connWatch' \in [Conns -> Seq(ConnObj)]
             /\ connCache' \in [Conns -> ConnObj]
  BY <1>1 DEF TypeOK, PutConn
<1>2. ASSUME NEW g \in GPUs, NEW o \in GPUObj, PutGPU(g, o)
      PROVE  gpu' \in [GPUs -> GPUObj] /\ gpuWatch' \in [GPUs -> Seq(GPUObj)]
  BY <1>2 DEF TypeOK, PutGPU
<1>3. ASSUME NEW g \in GPUs, NEW f \in Vector, SetAvailable(g, f)
      PROVE  /\ sched' \in [GPUs -> GPUObj] /\ gpuStore' \in [GPUs -> GPUObj]
             /\ gpuNotif' \in [GPUs -> Seq(GPUObj)]
  BY <1>3 DEF TypeOK, SetAvailable, GPUObj
<1>. QED
  BY <1>1, <1>2, <1>3

\* Every step of the operator and of the cluster preserves the types.
LEMMA TypeStep == TypeInv /\ [Next]_vars => TypeInv'
<1>. SUFFICES ASSUME TypeInv, [Next]_vars PROVE TypeInv'
  OBVIOUS
<1>. USE ObjectTypes
<1>t. TypeOK
  BY DEF TypeInv
<1>f. \A f : Spend(f) => left' \in Nat
  BY <1>t DEF Spend, TypeOK
<1>1. ASSUME NEW c \in Conns, Start(c) PROVE TypeInv'
  <2>1. left' \in Nat
    BY <1>1, <1>f, <1>t DEF Start, TypeOK
  <2>a. connCache[c] \in ConnObj /\ (connWatch[c] = <<>>) \in BOOLEAN
    BY <1>t DEF TypeOK
  <2>b. FirstStep(connCache[c]) \in Steps
    BY DEF FirstStep, AfterFinalizer, Steps
  <2>2. w' \in Worker /\ (w'.pc # "idle" => w'.c \in Conns)
    <3>1. CASE w' = IdleWorker
      BY <3>1 DEF IdleWorker
    <3>2. CASE w' = [IdleWorker EXCEPT !.pc = FirstStep(connCache[c]), !.c = c,
                       !.obj = connCache[c], !.fresh = (connWatch[c] = <<>>)]
      BY <3>2, <2>a, <2>b DEF Worker
    <3>. QED
      BY <1>1, <3>1, <3>2 DEF Start
  <2>. QED
    BY <1>1, <1>t, <2>1, <2>2 DEF Start, TypeInv, TypeOK, connVars, gpuVars, cacheVars, podVars
<1>2. CASE AddFinalizer
  <2>1. [w.obj EXCEPT !.fin = TRUE] \in ConnObj /\ w.c \in Conns
    BY <1>2, <1>t DEF AddFinalizer, TypeInv, TypeOK, Worker, ConnObj
  <2>2. w' \in Worker /\ (w'.pc # "idle" => w'.c \in Conns) /\ queue' \subseteq Conns
    <3>1. CASE Requeue
      BY <3>1, <1>t, <2>1 DEF Requeue, IdleWorker, TypeOK
    <3>. DEFINE o == [w.obj EXCEPT !.fin = TRUE]
    <3>2. CASE w' = [w EXCEPT !.obj = o, !.pc = AfterFinalizer(o)] /\ UNCHANGED queue
      <4>1. AfterFinalizer(o) \in Steps
        BY DEF AfterFinalizer, Steps
      <4>. HIDE DEF o
      <4>. QED
        BY <3>2, <1>t, <2>1, <4>1 DEF TypeOK, Worker, o
    <3>. QED
      BY <1>2, <3>1, <3>2 DEF AddFinalizer
  <2>3. /\ conn' \in [Conns -> ConnObj] /\ connWatch' \in [Conns -> Seq(ConnObj)]
        /\ connCache' \in [Conns -> ConnObj]
    BY <1>2, <1>t, <2>1, PutTypes DEF AddFinalizer, TypeOK, connVars
  <2>. QED
    BY <1>2, <1>t, <2>2, <2>3 DEF AddFinalizer, TypeInv, TypeOK, gpuVars, cacheVars, podVars
<1>3. ASSUME NEW g \in GPUs, SchedulePick(g) PROVE TypeInv'
  <2>1. w.c \in Conns /\ sched[g].free \in Vector
    BY <1>3, <1>t DEF SchedulePick, TypeInv, TypeOK, GPUObj
  <2>. DEFINE f == Minus(sched[g].free, Req[w.c])
  <2>2. f \in Vector
    BY <2>1, VectorTypes
  <2>3. w' \in Worker /\ w'.c \in Conns
    <3>. DEFINE o == [w.obj EXCEPT !.phase = "Starting", !.gpu = g]
    <3>1. o \in ConnObj
      BY <1>t DEF TypeOK, Worker, ConnObj, Phases
    <3>2. w' = [w EXCEPT !.pc = "startWorker", !.obj = o, !.gpu = g, !.val = Ready(f)]
      BY <1>3, <1>t DEF SchedulePick, TypeOK, Worker
    <3>3. Ready(f) \in GPUObj
      BY <2>2
    <3>. HIDE DEF o, f
    <3>. QED
      BY <1>t, <2>1, <3>1, <3>2, <3>3 DEF TypeOK, Worker, Steps
  <2>4. /\ sched' \in [GPUs -> GPUObj] /\ gpuStore' \in [GPUs -> GPUObj]
        /\ gpuNotif' \in [GPUs -> Seq(GPUObj)]
    BY <1>3, <1>t, <2>2, PutTypes DEF SchedulePick
  <2>. QED
    BY <1>3, <1>t, <2>3, <2>4 DEF SchedulePick, TypeInv, TypeOK, connVars, gpuVars, podVars
<1>4. CASE ScheduleNone
  <2>. DEFINE o == [w.obj EXCEPT !.phase = "Pending"]
  <2>1. w.c \in Conns /\ o \in ConnObj
    BY <1>4, <1>t DEF ScheduleNone, TypeInv, TypeOK, Worker, ConnObj, Phases
  <2>. HIDE DEF o
  <2>2. w' \in Worker /\ w'.c \in Conns
    <3>1. w' = [w EXCEPT !.pc = "getGPU", !.obj = o]
      BY <1>4 DEF ScheduleNone, o
    <3>. QED
      BY <1>t, <2>1, <3>1 DEF TypeOK, Worker, Steps
  <2>. QED
    BY <1>4, <1>t, <2>2 DEF ScheduleNone, TypeInv, TypeOK, connVars, gpuVars, cacheVars, podVars
<1>r. Requeue /\ w.pc # "idle"
        => w' \in Worker /\ w'.pc = "idle" /\ queue' \subseteq Conns
  BY <1>t DEF Requeue, IdleWorker, TypeInv, TypeOK
<1>5. CASE SchedulePanic \/ Abort
  <2>1. w' \in Worker /\ w'.pc = "idle" /\ queue' \subseteq Conns /\ left' \in Nat
    BY <1>5, <1>r, <1>f, <1>t DEF SchedulePanic, Abort, TypeOK
  <2>. QED
    BY <1>5, <1>t, <2>1
    DEF SchedulePanic, Abort, TypeInv, TypeOK, connVars, gpuVars, cacheVars, podVars
<1>6. CASE GetGPU
  <2>1. w.obj.gpu # None => w.obj.gpu \in GPUs /\ gpuStore[w.obj.gpu] \in GPUObj
    BY <1>t DEF TypeOK, Worker, ConnObj
  <2>2. w' \in Worker /\ w'.c \in Conns
    BY <1>6, <1>t, <2>1 DEF GetGPU, Goto, InStore, TypeInv, TypeOK, Worker, Steps
  <2>. QED
    BY <1>6, <1>t, <2>2 DEF GetGPU, TypeInv, TypeOK, connVars, gpuVars, cacheVars, podVars
<1>7. CASE StartWorker
  <2>1. w.c \in Conns /\ w.pc # "idle"
    BY <1>7 DEF StartWorker, TypeInv
  <2>. DEFINE ph == IF podCache[w.c].phase = "Running" THEN "Running" ELSE w.obj.phase
  <2>2. CASE /\ w' = [w EXCEPT !.pc = "updateConn", !.obj.phase = ph]
             /\ UNCHANGED <<pod, queue>>
    <3>1. ph \in Phases
      BY <1>t DEF TypeOK, Worker, ConnObj, Phases
    <3>. HIDE DEF ph
    <3>2. w' \in Worker /\ w'.c \in Conns
      BY <1>t, <2>1, <2>2, <3>1 DEF TypeOK, Worker, Steps, ConnObj
    <3>. QED
      BY <1>7, <1>t, <2>2, <3>2 DEF StartWorker, TypeInv, TypeOK, connVars, gpuVars, cacheVars
  <2>3. CASE /\ pod' = [pod EXCEPT ![w.c] = [phase |-> "Pending", gpu |-> w.gpu]]
             /\ Goto("updateConn") /\ UNCHANGED queue
    <3>1. [phase |-> "Pending", gpu |-> w.gpu] \in PodObj
      BY <1>t DEF TypeOK, Worker, PodObj
    <3>2. pod' \in [Conns -> PodObj]
      BY <1>t, <2>3, <3>1 DEF TypeOK
    <3>3. w' \in Worker /\ w'.c \in Conns
      BY <1>t, <2>1, <2>3 DEF Goto, TypeOK, Worker, Steps
    <3>. QED
      BY <1>7, <1>t, <2>3, <3>2, <3>3
      DEF StartWorker, TypeInv, TypeOK, connVars, gpuVars, cacheVars
  <2>4. CASE Requeue /\ UNCHANGED pod
    BY <1>7, <1>t, <1>r, <2>1, <2>4
    DEF StartWorker, TypeInv, TypeOK, connVars, gpuVars, cacheVars
  <2>. QED
    BY <1>7, <2>2, <2>3, <2>4 DEF StartWorker
<1>a. ASSUME NEW b \in BOOLEAN, AfterUpdate(b), w.pc # "idle"
      PROVE  w' \in Worker /\ (w'.pc # "idle" => w'.c \in Conns) /\ queue' \subseteq Conns
  <2>1. CASE w' = IdleWorker /\ UNCHANGED queue
    BY <2>1, <1>t DEF TypeOK, IdleWorker
  <2>2. CASE w' = [w EXCEPT !.pc = "dropFinalizer", !.fresh = b] /\ UNCHANGED queue
    BY <2>2, <1>t, <1>a DEF TypeInv, TypeOK, Worker, Steps
  <2>. QED
    BY <1>a, <1>r, <2>1, <2>2 DEF AfterUpdate, Return
<1>8. CASE UpdateConn
  <2>1. w.c \in Conns /\ w.pc # "idle"
    BY <1>8 DEF UpdateConn, TypeInv
  <2>2. CASE Requeue /\ UNCHANGED connVars
    BY <1>8, <1>t, <1>r, <2>1, <2>2
    DEF UpdateConn, TypeInv, TypeOK, connVars, gpuVars, cacheVars, podVars
  <2>3. CASE ~(Requeue /\ UNCHANGED connVars)
    <3>. DEFINE o == [conn[w.c] EXCEPT !.phase = w.obj.phase, !.gpu = w.obj.gpu]
                b == w.fresh /\ o = conn[w.c]
    <3>1. o \in ConnObj /\ b \in BOOLEAN
      BY <1>t, <2>1 DEF TypeOK, Worker, ConnObj
    <3>2. /\ PutConn(w.c, o)
          /\ IF w.gpu = None THEN AfterUpdate(b)
             ELSE w' = [w EXCEPT !.pc = "updateGPU", !.fresh = b] /\ UNCHANGED queue
          /\ UNCHANGED <<gpuVars, cacheVars, podVars, pool, left>>
      BY <1>8, <2>3 DEF UpdateConn
    <3>3. /\ conn' \in [Conns -> ConnObj] /\ connWatch' \in [Conns -> Seq(ConnObj)]
          /\ connCache' \in [Conns -> ConnObj]
      BY <1>t, <2>1, <3>1, <3>2, PutTypes
    <3>. HIDE DEF b
    <3>4. w' \in Worker /\ (w'.pc # "idle" => w'.c \in Conns) /\ queue' \subseteq Conns
      <4>1. CASE AfterUpdate(b)
        BY <1>a, <2>1, <3>1, <4>1
      <4>2. CASE w' = [w EXCEPT !.pc = "updateGPU", !.fresh = b] /\ UNCHANGED queue
        BY <1>t, <2>1, <3>1, <4>2 DEF TypeOK, Worker, Steps
      <4>. QED
        BY <3>2, <4>1, <4>2
    <3>. QED
      BY <1>t, <3>2, <3>3, <3>4 DEF TypeInv, TypeOK, gpuVars, cacheVars, podVars
  <2>. QED
    BY <1>8, <2>2, <2>3 DEF UpdateConn
<1>9. CASE UpdateGPU
  <2>1. w.c \in Conns /\ w.pc # "idle" /\ w.fresh \in BOOLEAN /\ w.val \in GPUObj
    BY <1>9, <1>t DEF UpdateGPU, TypeInv, TypeOK, Worker
  <2>2. InStore(w.gpu) => w.gpu \in GPUs
    BY <1>t DEF InStore, TypeOK, Worker
  <2>3. w' \in Worker /\ (w'.pc # "idle" => w'.c \in Conns) /\ queue' \subseteq Conns
    <3>1. CASE AfterUpdate(w.fresh)
      BY <1>a, <2>1, <3>1
    <3>2. CASE Goto("updateConn") /\ UNCHANGED <<gpuVars, queue>>
      BY <1>t, <2>1, <3>2 DEF Goto, TypeOK, Worker, Steps
    <3>3. CASE Requeue
      BY <1>r, <2>1, <3>3
    <3>. QED
      BY <1>9, <3>1, <3>2, <3>3 DEF UpdateGPU
  <2>4. gpu' \in [GPUs -> GPUObj] /\ gpuWatch' \in [GPUs -> Seq(GPUObj)]
    <3>1. CASE UNCHANGED gpuVars
      BY <1>t, <3>1 DEF gpuVars, TypeOK
    <3>2. CASE InStore(w.gpu) /\ PutGPU(w.gpu, w.val)
      BY <1>t, <2>1, <2>2, <3>2, PutTypes
    <3>. QED
      BY <1>9, <3>1, <3>2 DEF UpdateGPU, gpuVars
  <2>. QED
    BY <1>9, <1>t, <2>3, <2>4 DEF UpdateGPU, TypeInv, TypeOK, connVars, cacheVars, podVars
<1>10. CASE Release
  <2>1. w.c \in Conns /\ w.pc # "idle"
    BY <1>10 DEF Release, TypeInv
  <2>. DEFINE g == w.obj.gpu
              f == Plus(sched[g].free, Req[w.c])
  <2>2. g \in GPUs \cup {None} /\ (InStore(g) => g \in GPUs)
    BY <1>t DEF InStore, TypeOK, Worker, ConnObj
  <2>3. g \in GPUs => f \in Vector
    BY <1>t, <2>1, VectorTypes DEF TypeOK, GPUObj
  <2>. HIDE DEF f
  <2>4. CASE ~InStore(g) /\ w' = [w EXCEPT !.pc = "dropFinalizer", !.freed = g]
             /\ UNCHANGED <<cacheVars, queue>>
    BY <1>10, <1>t, <2>1, <2>2, <2>4
    DEF Release, TypeInv, TypeOK, Worker, Steps, connVars, gpuVars, cacheVars, podVars
  <2>5. CASE /\ InStore(g) /\ SetAvailable(g, f) /\ UNCHANGED queue
             /\ w' = [w EXCEPT !.pc = "updateConn", !.gpu = g, !.val = Ready(f), !.freed = g]
    <3>1. w' \in Worker /\ w'.c \in Conns
      BY <1>t, <2>1, <2>2, <2>3, <2>5 DEF TypeOK, Worker, Steps
    <3>2. /\ sched' \in [GPUs -> GPUObj] /\ gpuStore' \in [GPUs -> GPUObj]
          /\ gpuNotif' \in [GPUs -> Seq(GPUObj)]
      BY <1>t, <2>2, <2>3, <2>5, PutTypes
    <3>. QED
      BY <1>10, <1>t, <2>5, <3>1, <3>2
      DEF Release, TypeInv, TypeOK, connVars, gpuVars, podVars
  <2>6. CASE Requeue /\ UNCHANGED cacheVars
    BY <1>10, <1>t, <1>r, <2>1, <2>6
    DEF Release, TypeInv, TypeOK, connVars, gpuVars, cacheVars, podVars
  <2>. QED
    BY <1>10, <2>4, <2>5, <2>6 DEF Release, f
<1>11. CASE DropFinalizer
  <2>1. w.c \in Conns /\ w.pc # "idle"
    BY <1>11 DEF DropFinalizer, TypeInv
  <2>2. w' \in Worker /\ w'.pc = "idle" /\ queue' \subseteq Conns
    <3>1. CASE Return
      BY <1>t, <3>1 DEF Return, TypeOK, IdleWorker
    <3>. QED
      BY <1>11, <1>r, <2>1, <3>1 DEF DropFinalizer
  <2>3. /\ conn' \in [Conns -> ConnObj] /\ connWatch' \in [Conns -> Seq(ConnObj)]
        /\ connCache' \in [Conns -> ConnObj]
    BY <1>11, <1>t, <2>1, PutTypes DEF DropFinalizer, TypeOK, connVars
  <2>. QED
    BY <1>11, <1>t, <2>2, <2>3 DEF DropFinalizer, TypeInv, TypeOK, gpuVars, cacheVars, podVars
<1>12. CASE Crash
  <2>1. connWatch' \in [Conns -> Seq(ConnObj)] /\ gpuWatch' \in [GPUs -> Seq(GPUObj)]
    BY <1>12 DEF Crash
  <2>2. gpuNotif' \in [GPUs -> Seq(GPUObj)] /\ sched' \in [GPUs -> GPUObj]
    BY <1>12, <1>t DEF Crash, TypeOK
  <2>3. w' \in Worker /\ w'.pc = "idle" /\ queue' \subseteq Conns /\ left' \in Nat
    BY <1>12, <1>f DEF Crash, IdleWorker
  <2>. QED
    BY <1>12, <1>t, <2>1, <2>2, <2>3 DEF Crash, TypeInv, TypeOK
<1>13. CASE PoolChange
  BY <1>13, <1>t, <1>f
  DEF PoolChange, TypeInv, TypeOK, connVars, gpuVars, cacheVars, podVars
<1>14. ASSUME NEW c \in Conns, ConnEvent(c) PROVE TypeInv'
  BY <1>14, <1>t DEF ConnEvent, TypeInv, TypeOK, gpuVars, cacheVars, podVars
<1>15. ASSUME NEW c \in Conns,
              PodEvent(c) \/ RunPod(c) \/ CollectPod(c) \/ LosePod(c)
       PROVE  TypeInv'
  <2>1. pod' \in [Conns -> PodObj] /\ podCache' \in [Conns -> PodObj] /\ left' \in Nat
    <3>1. \/ UNCHANGED pod \/ pod' = [pod EXCEPT ![c] = NoPod]
          \/ pod' = [pod EXCEPT ![c].phase = "Running"]
      BY <1>15 DEF PodEvent, RunPod, CollectPod, LosePod
    <3>0. [pod[c] EXCEPT !.phase = "Running"] \in PodObj
      BY <1>t DEF TypeOK, PodObj
    <3>2. pod' \in [Conns -> PodObj]
      BY <1>t, <3>0, <3>1 DEF TypeOK
    <3>3. podCache' \in [Conns -> PodObj] /\ left' \in Nat
      BY <1>15, <1>t, <1>f DEF PodEvent, RunPod, CollectPod, LosePod, TypeOK
    <3>. QED
      BY <3>2, <3>3
  <2>. QED
    BY <1>15, <1>t, <2>1 DEF PodEvent, RunPod, CollectPod, LosePod, TypeInv, TypeOK,
       connVars, gpuVars, cacheVars
<1>16. ASSUME NEW c \in Conns, CreateConn(c) \/ DeleteConn(c) PROVE TypeInv'
  <2>1. [conn[c] EXCEPT !.state = "deleting"] \in ConnObj
    BY <1>t DEF TypeOK, ConnObj
  <2>2. /\ conn' \in [Conns -> ConnObj] /\ connWatch' \in [Conns -> Seq(ConnObj)]
        /\ connCache' \in [Conns -> ConnObj]
    BY <1>16, <1>t, <2>1, PutTypes DEF CreateConn, DeleteConn
  <2>3. w' \in Worker /\ (w'.pc # "idle" => w'.c \in Conns)
    <3>1. CASE CreateConn(c)
      BY <3>1 DEF CreateConn, TypeInv, TypeOK
    <3>2. CASE DeleteConn(c)
      <4>1. (w.fresh /\ w.c # c) \in BOOLEAN
        OBVIOUS
      <4>. QED
        BY <3>2, <4>1, <1>t DEF DeleteConn, Outdate, TypeInv, TypeOK, Worker
    <3>. QED
      BY <1>16, <3>1, <3>2
  <2>. QED
    BY <1>16, <1>t, <2>2, <2>3
    DEF CreateConn, DeleteConn, TypeInv, TypeOK, gpuVars, cacheVars, podVars
<1>17. ASSUME NEW g \in GPUs, GPUEvent(g) \/ GPUNotify(g) PROVE TypeInv'
  <2>1. CASE GPUEvent(g)
    <3>1. Head(gpuWatch[g]) \in GPUObj
      BY <2>1, <1>t DEF GPUEvent, TypeOK
    <3>2. /\ gpuStore' \in [GPUs -> GPUObj] /\ gpuNotif' \in [GPUs -> Seq(GPUObj)]
          /\ gpuWatch' \in [GPUs -> Seq(GPUObj)]
      BY <2>1, <1>t, <3>1 DEF GPUEvent, TypeOK
    <3>. QED
      BY <2>1, <1>t, <3>2 DEF GPUEvent, TypeInv, TypeOK, connVars, podVars
  <2>2. CASE GPUNotify(g)
    BY <2>2, <1>t DEF GPUNotify, OnEvent, TypeInv, TypeOK, connVars, gpuVars, podVars
  <2>. QED
    BY <1>17, <2>1, <2>2
<1>18. ASSUME NEW g \in GPUs, DiscoverCreate(g) \/ DiscoverPatch(g) \/ LoseGPU(g)
       PROVE  TypeInv'
  <2>1. gpu' \in [GPUs -> GPUObj] /\ gpuWatch' \in [GPUs -> Seq(GPUObj)]
    BY <1>18, <1>t, PutTypes DEF DiscoverCreate, DiscoverPatch, LoseGPU
  <2>. QED
    BY <1>18, <1>t, <1>f, <2>1
    DEF DiscoverCreate, DiscoverPatch, LoseGPU, TypeInv, TypeOK, connVars, cacheVars, podVars
<1>19. CASE UNCHANGED vars
  BY <1>19, <1>t DEF vars, TypeInv, TypeOK, connVars, gpuVars, cacheVars, podVars
<1>. QED
  BY <1>1, <1>2, <1>3, <1>4, <1>5, <1>6, <1>7, <1>8, <1>9, <1>10, <1>11, <1>12, <1>13,
     <1>14, <1>15, <1>16, <1>17, <1>18, <1>19 DEF Next, WorkerStep, ConnNext, GPUNext

\* The operator starts with empty caches and an empty scheduler.
LEMMA TypeInit == Init => TypeInv
  BY ObjectTypes, FaultAssumption DEF Init, TypeInv, TypeOK, IdleWorker

\* Every variable keeps its type, whatever the constants.
THEOREM TypeCorrect == Spec => []TypeOK
<1>1. TypeInv => TypeOK
  BY DEF TypeInv
<1>. QED
  BY <1>1, TypeInit, TypeStep, PTL DEF Spec

--------------------------------------------------------------------------------
(* Availability *)

NotNegative(o) == \A d \in Dim : o.free[d] >= 0

\* AvailableNotNegative, and the amount the worker is about to write.
AvailInv == TypeInv /\ AvailableNotNegative /\ NotNegative(w.val)

\* No step hands out more than the scheduler's object, or a copy of it, has left.
LEMMA AvailStep == AvailInv /\ [Next]_vars => AvailInv'
<1>. SUFFICES ASSUME AvailInv, [Next]_vars PROVE AvailInv'
  OBVIOUS
<1>t. TypeInv /\ TypeOK /\ TypeInv'
  BY TypeStep DEF AvailInv, TypeInv
<1>z. NotNegative(Absent) /\ NotNegative(Bare) /\ \A g \in GPUs : NotNegative(Ready(Cap[g]))
  BY CapAssumption DEF NotNegative, Absent, Bare, Ready, Zero
<1>n. /\ \A g \in GPUs : NotNegative(sched[g]) /\ NotNegative(gpuStore[g]) /\ NotNegative(gpu[g])
      /\ \A g \in GPUs : \A i \in DOMAIN gpuWatch[g] : NotNegative(gpuWatch[g][i])
      /\ \A g \in GPUs : \A i \in DOMAIN gpuNotif[g] : NotNegative(gpuNotif[g][i])
      /\ NotNegative(w.val)
  BY DEF AvailInv, AvailableNotNegative, NotNegative
<1>. DEFINE SchedOK == \A g \in GPUs : NotNegative(sched[g]) /\ NotNegative(gpuStore[g])
            APIOK   == \A g \in GPUs : NotNegative(gpu[g])
            WatchOK == \A g \in GPUs : \A i \in DOMAIN gpuWatch[g] : NotNegative(gpuWatch[g][i])
            NotifOK == \A g \in GPUs : \A i \in DOMAIN gpuNotif[g] : NotNegative(gpuNotif[g][i])
<1>q. SchedOK' /\ APIOK' /\ WatchOK' /\ NotifOK' /\ NotNegative(w'.val) => AvailInv'
  BY <1>t DEF AvailInv, AvailableNotNegative, NotNegative
<1>c. UNCHANGED cacheVars => SchedOK' /\ NotifOK'
  BY <1>n DEF cacheVars
<1>g. UNCHANGED gpuVars => APIOK' /\ WatchOK'
  BY <1>n DEF gpuVars
<1>p. ASSUME NEW g \in GPUs, NEW o \in GPUObj, PutGPU(g, o), NotNegative(o)
      PROVE  APIOK' /\ WatchOK'
  <2>1. APIOK'
    BY <1>p, <1>n, <1>t DEF PutGPU, TypeOK
  <2>2. ASSUME NEW h \in GPUs, NEW i \in DOMAIN gpuWatch'[h] PROVE NotNegative(gpuWatch'[h][i])
    BY <1>p, <1>n, <1>t, <2>2 DEF PutGPU, TypeOK
  <2>. QED
    BY <2>1, <2>2
<1>s. ASSUME NEW g \in GPUs, NEW f \in Vector, SetAvailable(g, f), \A d \in Dim : f[d] >= 0
      PROVE  SchedOK' /\ NotifOK'
  <2>1. \A h \in GPUs : NotNegative(sched'[h]) /\ NotNegative(gpuStore'[h])
    BY <1>s, <1>n, <1>t DEF SetAvailable, NotNegative, TypeOK, GPUObj
  <2>. QED
    BY <2>1, <1>s, <1>n DEF SetAvailable
<1>v. \A f : (\A d \in Dim : f[d] >= 0) => NotNegative(Ready(f))
  BY DEF NotNegative, Ready
<1>r. (Requeue => w'.val = Absent) /\ (Return => w'.val = Absent)
  BY DEF Requeue, Return, IdleWorker
<1>u. ASSUME NEW b, AfterUpdate(b) PROVE w'.val \in {w.val, Absent}
  <2>1. CASE w' = [w EXCEPT !.pc = "dropFinalizer", !.fresh = b]
    BY <2>1, <1>t DEF TypeOK, Worker
  <2>. QED
    BY <1>u, <1>r, <2>1 DEF AfterUpdate
<1>1. ASSUME NEW g \in GPUs, SchedulePick(g) PROVE AvailInv'
  <2>. DEFINE f == Minus(sched[g].free, Req[w.c])
  <2>1. w.c \in Conns /\ sched[g].free \in Vector
    BY <1>1, <1>t DEF SchedulePick, TypeInv, TypeOK, GPUObj
  <2>2. f \in Vector
    BY <2>1, VectorTypes
  <2>3. \A d \in Dim : f[d] >= 0
    BY <1>1, <2>1, ReqAssumption DEF SchedulePick, Fits, Minus, Vector
  <2>. HIDE DEF f
  <2>4. SetAvailable(g, f) /\ w'.val = Ready(f) /\ UNCHANGED gpuVars
    BY <1>1, <1>t DEF SchedulePick, f, TypeOK, Worker
  <2>. QED
    BY <1>g, <1>q, <1>s, <1>v, <2>2, <2>3, <2>4
<1>2. CASE Release
  <2>. DEFINE g == w.obj.gpu
              f == Plus(sched[g].free, Req[w.c])
  <2>1. UNCHANGED gpuVars /\ w.c \in Conns
    BY <1>2, <1>t DEF Release, TypeInv
  <2>2. CASE InStore(g) /\ SetAvailable(g, f) /\ w'.val = Ready(f)
    <3>1. g \in GPUs /\ sched[g].free \in Vector
      BY <2>2, <1>t DEF InStore, TypeOK, Worker, ConnObj, GPUObj
    <3>2. f \in Vector
      BY <2>1, <3>1, VectorTypes
    <3>3. \A d \in Dim : f[d] >= 0
      BY <1>n, <2>1, <3>1, ReqAssumption DEF Plus, Vector, NotNegative
    <3>. HIDE DEF f, g
    <3>. QED
      BY <1>g, <1>q, <1>s, <1>v, <2>1, <2>2, <3>1, <3>2, <3>3
  <2>3. CASE UNCHANGED cacheVars /\ w'.val \in {w.val, Absent}
    BY <1>c, <1>g, <1>q, <1>n, <1>z, <2>1, <2>3
  <2>4. w' = [w EXCEPT !.pc = "dropFinalizer", !.freed = g] => w'.val = w.val
    BY <1>t DEF TypeOK, Worker
  <2>5. w' = [w EXCEPT !.pc = "updateConn", !.gpu = g, !.val = Ready(f), !.freed = g]
          => w'.val = Ready(f)
    BY <1>t DEF TypeOK, Worker
  <2>6. \/ InStore(g) /\ SetAvailable(g, f)
           /\ w' = [w EXCEPT !.pc = "updateConn", !.gpu = g, !.val = Ready(f), !.freed = g]
        \/ UNCHANGED cacheVars /\ w' = [w EXCEPT !.pc = "dropFinalizer", !.freed = g]
        \/ UNCHANGED cacheVars /\ Requeue
    BY <1>2 DEF Release
  <2>. QED
    BY <1>r, <2>2, <2>3, <2>4, <2>5, <2>6
<1>3. CASE GetGPU
  <2>1. NotNegative(w'.val)
    <3>1. InStore(w.obj.gpu) => w.obj.gpu \in GPUs
      BY <1>t DEF InStore, TypeOK, Worker, ConnObj
    <3>2. w'.val = w.val \/ (InStore(w.obj.gpu) /\ w'.val = gpuStore[w.obj.gpu])
      BY <1>3, <1>t DEF GetGPU, Goto, TypeOK, Worker
    <3>. QED
      BY <1>n, <3>1, <3>2
  <2>. QED
    BY <1>3, <1>c, <1>g, <1>q, <2>1 DEF GetGPU
<1>4. CASE UpdateGPU
  <2>1. UNCHANGED cacheVars /\ w'.val \in {w.val, Absent}
    <3>1. Goto("updateConn") => w'.val = w.val
      BY <1>t DEF Goto, TypeOK, Worker
    <3>. QED
      BY <1>4, <1>r, <1>u, <3>1 DEF UpdateGPU
  <2>2. APIOK' /\ WatchOK'
    <3>1. CASE InStore(w.gpu) /\ PutGPU(w.gpu, w.val)
      <4>1. w.gpu \in GPUs /\ w.val \in GPUObj
        BY <3>1, <1>t DEF InStore, TypeOK, Worker
      <4>. QED
        BY <1>n, <1>p, <3>1, <4>1
    <3>2. CASE UNCHANGED gpuVars
      BY <1>g, <3>2
    <3>. QED
      BY <1>4, <3>1, <3>2 DEF UpdateGPU, gpuVars
  <2>. QED
    BY <1>c, <1>n, <1>q, <1>z, <2>1, <2>2
<1>5. CASE Crash
  <2>1. SchedOK' /\ APIOK' /\ WatchOK' /\ NotNegative(w'.val)
    BY <1>5, <1>n, <1>z DEF Crash, IdleWorker
  <2>2. ASSUME NEW g \in GPUs, NEW i \in DOMAIN gpuNotif'[g] PROVE NotNegative(gpuNotif'[g][i])
    BY <1>5, <1>n, <2>2 DEF Crash
  <2>. QED
    BY <1>q, <2>1, <2>2
<1>6. ASSUME NEW g \in GPUs, GPUEvent(g) PROVE AvailInv'
  <2>1. /\ Head(gpuWatch[g]) = gpuWatch[g][1] /\ 1 \in DOMAIN gpuWatch[g]
        /\ gpuWatch[g] \in Seq(GPUObj) /\ gpuNotif[g] \in Seq(GPUObj)
        /\ Head(gpuWatch[g]) \in GPUObj
    BY <1>6, <1>t DEF GPUEvent, TypeOK
  <2>2. NotNegative(Head(gpuWatch[g]))
    BY <2>1, <1>n
  <2>3. SchedOK' /\ APIOK'
    BY <1>6, <1>n, <1>t, <2>2 DEF GPUEvent, TypeOK
  <2>4. ASSUME NEW h \in GPUs, NEW i \in DOMAIN gpuWatch'[h] PROVE NotNegative(gpuWatch'[h][i])
    BY <1>6, <1>n, <1>t, <2>1, <2>4 DEF GPUEvent, TypeOK
  <2>5. ASSUME NEW h \in GPUs, NEW i \in DOMAIN gpuNotif'[h] PROVE NotNegative(gpuNotif'[h][i])
    BY <1>6, <1>n, <1>t, <2>1, <2>2, <2>5 DEF GPUEvent, TypeOK
  <2>. QED
    BY <1>6, <1>n, <1>q, <2>3, <2>4, <2>5 DEF GPUEvent
<1>7. ASSUME NEW g \in GPUs, GPUNotify(g) PROVE AvailInv'
  <2>1. /\ Head(gpuNotif[g]) = gpuNotif[g][1] /\ 1 \in DOMAIN gpuNotif[g]
        /\ gpuNotif[g] \in Seq(GPUObj)
    BY <1>7, <1>t DEF GPUNotify, OnEvent, TypeOK
  <2>2. SchedOK'
    BY <1>7, <1>n, <1>t, <2>1 DEF GPUNotify, OnEvent, TypeOK
  <2>3. ASSUME NEW h \in GPUs, NEW i \in DOMAIN gpuNotif'[h] PROVE NotNegative(gpuNotif'[h][i])
    BY <1>7, <1>n, <1>t, <2>1, <2>3 DEF GPUNotify, OnEvent, TypeOK
  <2>. QED
    BY <1>7, <1>g, <1>n, <1>q, <2>2, <2>3 DEF GPUNotify, OnEvent
<1>8. ASSUME NEW g \in GPUs, DiscoverCreate(g) \/ DiscoverPatch(g) \/ LoseGPU(g)
      PROVE  AvailInv'
  BY <1>8, <1>c, <1>n, <1>p, <1>q, <1>z, ObjectTypes DEF DiscoverCreate, DiscoverPatch, LoseGPU
<1>9. CASE /\ UNCHANGED <<gpuVars, cacheVars>>
           /\ w'.val \in {w.val, Absent}
  BY <1>9, <1>c, <1>g, <1>n, <1>q, <1>z
<1>10. ASSUME NEW c \in Conns, ConnNext(c) PROVE AvailInv'
  <2>1. w'.val \in {w.val, Absent}
    <3>1. CASE Start(c)
      <4>1. IdleWorker \in Worker /\ IdleWorker.val = Absent
        BY ObjectTypes DEF IdleWorker
      <4>2. \/ w' = IdleWorker
            \/ w' = [IdleWorker EXCEPT !.pc = FirstStep(connCache[c]), !.c = c,
                       !.obj = connCache[c], !.fresh = (connWatch[c] = <<>>)]
        BY <3>1 DEF Start
      <4>. QED
        BY <4>1, <4>2 DEF Worker
    <3>2. CASE DeleteConn(c)
      BY <3>2, <1>t DEF DeleteConn, Outdate, TypeOK, Worker
    <3>3. CASE ~Start(c) /\ ~DeleteConn(c)
      BY <1>10, <3>3
      DEF ConnNext, ConnEvent, PodEvent, CreateConn, RunPod, CollectPod, LosePod
    <3>. QED
      BY <3>1, <3>2, <3>3
  <2>2. UNCHANGED <<gpuVars, cacheVars>>
    BY <1>10 DEF ConnNext, Start, ConnEvent, PodEvent, CreateConn, DeleteConn, RunPod,
       CollectPod, LosePod
  <2>. QED
    BY <1>9, <2>1, <2>2
<1>11. CASE AddFinalizer \/ DropFinalizer \/ ScheduleNone \/ SchedulePanic \/ StartWorker
            \/ UpdateConn \/ Abort
  <2>1. w'.val \in {w.val, Absent}
    <3>1. CASE AddFinalizer
      BY <3>1, <1>r, <1>t DEF AddFinalizer, TypeOK, Worker
    <3>2. CASE DropFinalizer \/ SchedulePanic \/ Abort
      BY <3>2, <1>r DEF DropFinalizer, SchedulePanic, Abort
    <3>3. CASE ScheduleNone
      BY <3>3, <1>t DEF ScheduleNone, TypeOK, Worker
    <3>4. CASE StartWorker
      BY <3>4, <1>r, <1>t DEF StartWorker, Goto, TypeOK, Worker
    <3>5. CASE UpdateConn
      <4>1. \A b : w' = [w EXCEPT !.pc = "updateGPU", !.fresh = b] => w'.val = w.val
        BY <1>t DEF TypeOK, Worker
      <4>. QED
        BY <3>5, <4>1, <1>r, <1>u DEF UpdateConn
    <3>. QED
      BY <1>11, <3>1, <3>2, <3>3, <3>4, <3>5
  <2>2. UNCHANGED <<gpuVars, cacheVars>>
    BY <1>11 DEF AddFinalizer, DropFinalizer, ScheduleNone, SchedulePanic, StartWorker,
       UpdateConn, Abort
  <2>. QED
    BY <1>9, <2>1, <2>2
<1>12. CASE PoolChange \/ UNCHANGED vars
  BY <1>9, <1>12 DEF PoolChange, vars
<1>. QED
  BY <1>1, <1>2, <1>3, <1>4, <1>5, <1>6, <1>7, <1>8, <1>10, <1>11, <1>12
  DEF Next, WorkerStep, GPUNext

\* Schedule never hands out more than a GPU object says it has, and no order of
\* events, retries and restarts makes an availability negative.
THEOREM AvailabilitySafe == Spec => []AvailableNotNegative
<1>1. Init => AvailInv
  <2>1. ASSUME Init PROVE AvailableNotNegative /\ NotNegative(w.val)
    BY <2>1 DEF Init, AvailableNotNegative, NotNegative, IdleWorker, Absent, Zero
  <2>. QED
    BY <2>1, TypeInit DEF AvailInv
<1>2. AvailInv => AvailableNotNegative
  BY DEF AvailInv
<1>. QED
  BY <1>1, <1>2, AvailStep, PTL DEF Spec

--------------------------------------------------------------------------------
(* Deletion *)

\* What the invariant says of the versions of each connection.
Versions == ChainEnds /\ DeletionOrdered /\ FinalizerSeen /\ FinalizerNeeded

\* Every cached or travelling version of c is of a connection being deleted.
AllLeaving(c) == /\ connCache[c].state \in Leaving
                 /\ \A i \in 1..Len(connWatch[c]) : connWatch[c][i].state \in Leaving

\* What is left of a queue of versions when its head has been delivered.
LEMMA TailFacts ==
    ASSUME NEW s \in Seq(ConnObj), s # <<>>
    PROVE  /\ Len(s) \in Nat /\ 1 \in 1..Len(s) /\ Head(s) = s[1]
           /\ Len(Tail(s)) = Len(s) - 1
           /\ \A i \in 1..Len(Tail(s)) : Tail(s)[i] = s[i + 1] /\ i + 1 \in 1..Len(s)
           /\ Tail(s) = <<>> => Len(s) = 1
           /\ Tail(s) # <<>> => Len(Tail(s)) \in 1..Len(Tail(s))
<1>1. Len(s) \in Nat /\ Len(s) # 0
  OBVIOUS
<1>2. Head(s) = s[1] /\ Len(Tail(s)) = Len(s) - 1 /\ Tail(s) \in Seq(ConnObj)
  OBVIOUS
<1>3. \A i \in 1..Len(Tail(s)) : Tail(s)[i] = s[i + 1]
  BY <1>1
<1>4. Tail(s) = <<>> => Len(Tail(s)) = 0
  <2>1. Len(<<>>) = 0
    OBVIOUS
  <2>. QED
    BY <2>1
<1>5. Tail(s) # <<>> => Len(Tail(s)) # 0
  BY <1>2
<1>. QED
  BY <1>1, <1>2, <1>3, <1>4, <1>5

\* A queue of versions after one more has been sent.
LEMMA AppendFacts ==
    ASSUME NEW s \in Seq(ConnObj), NEW o \in ConnObj
    PROVE  /\ Len(s) \in Nat /\ Len(Append(s, o)) = Len(s) + 1 /\ Append(s, o) # <<>>
           /\ Append(s, o)[Len(s) + 1] = o
           /\ \A i \in 1..Len(s) : Append(s, o)[i] = s[i]
           /\ \A i \in 1..Len(Append(s, o)) : i \in 1..Len(s) \/ Append(s, o)[i] = o
<1>1. Len(s) \in Nat /\ Len(Append(s, o)) = Len(s) + 1 /\ Append(s, o)[Len(s) + 1] = o
  OBVIOUS
<1>2. \A i \in 1..Len(s) : Append(s, o)[i] = s[i]
  OBVIOUS
<1>3. Append(s, o) # <<>>
  BY <1>1
<1>. QED
  BY <1>1, <1>2, <1>3

\* A write keeps the versions in order if it does not bring a deleted object
\* back and drops the finalizer only when every version the informer still has
\* to show is of a deleted object.
LEMMA PutVersions ==
    ASSUME TypeOK, Versions, NEW c \in Conns, NEW o \in ConnObj, PutConn(c, o),
           conn[c].state \in Leaving => o.state \in Leaving,
           conn[c].fin /\ ~o.fin => AllLeaving(c),
           o.state = "deleting" \/ o.gpu # None => o.fin,
           o.fin => o.state \in {"live", "deleting"}
    PROVE  Versions'
<1>t. /\ conn \in [Conns -> ConnObj] /\ connWatch \in [Conns -> Seq(ConnObj)]
      /\ conn' = [conn EXCEPT ![c] = o] /\ connCache' = connCache
  BY DEF TypeOK, PutConn
<1>s. connWatch[c] \in Seq(ConnObj) /\ Len(connWatch[c]) \in Nat
  BY <1>t
<1>o. \A d \in Conns : d # c => conn'[d] = conn[d] /\ connWatch'[d] = connWatch[d]
  BY <1>t DEF PutConn
<1>1. CASE o = conn[c]
  <2>1. conn' = conn /\ connWatch' = connWatch
    BY <1>t, <1>1 DEF PutConn
  <2>. QED
    BY <2>1, <1>t DEF Versions, ChainEnds, DeletionOrdered, FinalizerSeen, FinalizerNeeded
<1>2. CASE o # conn[c]
  <2>w. connWatch'[c] = Append(connWatch[c], o) /\ conn'[c] = o
    BY <1>t, <1>2 DEF PutConn
  <2>a. /\ Len(connWatch'[c]) = Len(connWatch[c]) + 1
        /\ connWatch'[c][Len(connWatch[c]) + 1] = o
        /\ \A i \in 1..Len(connWatch[c]) : connWatch'[c][i] = connWatch[c][i]
        /\ connWatch'[c] # <<>>
    BY <2>w, <1>s
  <2>l. AllLeaving(c) \/ connCache[c].state \in Leaving
        \/ (\E i \in 1..Len(connWatch[c]) : connWatch[c][i].state \in Leaving)
          => o.state \in Leaving
    BY <1>s, <1>t DEF Versions, ChainEnds, DeletionOrdered, AllLeaving
  <2>1. ChainEnds'
    <3>1. ASSUME NEW d \in Conns
          PROVE  /\ connWatch'[d] = <<>> => connCache'[d] = conn'[d]
                 /\ connWatch'[d] # <<>> => connWatch'[d][Len(connWatch'[d])] = conn'[d]
      BY <1>o, <1>t, <2>w, <2>a DEF Versions, ChainEnds
    <3>. QED
      BY <3>1 DEF ChainEnds
  <2>2. DeletionOrdered'
    <3>1. ASSUME NEW d \in Conns, NEW j \in 1..Len(connWatch'[d])
          PROVE  /\ connCache'[d].state \in Leaving => connWatch'[d][j].state \in Leaving
                 /\ \A i \in 1..j : connWatch'[d][i].state \in Leaving
                                      => connWatch'[d][j].state \in Leaving
      <4>1. CASE d # c
        BY <1>o, <1>t, <3>1, <4>1 DEF Versions, DeletionOrdered
      <4>2. CASE d = c /\ j \in 1..Len(connWatch[c])
        <5>1. /\ connCache[c].state \in Leaving => connWatch[c][j].state \in Leaving
              /\ \A i \in 1..j : connWatch[c][i].state \in Leaving
                                   => connWatch[c][j].state \in Leaving
          BY <4>2 DEF Versions, DeletionOrdered
        <5>2. \A i \in 1..j : i \in 1..Len(connWatch[c])
          BY <1>s, <4>2
        <5>. QED
          BY <1>t, <2>a, <4>2, <5>1, <5>2
      <4>3. CASE d = c /\ j = Len(connWatch[c]) + 1
        <5>1. connWatch'[c][j] = o
          BY <2>a, <4>3
        <5>2. connCache[c].state \in Leaving => o.state \in Leaving
          BY <2>l
        <5>3. ASSUME NEW i \in 1..j, connWatch'[c][i].state \in Leaving
              PROVE  o.state \in Leaving
          <6>1. CASE i = j
            BY <5>1, <5>3, <6>1
          <6>2. CASE i \in 1..Len(connWatch[c])
            BY <2>a, <2>l, <5>3, <6>2
          <6>. QED
            BY <1>s, <4>3, <6>1, <6>2
        <5>. QED
          BY <1>t, <4>3, <5>1, <5>2, <5>3
      <4>. QED
        BY <1>s, <2>a, <3>1, <4>1, <4>2, <4>3
    <3>. QED
      BY <3>1 DEF DeletionOrdered
  <2>3. FinalizerSeen'
    <3>1. /\ connCache[c].state = "live" /\ connCache[c].fin => o.fin
          /\ \A i \in 1..Len(connWatch[c]) :
               connWatch[c][i].state = "live" /\ connWatch[c][i].fin => o.fin
      BY DEF Versions, FinalizerSeen, AllLeaving, Leaving
    <3>2. ASSUME NEW d \in Conns
          PROVE  /\ connCache'[d].state = "live" /\ connCache'[d].fin => conn'[d].fin
                 /\ \A i \in 1..Len(connWatch'[d]) :
                      connWatch'[d][i].state = "live" /\ connWatch'[d][i].fin => conn'[d].fin
      <4>1. CASE d # c
        BY <1>o, <1>t, <3>2, <4>1 DEF Versions, FinalizerSeen
      <4>2. CASE d = c
        <5>1. \A i \in 1..Len(connWatch'[c]) :
                i \in 1..Len(connWatch[c]) \/ connWatch'[c][i] = o
          BY <1>s, <2>a
        <5>. QED
          BY <1>t, <2>a, <2>w, <3>1, <4>2, <5>1
      <4>. QED
        BY <4>1, <4>2
    <3>. QED
      BY <3>2 DEF FinalizerSeen
  <2>4. FinalizerNeeded'
    BY <1>o, <2>w DEF Versions, FinalizerNeeded
  <2>. QED
    BY <2>1, <2>2, <2>3, <2>4 DEF Versions
<1>. QED
  BY <1>1, <1>2

\* When every version on its way is of a deleted object, so is the current one.
LEMMA LeavingCurrent ==
    ASSUME TypeOK, Versions, NEW c \in Conns, AllLeaving(c)
    PROVE  conn[c].state \in Leaving
<1>1. CASE connWatch[c] = <<>>
  BY <1>1 DEF Versions, ChainEnds, AllLeaving
<1>2. CASE connWatch[c] # <<>>
  <2>1. connWatch[c] \in Seq(ConnObj)
    BY DEF TypeOK
  <2>2. Len(connWatch[c]) \in 1..Len(connWatch[c])
    BY <1>2, <2>1, TailFacts
  <2>3. connWatch[c][Len(connWatch[c])] = conn[c]
    BY <1>2 DEF Versions, ChainEnds
  <2>. QED
    BY <2>2, <2>3 DEF AllLeaving
<1>. QED
  BY <1>1, <1>2

\* A write of a deleted object adds no other version.
LEMMA PutLeaving ==
    ASSUME TypeOK, NEW c \in Conns, NEW o \in ConnObj, PutConn(c, o)
    PROVE  /\ conn'[c] = o
           /\ AllLeaving(c) /\ o.state \in Leaving => AllLeaving(c)'
           /\ \A d \in Conns \ {c} : conn'[d] = conn[d] /\ (AllLeaving(d) => AllLeaving(d)')
<1>1. /\ conn'[c] = o /\ connCache' = connCache /\ connWatch[c] \in Seq(ConnObj)
      /\ connWatch'[c] = connWatch[c] \/ connWatch'[c] = Append(connWatch[c], o)
      /\ \A d \in Conns \ {c} : conn'[d] = conn[d] /\ connWatch'[d] = connWatch[d]
  BY DEF PutConn, TypeOK
<1>2. ASSUME AllLeaving(c), o.state \in Leaving, NEW i \in 1..Len(connWatch'[c])
      PROVE  connWatch'[c][i].state \in Leaving
  <2>1. CASE connWatch'[c] = connWatch[c]
    BY <1>2, <2>1 DEF AllLeaving
  <2>2. CASE connWatch'[c] = Append(connWatch[c], o)
    <3>1. /\ \A k \in 1..Len(connWatch[c]) : connWatch'[c][k] = connWatch[c][k]
          /\ i \in 1..Len(connWatch[c]) \/ connWatch'[c][i] = o
      BY <1>1, <1>2, <2>2, AppendFacts
    <3>. QED
      BY <1>2, <3>1 DEF AllLeaving
  <2>. QED
    BY <1>1, <2>1, <2>2
<1>3. AllLeaving(c) /\ o.state \in Leaving => AllLeaving(c)'
  BY <1>1, <1>2 DEF AllLeaving
<1>4. \A d \in Conns \ {c} : AllLeaving(d) => AllLeaving(d)'
  BY <1>1 DEF AllLeaving
<1>. QED
  BY <1>1, <1>3, <1>4

\* Every step preserves the invariant of deletion.
LEMMA DeletionStep == DeletionInv /\ [Next]_vars => DeletionInv'
<1>. SUFFICES ASSUME DeletionInv, [Next]_vars PROVE DeletionInv'
  OBVIOUS
<1>t. TypeInv /\ TypeOK /\ TypeOK' /\ Versions /\ WorkerKnows /\ w \in Worker
  <2>1. TypeInv
    BY DEF DeletionInv, TypeInv, WorkerKnows
  <2>. QED
    BY <2>1, TypeStep DEF DeletionInv, TypeInv, Versions, TypeOK
<1>q. Versions' /\ WorkerKnows' => DeletionInv'
  BY <1>t DEF DeletionInv, Versions
<1>v. UNCHANGED connVars => Versions'
  BY <1>t DEF connVars, Versions, ChainEnds, DeletionOrdered, FinalizerSeen, FinalizerNeeded
<1>i. w' = IdleWorker => WorkerKnows'
  BY DEF WorkerKnows, IdleWorker
<1>r. (Requeue => WorkerKnows') /\ (Return => WorkerKnows')
  BY <1>i DEF Requeue, Return
<1>w. UNCHANGED <<connVars, w>> => WorkerKnows'
  BY <1>t DEF connVars, WorkerKnows
\* The worker moves on with what it knows.
<1>m. ASSUME UNCHANGED connVars, w.pc # "idle", w'.c = w.c, w'.obj.state = w.obj.state,
             w'.fresh = w.fresh,
             w'.pc \in {"addFinalizer", "schedule", "getGPU", "startWorker"}
               => w.obj.state = "live",
             w'.pc \in {"release", "dropFinalizer"} => w.obj.state = "deleting",
             w.pc # "addFinalizer", w'.pc # "addFinalizer",
             w.obj.state = "deleting" => w'.obj = w.obj /\ w'.freed = w.obj.gpu
      PROVE  WorkerKnows'
  BY <1>m, <1>t DEF connVars, WorkerKnows
<1>1. ASSUME NEW c \in Conns, Start(c) PROVE DeletionInv'
  <2>1. UNCHANGED connVars
    BY <1>1 DEF Start
  <2>2. WorkerKnows'
    <3>1. CASE w' = IdleWorker
      BY <1>i, <3>1
    <3>2. CASE w' # IdleWorker
      <4>. DEFINE o == connCache[c]
      <4>1. /\ o.state \notin {"none", "gone"} /\ (o.state = "deleting" => o.fin)
            /\ w' = [IdleWorker EXCEPT !.pc = FirstStep(o), !.c = c, !.obj = o,
                                       !.fresh = (connWatch[c] = <<>>)]
        BY <1>1, <3>2 DEF Start
      <4>2. o \in ConnObj
        BY <1>t DEF TypeOK
      <4>3. /\ w'.pc = FirstStep(o) /\ w'.c = c /\ w'.obj = o /\ w'.freed = None
            /\ w'.fresh = (connWatch[c] = <<>>)
        BY <4>1 DEF IdleWorker
      <4>4. o.state \in {"live", "deleting"}
        BY <4>1, <4>2 DEF ConnObj
      <4>5. /\ o.state = "live" => FirstStep(o) \in {"addFinalizer", "schedule", "getGPU"}
            /\ o.state = "deleting" => FirstStep(o) = "release"
            /\ o.state = "live" /\ FirstStep(o) # "addFinalizer" => o.fin
        BY <4>4 DEF FirstStep, AfterFinalizer
      <4>6. o.state = "live" /\ o.fin => conn[c].fin
        BY <1>t DEF Versions, FinalizerSeen
      <4>7. o.state = "deleting" => AllLeaving(c)
        BY <1>t DEF Versions, DeletionOrdered, AllLeaving, Leaving
      <4>8. w'.fresh => o = conn[c]
        BY <1>t, <4>3 DEF Versions, ChainEnds
      <4>. HIDE DEF o
      <4>. QED
        BY <2>1, <4>3, <4>4, <4>5, <4>6, <4>7, <4>8
        DEF WorkerKnows, AllLeaving, connVars, o
    <3>. QED
      BY <3>1, <3>2
  <2>. QED
    BY <1>q, <1>v, <2>1, <2>2
<1>2. CASE AddFinalizer
  <2>1. CASE w.fresh
    <3>. DEFINE o == [w.obj EXCEPT !.fin = TRUE]
    <3>1. w.c \in Conns /\ w.obj = conn[w.c] /\ w.obj.state = "live" /\ w.obj \in ConnObj
      BY <1>2, <1>t, <2>1 DEF AddFinalizer, WorkerKnows, TypeOK, Worker
    <3>2. o \in ConnObj /\ o.state = "live" /\ o.fin = TRUE
      BY <3>1 DEF ConnObj
    <3>3. PutConn(w.c, o) /\ w' = [w EXCEPT !.obj = o, !.pc = AfterFinalizer(o)]
      BY <1>2, <2>1 DEF AddFinalizer
    <3>. HIDE DEF o
    <3>4. Versions'
      BY <1>t, <3>1, <3>2, <3>3, PutVersions DEF Leaving
    <3>5. w'.obj = o /\ w'.c = w.c /\ w'.pc \in {"schedule", "getGPU"}
      BY <1>t, <3>3 DEF Worker, AfterFinalizer
    <3>6. conn'[w.c] = o
      BY <1>t, <3>1, <3>3 DEF PutConn, TypeOK
    <3>7. WorkerKnows'
      BY <3>1, <3>2, <3>5, <3>6 DEF WorkerKnows
    <3>. QED
      BY <1>q, <3>4, <3>7
  <2>2. CASE ~w.fresh
    BY <1>2, <1>q, <1>r, <1>v, <2>2 DEF AddFinalizer
  <2>. QED
    BY <2>1, <2>2
<1>3. ASSUME NEW g \in GPUs, SchedulePick(g) PROVE DeletionInv'
  <2>1. w.pc = "schedule" /\ w.obj.state = "live" /\ UNCHANGED connVars
    BY <1>3, <1>t DEF SchedulePick, WorkerKnows
  <2>2. w'.c = w.c /\ w'.obj.state = w.obj.state /\ w'.fresh = w.fresh /\ w'.pc = "startWorker"
    BY <1>3, <1>t DEF SchedulePick, Worker, ConnObj
  <2>. QED
    BY <1>m, <1>q, <1>v, <2>1, <2>2
<1>4. CASE ScheduleNone
  <2>1. w.pc = "schedule" /\ w.obj.state = "live" /\ UNCHANGED connVars
    BY <1>4, <1>t DEF ScheduleNone, WorkerKnows
  <2>2. w'.c = w.c /\ w'.obj.state = w.obj.state /\ w'.fresh = w.fresh /\ w'.pc = "getGPU"
    BY <1>4, <1>t DEF ScheduleNone, Worker, ConnObj
  <2>. QED
    BY <1>m, <1>q, <1>v, <2>1, <2>2
<1>5. CASE SchedulePanic \/ Abort
  BY <1>5, <1>q, <1>r, <1>v DEF SchedulePanic, Abort
<1>6. CASE GetGPU
  <2>1. w.pc = "getGPU" /\ w.obj.state = "live" /\ UNCHANGED connVars
    BY <1>6, <1>t DEF GetGPU, WorkerKnows
  <2>2. /\ w'.c = w.c /\ w'.obj = w.obj /\ w'.fresh = w.fresh
        /\ w'.pc \in {"updateConn", "startWorker"}
    BY <1>6, <1>t DEF GetGPU, Goto, Worker
  <2>. QED
    BY <1>m, <1>q, <1>v, <2>1, <2>2
<1>7. CASE StartWorker
  <2>1. w.pc = "startWorker" /\ w.obj.state = "live" /\ UNCHANGED connVars
    BY <1>7, <1>t DEF StartWorker, WorkerKnows
  <2>2. CASE Requeue
    BY <1>q, <1>r, <1>v, <2>1, <2>2
  <2>3. CASE ~Requeue
    <3>0. PICK ph : \/ w' = [w EXCEPT !.pc = "updateConn"]
                    \/ w' = [w EXCEPT !.pc = "updateConn", !.obj.phase = ph]
      <4>1. CASE Goto("updateConn")
        BY <4>1 DEF Goto
      <4>2. CASE w' = [w EXCEPT !.pc = "updateConn",
                                !.obj.phase = IF podCache[w.c].phase = "Running"
                                              THEN "Running" ELSE @]
        <5>. WITNESS IF podCache[w.c].phase = "Running" THEN "Running" ELSE w.obj.phase
        <5>. QED
          BY <4>2
      <4>. QED
        BY <1>7, <2>3, <4>1, <4>2 DEF StartWorker
    <3>2. /\ w'.c = w.c /\ w'.obj.state = w.obj.state /\ w'.fresh = w.fresh
          /\ w'.pc = "updateConn"
      <4>1. CASE w' = [w EXCEPT !.pc = "updateConn"]
        BY <1>t, <4>1 DEF Worker
      <4>2. CASE w' = [w EXCEPT !.pc = "updateConn", !.obj.phase = ph]
        BY <1>t, <4>2 DEF Worker, ConnObj
      <4>. QED
        BY <3>0, <4>1, <4>2
    <3>. QED
      BY <1>m, <1>q, <1>v, <2>1, <3>2
  <2>. QED
    BY <2>2, <2>3
<1>8. CASE UpdateConn
  <2>. DEFINE o == [conn[w.c] EXCEPT !.phase = w.obj.phase, !.gpu = w.obj.gpu]
              b == w.fresh /\ o = conn[w.c]
  <2>1. /\ w.c \in Conns /\ w.pc = "updateConn" /\ conn[w.c] \in ConnObj /\ w.obj \in ConnObj
        /\ w.obj.state \in {"live", "deleting"}
    BY <1>8, <1>t DEF UpdateConn, WorkerKnows, TypeOK, Worker
  <2>2. CASE Requeue /\ UNCHANGED connVars
    BY <1>q, <1>r, <1>v, <2>2
  <2>3. CASE ~(Requeue /\ UNCHANGED connVars)
    <3>1. /\ conn[w.c].state \notin {"none", "gone"} /\ PutConn(w.c, o)
          /\ IF w.gpu = None THEN AfterUpdate(b)
             ELSE w' = [w EXCEPT !.pc = "updateGPU", !.fresh = b] /\ UNCHANGED queue
      BY <1>8, <2>3 DEF UpdateConn
    <3>2. o \in ConnObj /\ o.state = conn[w.c].state /\ o.fin = conn[w.c].fin
      BY <2>1 DEF ConnObj
    <3>3. w.obj.state = "deleting" => AllLeaving(w.c) /\ conn[w.c].state \in Leaving
      <4>. SUFFICES ASSUME w.obj.state = "deleting"
                    PROVE  AllLeaving(w.c) /\ conn[w.c].state \in Leaving
        OBVIOUS
      <4>1. AllLeaving(w.c)
        BY <1>t, <2>1 DEF WorkerKnows, AllLeaving
      <4>. QED
        BY <1>t, <2>1, <4>1, LeavingCurrent
    <3>4. conn[w.c].fin
      <4>1. CASE w.obj.state = "live"
        BY <1>t, <2>1, <4>1 DEF WorkerKnows
      <4>2. CASE w.obj.state = "deleting"
        BY <1>t, <2>1, <3>1, <3>3, <4>2 DEF Versions, FinalizerNeeded, Leaving
      <4>. QED
        BY <2>1, <4>1, <4>2
    <3>5. o.state \in {"live", "deleting"}
      BY <2>1, <3>1, <3>2 DEF ConnObj
    <3>6. Versions'
      <4>. HIDE DEF o
      <4>. QED
        BY <1>t, <2>1, <3>1, <3>2, <3>4, <3>5, PutVersions
    <3>7. conn'[w.c] = o /\ connCache' = connCache
      BY <1>t, <2>1, <3>1 DEF PutConn, TypeOK
    <3>8. AllLeaving(w.c) /\ o.state \in Leaving =>
            /\ connCache'[w.c].state \in Leaving
            /\ \A i \in 1..Len(connWatch'[w.c]) : connWatch'[w.c][i].state \in Leaving
      <4>. HIDE DEF o
      <4>1. PICK c \in Conns : c = w.c
        BY <2>1
      <4>2. AllLeaving(c) /\ o.state \in Leaving => AllLeaving(c)'
        BY <1>t, <3>1, <3>2, <4>1, PutLeaving
      <4>. QED
        BY <4>1, <4>2 DEF AllLeaving
    <3>9. ASSUME w'.c = w.c, w'.obj = w.obj, w'.freed = w.freed, w'.fresh = b,
                 \/ w'.pc = "updateGPU"
                 \/ w'.pc = "dropFinalizer" /\ w.obj.state = "deleting"
          PROVE  WorkerKnows'
      <4>1. conn'[w.c].fin
        BY <3>2, <3>4, <3>7
      <4>2. w.obj.state = "deleting" => w.freed = w.obj.gpu
        BY <1>t, <2>1 DEF WorkerKnows
      <4>3. w.obj.state = "deleting" /\ b => w.obj = conn'[w.c]
        BY <1>t, <2>1, <3>7 DEF WorkerKnows
      <4>4. w.obj.state = "deleting" =>
              /\ connCache'[w.c].state \in Leaving
              /\ \A i \in 1..Len(connWatch'[w.c]) : connWatch'[w.c][i].state \in Leaving
        BY <3>2, <3>3, <3>8
      <4>. HIDE DEF b, o
      <4>. QED
        BY <2>1, <3>9, <4>1, <4>2, <4>3, <4>4 DEF WorkerKnows
    <3>10. WorkerKnows'
      <4>. HIDE DEF b, o
      <4>1. CASE w' = [w EXCEPT !.pc = "updateGPU", !.fresh = b]
        BY <1>t, <3>9, <4>1 DEF Worker
      <4>2. CASE w' = [w EXCEPT !.pc = "dropFinalizer", !.fresh = b]
                 /\ w.obj.state = "deleting"
        BY <1>t, <3>9, <4>2 DEF Worker
      <4>. QED
        BY <1>r, <3>1, <4>1, <4>2 DEF AfterUpdate
    <3>. QED
      BY <1>q, <3>6, <3>10
  <2>. QED
    BY <2>2, <2>3
<1>9. CASE UpdateGPU
  <2>1. w.pc = "updateGPU" /\ UNCHANGED connVars
    BY <1>9 DEF UpdateGPU
  <2>2. w.obj.state = "deleting" => w.freed = w.obj.gpu
    BY <1>t, <2>1 DEF WorkerKnows
  <2>3. CASE Requeue \/ Return
    BY <1>q, <1>r, <1>v, <2>1, <2>3
  <2>4. CASE ~(Requeue \/ Return)
    <3>1. \/ w' = [w EXCEPT !.pc = "updateConn"]
          \/ w.obj.state = "deleting" /\ w' = [w EXCEPT !.pc = "dropFinalizer", !.fresh = w.fresh]
      BY <1>9, <2>4 DEF UpdateGPU, AfterUpdate, Goto
    <3>2. /\ w'.c = w.c /\ w'.obj = w.obj /\ w'.fresh = w.fresh /\ w'.freed = w.freed
          /\ w'.pc = "updateConn" \/ (w.obj.state = "deleting" /\ w'.pc = "dropFinalizer")
      BY <1>t, <3>1 DEF Worker
    <3>. QED
      BY <1>m, <1>q, <1>v, <2>1, <2>2, <3>2
  <2>. QED
    BY <2>3, <2>4
<1>10. CASE Release
  <2>1. w.pc = "release" /\ w.obj.state = "deleting" /\ UNCHANGED connVars
    BY <1>10, <1>t DEF Release, WorkerKnows
  <2>2. CASE Requeue
    BY <1>q, <1>r, <1>v, <2>1, <2>2
  <2>3. CASE ~Requeue
    <3>1. \/ w' = [w EXCEPT !.pc = "dropFinalizer", !.freed = w.obj.gpu]
          \/ \E v : w' = [w EXCEPT !.pc = "updateConn", !.gpu = w.obj.gpu, !.val = v,
                                   !.freed = w.obj.gpu]
      BY <1>10, <2>3 DEF Release
    <3>2. /\ w'.c = w.c /\ w'.obj = w.obj /\ w'.fresh = w.fresh /\ w'.freed = w.obj.gpu
          /\ w'.pc \in {"updateConn", "dropFinalizer"}
      BY <1>t, <3>1 DEF Worker
    <3>. QED
      BY <1>m, <1>q, <1>v, <2>1, <3>2
  <2>. QED
    BY <2>2, <2>3
<1>11. CASE DropFinalizer
  <2>1. w.c \in Conns /\ w.obj.state = "deleting" /\ AllLeaving(w.c)
    BY <1>11, <1>t DEF DropFinalizer, WorkerKnows, AllLeaving
  <2>2. CASE w.fresh
    <3>1. PutConn(w.c, NoConn("gone")) /\ Return
      BY <1>11, <2>2 DEF DropFinalizer
    <3>2. /\ NoConn("gone") \in ConnObj /\ NoConn("gone").state = "gone"
          /\ NoConn("gone").gpu = None /\ NoConn("gone").fin = FALSE
      BY ObjectTypes DEF NoConn
    <3>3. Versions'
      BY <1>t, <2>1, <3>1, <3>2, PutVersions DEF Leaving
    <3>. QED
      BY <1>q, <1>r, <3>1, <3>3
  <2>3. CASE ~w.fresh
    BY <1>11, <1>q, <1>r, <1>v, <2>3 DEF DropFinalizer
  <2>. QED
    BY <2>2, <2>3
<1>12. CASE Crash
  <2>1. Versions'
    BY <1>12, <1>t
    DEF Crash, Versions, ChainEnds, DeletionOrdered, FinalizerSeen, FinalizerNeeded
  <2>. QED
    BY <1>12, <1>i, <1>q, <2>1 DEF Crash
<1>13. ASSUME NEW c \in Conns, ConnEvent(c) PROVE DeletionInv'
  <2>1. /\ connWatch[c] \in Seq(ConnObj) /\ connWatch[c] # <<>>
        /\ connCache' = [connCache EXCEPT ![c] = Head(connWatch[c])]
        /\ connWatch' = [connWatch EXCEPT ![c] = Tail(connWatch[c])]
        /\ conn' = conn /\ w' = w
    BY <1>13, <1>t DEF ConnEvent, TypeOK
  <2>2. /\ connCache'[c] = connWatch[c][1] /\ connWatch'[c] = Tail(connWatch[c])
        /\ \A d \in Conns : d # c => connCache'[d] = connCache[d] /\ connWatch'[d] = connWatch[d]
    BY <1>t, <2>1, TailFacts DEF TypeOK
  <2>3. /\ 1 \in 1..Len(connWatch[c]) /\ Len(connWatch'[c]) = Len(connWatch[c]) - 1
        /\ \A i \in 1..Len(connWatch'[c]) : /\ connWatch'[c][i] = connWatch[c][i + 1]
                                            /\ i + 1 \in 1..Len(connWatch[c])
        /\ connWatch'[c] = <<>> => Len(connWatch[c]) = 1
        /\ connWatch'[c] # <<>> => Len(connWatch'[c]) \in 1..Len(connWatch'[c])
    <3>. DEFINE s == connWatch[c]
    <3>1. s \in Seq(ConnObj) /\ s # <<>> /\ connWatch'[c] = Tail(s)
      BY <2>1, <2>2
    <3>. HIDE DEF s
    <3>2. /\ 1 \in 1..Len(s) /\ Len(Tail(s)) = Len(s) - 1
          /\ \A i \in 1..Len(Tail(s)) : Tail(s)[i] = s[i + 1] /\ i + 1 \in 1..Len(s)
          /\ Tail(s) = <<>> => Len(s) = 1
          /\ Tail(s) # <<>> => Len(Tail(s)) \in 1..Len(Tail(s))
      BY <3>1, TailFacts
    <3>3. connWatch[c] = s
      BY DEF s
    <3>. QED
      BY <3>1, <3>2, <3>3
  <2>4. ChainEnds'
    <3>1. ASSUME NEW d \in Conns
          PROVE  /\ connWatch'[d] = <<>> => connCache'[d] = conn'[d]
                 /\ connWatch'[d] # <<>> => connWatch'[d][Len(connWatch'[d])] = conn'[d]
      BY <1>t, <2>1, <2>2, <2>3 DEF Versions, ChainEnds
    <3>. QED
      BY <3>1 DEF ChainEnds
  <2>5. DeletionOrdered'
    <3>1. ASSUME NEW d \in Conns, NEW j \in 1..Len(connWatch'[d])
          PROVE  /\ connCache'[d].state \in Leaving => connWatch'[d][j].state \in Leaving
                 /\ \A i \in 1..j : connWatch'[d][i].state \in Leaving
                                      => connWatch'[d][j].state \in Leaving
      <4>1. CASE d # c
        BY <1>t, <2>2, <3>1, <4>1 DEF Versions, DeletionOrdered
      <4>2. CASE d = c
        <5>1. connCache'[c].state \in Leaving => connWatch'[c][j].state \in Leaving
          <6>1. /\ j + 1 \in 1..Len(connWatch[c]) /\ 1 \in 1..(j + 1)
                /\ connWatch'[c][j] = connWatch[c][j + 1]
            BY <2>3, <3>1, <4>2
          <6>2. connWatch[c][1].state \in Leaving => connWatch[c][j + 1].state \in Leaving
            BY <1>t, <6>1 DEF Versions, DeletionOrdered
          <6>. QED
            BY <2>2, <6>1, <6>2
        <5>2. ASSUME NEW i \in 1..j, connWatch'[c][i].state \in Leaving
              PROVE  connWatch'[c][j].state \in Leaving
          <6>1. i \in 1..Len(connWatch'[c]) /\ i + 1 \in 1..(j + 1)
            BY <2>1, <2>3, <3>1, <4>2, <5>2
          <6>. QED
            BY <1>t, <2>3, <3>1, <4>2, <5>2, <6>1 DEF Versions, DeletionOrdered
        <5>. QED
          BY <4>2, <5>1, <5>2
      <4>. QED
        BY <4>1, <4>2
    <3>. QED
      BY <3>1 DEF DeletionOrdered
  <2>6. FinalizerSeen' /\ FinalizerNeeded'
    <3>1. ASSUME NEW d \in Conns
          PROVE  /\ connCache'[d].state = "live" /\ connCache'[d].fin => conn'[d].fin
                 /\ \A i \in 1..Len(connWatch'[d]) :
                      connWatch'[d][i].state = "live" /\ connWatch'[d][i].fin => conn'[d].fin
      BY <1>t, <2>1, <2>2, <2>3 DEF Versions, FinalizerSeen
    <3>. QED
      BY <1>t, <2>1, <3>1 DEF FinalizerSeen, FinalizerNeeded, Versions
  <2>7. WorkerKnows'
    <3>1. AllLeaving(c) => AllLeaving(c)'
      BY <2>1, <2>2, <2>3 DEF AllLeaving
    <3>2. \A d \in Conns : AllLeaving(d) => AllLeaving(d)'
      BY <2>2, <3>1 DEF AllLeaving
    <3>. QED
      BY <1>t, <2>1, <3>2 DEF WorkerKnows, AllLeaving
  <2>. QED
    BY <1>q, <2>4, <2>5, <2>6, <2>7 DEF Versions
<1>14. ASSUME NEW c \in Conns, CreateConn(c) PROVE DeletionInv'
  <2>. DEFINE o == NoConn("live")
  <2>1. conn[c].state = "none" /\ ~conn[c].fin /\ PutConn(c, o) /\ w' = w
    BY <1>14, <1>t DEF CreateConn, Versions, FinalizerNeeded
  <2>2. o \in ConnObj /\ o.state = "live" /\ o.gpu = None /\ o.fin = FALSE
    BY ObjectTypes DEF NoConn
  <2>. HIDE DEF o
  <2>3. Versions'
    BY <1>t, <2>1, <2>2, PutVersions DEF Leaving
  <2>4. w.pc # "idle" /\ w.c = c => /\ w.obj.state = "live" /\ w.pc = "addFinalizer"
                                    /\ ~w.fresh
    <3>. SUFFICES ASSUME w.pc # "idle", w.c = c
                  PROVE  w.obj.state = "live" /\ w.pc = "addFinalizer" /\ ~w.fresh
      OBVIOUS
    <3>1. w.obj.state # "deleting"
      <4>1. w.obj.state = "deleting" => AllLeaving(c)
        BY <1>t DEF WorkerKnows, AllLeaving
      <4>. QED
        BY <1>t, <2>1, <4>1, LeavingCurrent DEF Leaving
    <3>2. w.obj.state = "live"
      BY <1>t, <3>1 DEF WorkerKnows
    <3>3. w.pc = "addFinalizer"
      BY <1>t, <2>1, <3>2 DEF WorkerKnows
    <3>4. w.fresh => w.obj = conn[c]
      BY <1>t, <3>3 DEF WorkerKnows
    <3>. QED
      BY <2>1, <3>2, <3>3, <3>4
  <2>5. WorkerKnows'
    <3>1. CASE w.c = c
      BY <1>t, <2>1, <2>4, <3>1 DEF WorkerKnows
    <3>2. CASE w.c # c
      BY <1>t, PutLeaving, <2>1, <2>2, <3>2 DEF WorkerKnows, AllLeaving
    <3>. QED
      BY <3>1, <3>2
  <2>. QED
    BY <1>q, <2>3, <2>5
<1>15. ASSUME NEW c \in Conns, DeleteConn(c) PROVE DeletionInv'
  <2>. DEFINE o == IF conn[c].fin THEN [conn[c] EXCEPT !.state = "deleting"]
                   ELSE NoConn("gone")
  <2>1. conn[c].state = "live" /\ PutConn(c, o) /\ Outdate(c) /\ conn[c] \in ConnObj
    BY <1>15, <1>t DEF DeleteConn, TypeOK
  <2>2. /\ o \in ConnObj /\ o.state \in Leaving /\ o.fin = conn[c].fin
        /\ o.state = "deleting" \/ o.gpu # None => o.fin
        /\ o.fin => o.state = "deleting"
    BY <2>1, ObjectTypes DEF NoConn, ConnObj, Leaving
  <2>. HIDE DEF o
  <2>3. Versions'
    BY <1>t, <2>1, <2>2, PutVersions
  <2>4. /\ w'.pc = w.pc /\ w'.c = w.c /\ w'.obj = w.obj /\ w'.freed = w.freed
        /\ w'.fresh = (w.fresh /\ w.c # c)
    BY <1>t, <2>1 DEF Outdate, Worker
  <2>5. WorkerKnows'
    <3>1. CASE w.c = c
      <4>1. conn'[c].fin = conn[c].fin /\ (AllLeaving(c) => AllLeaving(c)') /\ ~w'.fresh
        BY <1>t, <2>1, <2>2, <2>4, <3>1, PutLeaving
      <4>. SUFFICES ASSUME w.pc # "idle" PROVE WorkerKnows'
        BY <2>4 DEF WorkerKnows
      <4>2. w.obj.state = "deleting" => AllLeaving(c)'
        BY <1>t, <3>1, <4>1 DEF WorkerKnows, AllLeaving
      <4>3. w.obj.state = "live" /\ w.pc # "addFinalizer" => conn'[c].fin
        BY <1>t, <3>1, <4>1 DEF WorkerKnows
      <4>4. w'.c \in Conns /\ w'.c = c
        BY <2>4, <3>1
      <4>. QED
        BY <1>t, <2>4, <4>1, <4>2, <4>3, <4>4 DEF WorkerKnows, AllLeaving
    <3>2. CASE w.c # c
      <4>1. w'.fresh => w.fresh
        BY <2>4
      <4>. SUFFICES ASSUME w.pc # "idle" PROVE WorkerKnows'
        BY <2>4 DEF WorkerKnows
      <4>2. PICK x \in Conns \ {c} : x = w.c
        BY <1>t, <3>2 DEF WorkerKnows
      <4>3. conn'[x] = conn[x] /\ (AllLeaving(x) => AllLeaving(x)')
        BY <1>t, <2>1, <2>2, PutLeaving
      <4>4. w.obj.state = "deleting" => AllLeaving(x)'
        BY <1>t, <4>2, <4>3 DEF WorkerKnows, AllLeaving
      <4>. QED
        BY <1>t, <2>4, <4>1, <4>2, <4>3, <4>4 DEF WorkerKnows, AllLeaving
    <3>. QED
      BY <3>1, <3>2
  <2>. QED
    BY <1>q, <2>3, <2>5
<1>16. ASSUME NEW c \in Conns, PodEvent(c) \/ RunPod(c) \/ CollectPod(c) \/ LosePod(c)
       PROVE  DeletionInv'
  BY <1>16, <1>q, <1>v, <1>w DEF PodEvent, RunPod, CollectPod, LosePod
<1>17. ASSUME NEW g \in GPUs, GPUNext(g) PROVE DeletionInv'
  BY <1>17, <1>q, <1>v, <1>w
  DEF GPUNext, GPUEvent, GPUNotify, OnEvent, DiscoverCreate, DiscoverPatch, LoseGPU
<1>18. CASE PoolChange \/ UNCHANGED vars
  BY <1>18, <1>q, <1>v, <1>w DEF PoolChange, vars
<1>. QED
  BY <1>1, <1>2, <1>3, <1>4, <1>5, <1>6, <1>7, <1>8, <1>9, <1>10, <1>11, <1>12, <1>13,
     <1>14, <1>15, <1>16, <1>17, <1>18 DEF Next, WorkerStep, ConnNext

\* Initially there are no connections to delete.
LEMMA DeletionInit == Init => DeletionInv
<1>. SUFFICES ASSUME Init PROVE DeletionInv
  OBVIOUS
<1>1. TypeOK
  BY TypeInit DEF TypeInv
<1>2. \A c \in Conns : /\ connWatch[c] = <<>> /\ Len(connWatch[c]) = 0
                       /\ connCache[c] = conn[c] /\ conn[c] = NoConn("none")
  BY DEF Init
<1>3. ChainEnds /\ DeletionOrdered
  BY <1>2 DEF ChainEnds, DeletionOrdered
<1>4. FinalizerSeen /\ FinalizerNeeded
  <2>1. NoConn("none").fin = FALSE /\ NoConn("none").state = "none" /\ NoConn("none").gpu = None
    BY DEF NoConn
  <2>2. \A c \in Conns : conn[c].fin = FALSE /\ conn[c].state = "none" /\ conn[c].gpu = None
    BY <1>2, <2>1
  <2>3. FinalizerNeeded
    BY <2>2 DEF FinalizerNeeded
  <2>4. ASSUME NEW c \in Conns
        PROVE  /\ ~connCache[c].fin
               /\ \A i \in 1..Len(connWatch[c]) : FALSE
    BY <1>2, <2>2
  <2>5. FinalizerSeen
    BY <2>4 DEF FinalizerSeen
  <2>. QED
    BY <2>3, <2>5
<1>5. WorkerKnows
  BY DEF Init, WorkerKnows, IdleWorker
<1>. QED
  BY <1>1, <1>3, <1>4, <1>5 DEF DeletionInv

\* The worker reserves a share, and starts a worker pod, only for a connection
\* whose current object has the finalizer, however old the copy it works on.
THEOREM ReservationGuarded == Spec => []FinalizerGuardsReservation
<1>1. DeletionInv => FinalizerGuardsReservation
  BY DEF DeletionInv, WorkerKnows, FinalizerGuardsReservation
<1>. QED
  BY <1>1, DeletionInit, DeletionStep, PTL DEF Spec

\* No connection leaves the API server before the share its status names has
\* been returned to the scheduler or the GPU was found gone.
THEOREM NoEarlyRemoval == Spec => ReleasedBeforeGone
<1>1. DeletionInv /\ [Next]_vars
        => [\A c \in Conns :
              conn[c].state # "gone" /\ conn'[c].state = "gone" /\ conn[c].gpu # None
                => w.pc = "dropFinalizer" /\ w.c = c /\ w.freed = conn[c].gpu]_vars
  <2>. SUFFICES ASSUME DeletionInv, [Next]_vars, NEW c \in Conns,
                       conn[c].state # "gone", conn'[c].state = "gone", conn[c].gpu # None
                PROVE  w.pc = "dropFinalizer" /\ w.c = c /\ w.freed = conn[c].gpu
    OBVIOUS
  <2>t. conn[c].fin /\ TypeOK /\ WorkerKnows
    BY DEF DeletionInv, FinalizerNeeded
  <2>u. ~UNCHANGED conn
    OBVIOUS
  <2>1. CASE DropFinalizer
    <3>1. w.fresh /\ PutConn(w.c, NoConn("gone")) /\ w.pc = "dropFinalizer"
      BY <2>1, <2>u DEF DropFinalizer, connVars
    <3>2. w.c = c
      BY <2>t, <3>1 DEF PutConn, TypeOK
    <3>. QED
      BY <2>t, <3>1, <3>2 DEF WorkerKnows
  <2>2. CASE AddFinalizer
    <3>1. w.fresh /\ PutConn(w.c, [w.obj EXCEPT !.fin = TRUE]) /\ w.c \in Conns
          /\ w.obj.state = "live" /\ w.obj \in ConnObj
      BY <2>2, <2>t, <2>u DEF AddFinalizer, WorkerKnows, connVars, TypeOK, Worker
    <3>. QED
      BY <2>t, <3>1 DEF PutConn, TypeOK, ConnObj
  <2>3. CASE UpdateConn
    <3>1. /\ PutConn(w.c, [conn[w.c] EXCEPT !.phase = w.obj.phase, !.gpu = w.obj.gpu])
          /\ w.c \in Conns /\ conn[w.c].state # "gone" /\ conn[w.c] \in ConnObj
      BY <2>3, <2>t, <2>u DEF UpdateConn, WorkerKnows, connVars, TypeOK
    <3>. QED
      BY <2>t, <3>1 DEF PutConn, TypeOK, ConnObj
  <2>4. ASSUME NEW d \in Conns, CreateConn(d) PROVE FALSE
    BY <2>4, <2>t DEF CreateConn, PutConn, NoConn, TypeOK
  <2>5. ASSUME NEW d \in Conns, DeleteConn(d) PROVE FALSE
    <3>1. d = c
      BY <2>5, <2>t DEF DeleteConn, PutConn, TypeOK
    <3>. QED
      BY <2>5, <2>t, <3>1 DEF DeleteConn, PutConn, TypeOK, ConnObj
  <2>6. CASE SchedulePanic \/ Abort \/ ScheduleNone \/ GetGPU \/ StartWorker \/ UpdateGPU
             \/ Release \/ Crash \/ PoolChange \/ UNCHANGED vars
    BY <2>6, <2>u DEF SchedulePanic, Abort, ScheduleNone, GetGPU, StartWorker, UpdateGPU,
       Release, Crash, PoolChange, connVars, vars
  <2>7. ASSUME NEW d \in Conns, ConnNext(d) PROVE FALSE
    BY <2>7, <2>4, <2>5, <2>u DEF ConnNext, Start, ConnEvent, PodEvent, RunPod, CollectPod,
       LosePod, connVars
  <2>8. ASSUME NEW g \in GPUs, GPUNext(g) \/ SchedulePick(g) PROVE FALSE
    BY <2>8, <2>u DEF GPUNext, SchedulePick, GPUEvent, GPUNotify, OnEvent, DiscoverCreate,
       DiscoverPatch, LoseGPU, connVars
  <2>. QED
    BY <2>1, <2>2, <2>3, <2>6, <2>7, <2>8 DEF Next, WorkerStep
<1>. QED
  BY <1>1, DeletionInit, DeletionStep, PTL DEF Spec, ReleasedBeforeGone
=================================================================================
