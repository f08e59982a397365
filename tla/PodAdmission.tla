------------------------------ MODULE PodAdmission ------------------------------
(***************************************************************************)
(* From a pod's annotations to its TensorFusionConnections: the mutating   *)
(* admission webhook and the pod controller.                               *)
(*                                                                         *)
(* Modelled code: pod_webhook.go and pod_controller.go.  The API server    *)
(* (which calls the webhook when a pod with the label enabled=true is      *)
(* created), its garbage collector, the users and the connection           *)
(* controller, which lets a deleted connection go, are external.           *)
(*                                                                         *)
(* Pods and connections are sequences of versions, from the one in the     *)
(* informer's cache to the one the API server holds.  A pod is one UID,    *)
(* and the name generated for its container c is <<p, c>>.  Of what the    *)
(* webhook puts into a pod the connection's name and the URL that the      *)
(* client asks are kept; namespaces and metrics are left out.              *)
(***************************************************************************)
EXTENDS Integers, Sequences, FiniteSets, FiniteSetsExt

CONSTANTS
    Pods,         \* UIDs of pods
    NumContainers,\* containers of a pod
    GPUPools,     \* names of the GPUPools that exist
    Manifests,    \* the pods that users create
    Absent,       \* no annotation, no name
    Unreadable,   \* the text of an annotation that is no quantity
    Kinds,        \* the kinds of disturbance that may happen
    MaxFaults,    \* bound on their number
    MaxLag        \* bound on the versions a cache is behind

\* "api": a call fails; "lost": it takes effect but its answer is lost; "get": the
\* read of a connection fails; "crash": the operator restarts; "label": a pod gets
\* the label after its admission; "edit": its annotations change then; "touch": it
\* changes in a way that the model does not show; "delete": a user deletes a
\* connection.
Faults == {"api", "lost", "get", "crash", "label", "edit", "touch", "delete"}

Containers == 1..NumContainers
Names      == Pods \X Containers
\* The annotations of a container: request and limit of TFLOPS and of VRAM.
Keys       == {"tflopsReq", "vramReq", "tflopsLim", "vramLim"}
\* An annotation is absent, unreadable or a quantity.
Texts      == Int \cup {Absent, Unreadable}

ASSUME PodAssumption   == NumContainers \in Nat /\ Absent \notin Pods \cup Names \cup GPUPools
ASSUME TextAssumption  == {Absent, Unreadable} \cap Int = {}
ASSUME ManifestAssumption ==
    \A m \in Manifests : /\ m.enabled \in BOOLEAN
                         /\ m.ann \in [Containers -> [Keys -> Texts]]
                         /\ m.env \in [Containers -> Seq(Names)]
ASSUME FaultAssumption == Kinds \subseteq Faults /\ MaxFaults \in Nat
ASSUME BoundAssumption == MaxLag \in Nat \ {0}

VARIABLES
    pod,      \* versions of each Pod
    asked,    \* history: what each Pod has asked for in one of its versions
    conn,     \* versions of each TensorFusionConnection
    queue,    \* the workqueue of the pod controller
    w,        \* its worker with the local variables of Reconcile
    excused,  \* connections that a user deleted or whose read failed
    left      \* how many disturbances may still happen

vars == <<pod, asked, conn, queue, w, excused, left>>

--------------------------------------------------------------------------------
(* Objects *)

\* env: the values of the container's variables ConnectionNameEnv, in order;
\* url: the connection that GetConnectionURLEnv names.
NoPod == [state |-> "none", enabled |-> FALSE, pool |-> Absent,
          ann |-> [c \in Containers |-> [k \in Keys |-> Absent]],
          env |-> [c \in Containers |-> <<>>], url |-> [c \in Containers |-> Absent]]
NoConn == [state |-> "none", owner |-> Absent, pool |-> Absent,
           res |-> [k \in Keys |-> 0]]
Idle == [pc |-> "idle", pod |-> Absent, obj |-> NoPod, todo |-> {}]

Newest(s) == s[Len(s)]
There(o)  == o.state \in {"live", "deleting"}
Push(s, o) == IF o = Newest(s) THEN s ELSE Append(s, o)
\* What the pod controller reads in a version of a pod.
Demand(o) == [pool |-> o.pool, ann |-> o.ann, env |-> o.env]
PutPod(p, o) ==
    /\ Len(pod[p]) <= MaxLag
    /\ pod' = [pod EXCEPT ![p] = Push(@, o)]
    /\ asked' = IF o.state = "live" THEN [asked EXCEPT ![p] = @ \cup {Demand(o)}] ELSE asked
PutConn(n, o) == Len(conn[n]) <= MaxLag /\ conn' = [conn EXCEPT ![n] = Push(@, o)]

Init ==
    /\ pod = [p \in Pods |-> <<NoPod>>]
    /\ asked = [p \in Pods |-> {}]
    /\ conn = [n \in Names |-> <<NoConn>>]
    /\ queue = {} /\ w = Idle /\ excused = {}
    /\ left = MaxFaults

Spend(f) == f \in Kinds /\ left > 0 /\ left' = left - 1

--------------------------------------------------------------------------------
(* ParseTFResources *)

\* Mutant of ParseQuantity: the text is kept.
ParseQuantityText(t) == t

\* resource.ParseQuantity; after an error the field keeps its zero.
ParseQuantity(t) == IF t \in {Absent, Unreadable} THEN 0 ELSE t

\* The containers with an annotation, if the pod names a pool.
Marked(o) == {c \in Containers : o.pool # Absent /\ \E k \in Keys : o.ann[c][k] # Absent}

ConnectionName(o, c) == IF o.env[c] = <<>> THEN Absent ELSE Head(o.env[c])

\* Mutant of TFResource: the limit is read from the text of the request.
TFResourceMixed(a) ==
    [k \in Keys |-> ParseQuantity(a[IF k = "tflopsLim" THEN "tflopsReq"
                                    ELSE IF k = "vramLim" THEN "vramReq" ELSE k])]

\* A limit is parsed only where there is a request.
TFResource(a) ==
    [k \in Keys |->
       IF \/ k = "tflopsLim" /\ a.tflopsReq = Absent
          \/ k = "vramLim" /\ a.vramReq = Absent
       THEN 0 ELSE ParseQuantity(a[k])]

--------------------------------------------------------------------------------
(* Admission *)

\* patchTFClient.
Patched(p, o) ==
    [o EXCEPT !.env = [c \in Containers |->
                         IF c \in Marked(o) THEN Append(o.env[c], <<p, c>>) ELSE o.env[c]],
              !.url = [c \in Containers |-> IF c \in Marked(o) THEN <<p, c>> ELSE Absent]]

\* A pod brings connection names only if it is the copy of an admitted pod.
Copyable(m) == \A c \in Containers : \A i \in DOMAIN m.env[c] :
                 Newest(pod[m.env[c][i][1]]).state # "none"

\* Handle: the API server stores the pod, or refuses it with the webhook's error.
CreatePod(p) ==
    /\ Newest(pod[p]).state = "none"
    /\ \E m \in {x \in Manifests : Copyable(x)} :
         LET o == [NoPod EXCEPT !.state = "live", !.enabled = m.enabled, !.pool = m.pool,
                                !.ann = m.ann, !.env = m.env] IN
         \/ (~m.enabled \/ Marked(o) = {}) /\ PutPod(p, o) /\ UNCHANGED left
         \/ /\ m.enabled /\ Marked(o) # {} /\ m.pool \in GPUPools
            /\ PutPod(p, Patched(p, o)) /\ UNCHANGED left
         \/ /\ m.enabled /\ Marked(o) # {}
            /\ IF m.pool \in GPUPools THEN Spend("api") ELSE UNCHANGED left
            /\ PutPod(p, [NoPod EXCEPT !.state = "gone"])
    /\ UNCHANGED <<conn, queue, w, excused>>

--------------------------------------------------------------------------------
(* Pod controller *)

\* For(&Pod{}) with the predicate on the label of the new version.
PodEvent(p) ==
    /\ Len(pod[p]) > 1
    /\ pod' = [pod EXCEPT ![p] = Tail(@)]
    /\ queue' = IF pod[p][2].enabled THEN queue \cup {p} ELSE queue
    /\ UNCHANGED <<asked, conn, w, excused, left>>

ConnEvent(n) ==
    /\ Len(conn[n]) > 1
    /\ conn' = [conn EXCEPT ![n] = Tail(@)]
    /\ UNCHANGED <<pod, asked, queue, w, excused, left>>

Start(p) ==
    /\ w.pc = "idle" /\ p \in queue
    /\ LET o == Head(pod[p]) IN
       w' = IF o.state # "live" \/ Marked(o) = {} THEN Idle
            ELSE [pc |-> "connect", pod |-> p, obj |-> o, todo |-> Marked(o)]
    /\ queue' = queue \ {p}
    /\ UNCHANGED <<pod, asked, conn, excused, left>>

\* Mutant of Connection: nobody owns it.
ConnectionFree(o, c) ==
    [state |-> "live", owner |-> Absent, pool |-> o.pool, res |-> TFResource(o.ann[c])]

\* generateTensorFusionConnection, for one container of the pod being reconciled.
Connection(o, c) ==
    [state |-> "live", owner |-> w.pod, pool |-> o.pool, res |-> TFResource(o.ann[c])]

\* Mutant of Retry: the error is dropped.
RetryNot == w' = Idle /\ UNCHANGED queue

Retry == w' = Idle /\ queue' = queue \cup {w.pod}

Finish(c) == w' = IF w.todo = {c} THEN Idle ELSE [w EXCEPT !.todo = @ \ {c}]

\* The loop over the connections: Get from the cache, then Create.  The API server
\* refuses a connection that it has, or one without a name.
Connect ==
    /\ w.pc = "connect"
    /\ LET c == Min(w.todo)
           n == ConnectionName(w.obj, c)
           known == n # Absent /\ There(Head(conn[n]))
           refused == n # Absent => There(Newest(conn[n])) IN
       \/ known /\ Finish(c) /\ UNCHANGED <<conn, queue>>
       \/ ~known /\ refused /\ Retry /\ UNCHANGED conn
       \/ ~known /\ ~refused /\ PutConn(n, Connection(w.obj, c)) /\ Finish(c)
          /\ UNCHANGED queue
    /\ UNCHANGED <<pod, asked, excused, left>>

\* Another error of the Get is not looked at: the connection is passed over.  A
\* failed Create ends the loop.
ConnectFails ==
    /\ w.pc = "connect"
    /\ LET c == Min(w.todo)
           n == ConnectionName(w.obj, c)
           creates == n # Absent /\ ~There(Head(conn[n])) /\ ~There(Newest(conn[n])) IN
       \/ /\ Spend("get") /\ Finish(c)
          /\ excused' = excused \cup {n} /\ UNCHANGED <<conn, queue>>
       \/ creates /\ Spend("api") /\ Retry /\ UNCHANGED <<conn, excused>>
       \/ /\ creates /\ Spend("lost") /\ PutConn(n, Connection(w.obj, c)) /\ Retry
          /\ UNCHANGED excused
    /\ UNCHANGED <<pod, asked>>

--------------------------------------------------------------------------------
(* Surroundings *)

\* The operator restarts: the informers list everything anew.
Crash ==
    /\ Spend("crash")
    /\ pod' = [p \in Pods |-> <<Newest(pod[p])>>]
    /\ conn' = [n \in Names |-> <<Newest(conn[n])>>]
    /\ queue' = {p \in Pods : Newest(pod[p]).state = "live" /\ Newest(pod[p]).enabled}
    /\ w' = Idle
    /\ UNCHANGED <<asked, excused>>

\* The kubelet writes the pod's status.
TouchPod(p) ==
    /\ Spend("touch")
    /\ Head(pod[p]).state = "live" /\ Head(pod[p]).enabled
    /\ queue' = queue \cup {p}
    /\ UNCHANGED <<pod, asked, conn, w, excused>>

LabelPod(p) ==
    /\ Spend("label")
    /\ Newest(pod[p]).state = "live" /\ ~Newest(pod[p]).enabled
    /\ PutPod(p, [Newest(pod[p]) EXCEPT !.enabled = TRUE])
    /\ UNCHANGED <<conn, queue, w, excused>>

\* The webhook is called for the creation only: variables and URL stay as they are.
EditPod(p) ==
    /\ Spend("edit")
    /\ Newest(pod[p]).state = "live"
    /\ \E m \in Manifests \cup {NoPod} :
         PutPod(p, [Newest(pod[p]) EXCEPT !.pool = m.pool, !.ann = m.ann])
    /\ UNCHANGED <<conn, queue, w, excused>>

DeletePod(p) ==
    /\ Newest(pod[p]).state = "live"
    /\ PutPod(p, [Newest(pod[p]) EXCEPT !.state = "gone"])
    /\ UNCHANGED <<conn, queue, w, excused, left>>

DeleteConn(n) ==
    /\ Spend("delete")
    /\ Newest(conn[n]).state = "live"
    /\ PutConn(n, [Newest(conn[n]) EXCEPT !.state = "deleting"])
    /\ excused' = excused \cup {n}
    /\ UNCHANGED <<pod, asked, queue, w>>

\* The garbage collector deletes what a vanished pod owned.
CollectConn(n) ==
    LET o == Newest(conn[n]) IN
    /\ o.state = "live" /\ o.owner # Absent /\ Newest(pod[o.owner]).state = "gone"
    /\ PutConn(n, [o EXCEPT !.state = "deleting"])
    /\ UNCHANGED <<pod, asked, queue, w, excused, left>>

\* The connection controller removes the finalizer.
ConnGone(n) ==
    /\ Newest(conn[n]).state = "deleting"
    /\ PutConn(n, [Newest(conn[n]) EXCEPT !.state = "gone"])
    /\ UNCHANGED <<pod, asked, queue, w, excused, left>>

--------------------------------------------------------------------------------

WorkerStep == Connect \/ \E p \in Pods : Start(p)

Next == \/ WorkerStep \/ ConnectFails \/ Crash
        \/ \E p \in Pods : \/ CreatePod(p) \/ PodEvent(p) \/ TouchPod(p)
                           \/ LabelPod(p) \/ EditPod(p) \/ DeletePod(p)
        \/ \E n \in Names : \/ ConnEvent(n) \/ DeleteConn(n)
                            \/ CollectConn(n) \/ ConnGone(n)

Spec == Init /\ [][Next]_vars

\* The informers, the garbage collector and the connection controller run, and the
\* workqueue, which is first in first out, gives every pod its turn.
Fairness ==
    /\ WF_vars(Connect)
    /\ \A p \in Pods : SF_vars(Start(p)) /\ WF_vars(PodEvent(p))
    /\ \A n \in Names : WF_vars(ConnEvent(n)) /\ WF_vars(CollectConn(n))
                          /\ WF_vars(ConnGone(n))

FairSpec == Spec /\ Fairness

--------------------------------------------------------------------------------
(* Properties *)

PoolNames == GPUPools \cup {m.pool : m \in Manifests} \cup {Absent}
Demands == [pool : PoolNames, ann : [Containers -> [Keys -> Texts]],
            env : [Containers -> Seq(Names)]]
PodObj == [state : {"none", "live", "gone"}, enabled : BOOLEAN, pool : PoolNames,
           ann : [Containers -> [Keys -> Texts]], env : [Containers -> Seq(Names)],
           url : [Containers -> Names \cup {Absent}]]
ConnObj == [state : {"none", "live", "deleting", "gone"}, owner : Pods \cup {Absent},
            pool : PoolNames, res : [Keys -> Int]]

\* Every variable keeps its type; what a connection claims are quantities.
TypeOK ==
    /\ pod \in [Pods -> Seq(PodObj)] /\ \A p \in Pods : pod[p] # <<>>
    /\ asked \in [Pods -> SUBSET Demands]
    /\ conn \in [Names -> Seq(ConnObj)] /\ \A n \in Names : conn[n] # <<>>
    /\ queue \subseteq Pods
    /\ w \in [pc : {"idle", "connect"}, pod : Pods \cup {Absent}, obj : PodObj,
              todo : SUBSET Containers]
    /\ excused \subseteq Names \cup {Absent}
    /\ left \in 0..MaxFaults

Request == [tflopsReq |-> "tflopsReq", tflopsLim |-> "tflopsReq",
            vramReq |-> "vramReq", vramLim |-> "vramReq"]

\* The connection o of the name n claims what the pod's demand d says of a container:
\* nothing is invented, and nothing readable is lost except a limit without its request.
Claims(n, o, d) ==
    /\ o.pool = d.pool
    /\ \E c \in Containers :
         /\ ConnectionName(d, c) = n
         /\ \A k \in Keys :
              /\ o.res[k] # 0 => o.res[k] = d.ann[c][k]
              /\ d.ann[c][k] \in Int /\ d.ann[c][Request[k]] # Absent
                   => o.res[k] = d.ann[c][k]

\* A connection, in every version that a cache may have, claims what the pod that owns
\* it asked for in one version of its annotations: pool and quantities are not put
\* together from two versions, two containers or two pods, although users edit the
\* annotations while the pod controller works on an old copy of the pod, and it may
\* create the connection after the pod has gone.  It need not be what the pod asks
\* for now: a connection that exists is never updated (pod_controller.go:72-79).
ClaimsMatch ==
    \A n \in Names : \A i \in 1..Len(conn[n]) :
      LET o == conn[n][i] IN
      There(o) /\ o.owner # Absent => \E d \in asked[o.owner] : Claims(n, o, d)

Asks(p, c) ==
    LET o == Newest(pod[p]) IN
    /\ o.state = "live" /\ o.url[c] # Absent /\ c \in Marked(o)
    /\ \A d \in Marked(o) : ConnectionName(o, d) # Absent
Served(p, c) == There(Newest(conn[<<p, c>>]))
Copied(p, c) == \E q \in Pods \ {p} : ConnectionName(Newest(pod[q]), c) = <<p, c>>

\* The connection that the client in a container asks for comes into being and
\* stays as long as the pod: through failed and repeated calls, restarts and old caches.
\* Not so after an edit of the annotations that leaves the container out, or that adds
\* one without a connection's name, whose refused creation ends every loop.  Not so
\* where the read of the connection failed, and not for a pod that is a copy
\* or has one: the copy may be the first to create the connection of the original,
\* which then goes with the copy.
Connected ==
    <>[](\A p \in Pods, c \in Containers :
           Asks(p, c) /\ Len(Newest(pod[p]).env[c]) = 1 /\ <<p, c>> \notin excused
             => Served(p, c) \/ Copied(p, c))

\* In the end every connection belongs to a pod that exists, even if it was created
\* after the pod had gone.
Collected ==
    <>[](\A n \in Names :
           LET o == Newest(conn[n]) IN
           There(o) => o.owner # Absent /\ Newest(pod[o.owner]).state = "live")

--------------------------------------------------------------------------------
(* What the proofs rest on *)

\* What a live version of a pod asks for has been recorded.
PodKeeps(p) == \A i \in DOMAIN pod[p] :
                 pod[p][i].state = "live" => Demand(pod[p][i]) \in asked[p]

\* The worker's copy of a pod may be old, but the pod asked for what it says.
WorkerKnows ==
    w.pc = "connect" => w.pod \in Pods /\ Demand(w.obj) \in asked[w.pod] /\ w.todo # {}

\* The owner of a connection asked for what the connection claims, even after either
\* of them has gone.
Owned(n, o) == o.owner # Absent => \E d \in asked[o.owner] : Claims(n, o, d)

ConnKnows(n) == \A i \in DOMAIN conn[n] : Owned(n, conn[n][i])

AdmissionInv == /\ TypeOK /\ WorkerKnows
                /\ \A p \in Pods : PodKeeps(p)
                /\ \A n \in Names : ConnKnows(n)

================================================================================
