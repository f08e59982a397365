-------------------------- MODULE PodAdmission_proofs --------------------------
(***************************************************************************)
(* Proofs about PodAdmission, for any pods, containers, GPUPools and       *)
(* manifests and any kinds and numbers of disturbances.                    *)
(***************************************************************************)
EXTENDS PodAdmission, WellFoundedInduction, TLAPS

\* The oldest and the newest of the versions of an object.
LEMMA Ends ==
    ASSUME NEW S, NEW s \in Seq(S), s # <<>>
    PROVE  /\ Newest(s) \in S /\ Head(s) \in S /\ Len(s) \in DOMAIN s /\ 1 \in DOMAIN s
           /\ Newest(s) = s[Len(s)] /\ Head(s) = s[1]
  BY DEF Newest

\* A write adds the newest version.
LEMMA Pushed ==
    ASSUME NEW S, NEW s \in Seq(S), s # <<>>, NEW o \in S
    PROVE  /\ Push(s, o) \in Seq(S) /\ Push(s, o) # <<>>
           /\ \A i \in DOMAIN Push(s, o) :
                \/ Push(s, o)[i] = o
                \/ i \in DOMAIN s /\ Push(s, o)[i] = s[i]
  BY DEF Push, Newest

LEMMA PushedNewest ==
    ASSUME NEW S, NEW s \in Seq(S), s # <<>>, NEW o \in S
    PROVE  Newest(Push(s, o)) = o
  BY DEF Push, Newest

\* An event of an informer drops the oldest version.
LEMMA Dropped ==
    ASSUME NEW S, NEW s \in Seq(S), Len(s) > 1
    PROVE  /\ Tail(s) \in Seq(S) /\ Tail(s) # <<>> /\ Newest(Tail(s)) = Newest(s)
           /\ \A i \in DOMAIN Tail(s) : i + 1 \in DOMAIN s /\ Tail(s)[i] = s[i + 1]
<1>1. /\ Tail(s) \in Seq(S) /\ Len(Tail(s)) = Len(s) - 1
      /\ \A i \in 1..(Len(s) - 1) : Tail(s)[i] = s[i + 1]
  OBVIOUS
<1>2. DOMAIN s = 1..Len(s) /\ Len(s) \in Nat
  OBVIOUS
<1>3. DOMAIN Tail(s) = 1..(Len(s) - 1)
  BY <1>1
<1>4. Len(<<>>) = 0
  OBVIOUS
<1>5. Len(Tail(s)) # 0
  BY <1>1, <1>2
<1>6. Tail(s) # <<>>
  BY <1>4, <1>5, Zenon
<1>. QED
  BY <1>1, <1>2, <1>3, <1>6 DEF Newest

\* The informers list an object anew.
LEMMA Listed ==
    ASSUME NEW S, NEW o \in S
    PROVE  /\ <<o>> \in Seq(S) /\ <<o>> # <<>> /\ Newest(<<o>>) = o
           /\ \A i \in DOMAIN <<o>> : <<o>>[i] = o
  BY DEF Newest

\* The loop over the connections takes a container that is still to be done.
LEMMA MinIn ==
    ASSUME NEW T, T \subseteq Containers, T # {}
    PROVE  Min(T) \in T
<1>1. T \subseteq Nat
  BY PodAssumption DEF Containers
<1>2. PICK x \in T : \A y \in T : ~ (<<y, x>> \in OpToRel(<, Nat))
  BY <1>1, WFMin, NatLessThanWellFounded, Zenon
<1>3. ASSUME NEW y \in T PROVE x <= y
  <2>1. x \in Nat /\ y \in Nat
    BY <1>1
  <2>2. y < x => <<y, x>> \in OpToRel(<, Nat)
    BY <2>1 DEF OpToRel
  <2>3. ~ (y < x)
    BY <1>2, <2>2, Zenon
  <2>. QED
    BY <2>1, <2>3
<1>. QED
  BY <1>3 DEF Min

--------------------------------------------------------------------------------
(* The invariant by the part of the state it is about *)

PodPart  == /\ pod \in [Pods -> Seq(PodObj)] /\ \A p \in Pods : pod[p] # <<>>
            /\ asked \in [Pods -> SUBSET Demands]
            /\ \A p \in Pods : PodKeeps(p)
ConnPart == /\ conn \in [Names -> Seq(ConnObj)] /\ \A n \in Names : conn[n] # <<>>
            /\ \A n \in Names : ConnKnows(n)
Workers  == [pc : {"idle", "connect"}, pod : Pods \cup {Absent}, obj : PodObj,
             todo : SUBSET Containers]
WorkPart == w \in Workers /\ WorkerKnows
RestPart == queue \subseteq Pods /\ excused \subseteq Names \cup {Absent}
            /\ left \in 0..MaxFaults

LEMMA InvParts == AdmissionInv <=> PodPart /\ ConnPart /\ WorkPart /\ RestPart
  BY DEF AdmissionInv, TypeOK, PodPart, ConnPart, WorkPart, Workers, RestPart

LEMMA InvPartsNext == AdmissionInv' <=> PodPart' /\ ConnPart' /\ WorkPart' /\ RestPart'
  BY DEF AdmissionInv, TypeOK, PodPart, ConnPart, WorkPart, Workers, RestPart

\* What a pod has asked for is not forgotten.
PodsKeep == \A p \in Pods : asked[p] \subseteq asked'[p]

\* A connection stays right.
LEMMA StaysOwned ==
    ASSUME NEW n \in Names, NEW o \in ConnObj, Owned(n, o), PodsKeep
    PROVE  o.owner # Absent => \E d \in asked'[o.owner] : Claims(n, o, d)
<1>1. o.owner # Absent => o.owner \in Pods
  BY DEF ConnObj
<1>. QED
  BY <1>1 DEF Owned, PodsKeep

\* A write of a connection that is right.
LEMMA ConnPut ==
    ASSUME AdmissionInv, NEW n \in Names, NEW o \in ConnObj, Owned(n, o),
           PutConn(n, o), UNCHANGED asked
    PROVE  ConnPart'
<1>. DEFINE s == Push(conn[n], o)
<1>1. conn \in [Names -> Seq(ConnObj)] /\ \A m \in Names : conn[m] # <<>> /\ ConnKnows(m)
  BY InvParts DEF ConnPart
<1>2. conn' = [conn EXCEPT ![n] = s]
  BY DEF PutConn
<1>3. /\ s \in Seq(ConnObj) /\ s # <<>>
      /\ \A i \in DOMAIN s : s[i] = o \/ (i \in DOMAIN conn[n] /\ s[i] = conn[n][i])
  BY <1>1, Pushed
<1>. HIDE DEF s
<1>4. conn' \in [Names -> Seq(ConnObj)] /\ \A m \in Names : conn'[m] # <<>>
  BY <1>1, <1>2, <1>3
<1>5. ASSUME NEW m \in Names, NEW i \in DOMAIN conn'[m]
      PROVE  Owned(m, conn'[m][i])
  <2>1. CASE m = n
    <3>1. conn'[m] = s
      BY <1>1, <1>2, <2>1
    <3>. QED
      BY <1>1, <1>3, <1>5, <2>1, <3>1 DEF ConnKnows
  <2>2. CASE m # n
    <3>1. conn'[m] = conn[m]
      BY <1>1, <1>2, <2>2
    <3>. QED
      BY <1>1, <1>5, <3>1 DEF ConnKnows
  <2>. QED
    BY <2>1, <2>2
<1>6. ASSUME NEW m \in Names PROVE ConnKnows(m)'
  BY <1>5 DEF ConnKnows, Owned
<1>. QED
  BY <1>4, <1>6 DEF ConnPart

\* A write of a pod: what the new version asks for is recorded.
LEMMA PodPut ==
    ASSUME AdmissionInv, NEW p \in Pods, NEW o \in PodObj, PutPod(p, o)
    PROVE  PodPart' /\ PodsKeep
<1>. DEFINE s == Push(pod[p], o)
<1>1. /\ pod \in [Pods -> Seq(PodObj)] /\ \A q \in Pods : pod[q] # <<>> /\ PodKeeps(q)
      /\ asked \in [Pods -> SUBSET Demands]
  BY InvParts DEF PodPart
<1>2. /\ pod' = [pod EXCEPT ![p] = s]
      /\ asked' = IF o.state = "live" THEN [asked EXCEPT ![p] = @ \cup {Demand(o)}] ELSE asked
  BY DEF PutPod
<1>3. /\ s \in Seq(PodObj) /\ s # <<>>
      /\ \A i \in DOMAIN s : s[i] = o \/ (i \in DOMAIN pod[p] /\ s[i] = pod[p][i])
  BY <1>1, Pushed
<1>. HIDE DEF s
<1>4. pod' \in [Pods -> Seq(PodObj)] /\ \A q \in Pods : pod'[q] # <<>>
  BY <1>1, <1>2, <1>3
<1>5. pod'[p] = s /\ \A q \in Pods : q # p => pod'[q] = pod[q]
  BY <1>1, <1>2
<1>6. Demand(o) \in Demands
  BY DEF Demand, Demands, PodObj
<1>7. /\ asked' \in [Pods -> SUBSET Demands] /\ PodsKeep
      /\ o.state = "live" => Demand(o) \in asked'[p]
  BY <1>1, <1>2, <1>6 DEF PodsKeep
<1>8. ASSUME NEW q \in Pods PROVE PodKeeps(q)'
  <2>1. CASE q = p
    <3>1. ASSUME NEW i \in DOMAIN s, s[i].state = "live" PROVE Demand(s[i]) \in asked'[p]
      BY <1>1, <1>3, <1>7, <3>1 DEF PodKeeps, PodsKeep
    <3>. QED
      BY <1>5, <2>1, <3>1 DEF PodKeeps, Demand
  <2>2. CASE q # p
    BY <1>1, <1>5, <1>7, <2>2 DEF PodKeeps, PodsKeep, Demand
  <2>. QED
    BY <2>1, <2>2
<1>. QED
  BY <1>4, <1>7, <1>8 DEF PodPart

\* What a part that a step leaves alone needs of the pods.
LEMMA Frames ==
    ASSUME AdmissionInv
    PROVE  /\ UNCHANGED <<pod, asked>> => PodPart' /\ PodsKeep
           /\ PodsKeep /\ UNCHANGED conn => ConnPart'
           /\ PodsKeep /\ UNCHANGED w => WorkPart'
<1>. USE InvParts
<1>1. ASSUME UNCHANGED <<pod, asked>> PROVE PodPart' /\ PodsKeep
  BY <1>1 DEF PodPart, PodKeeps, PodsKeep, Demand
<1>2. ASSUME PodsKeep, UNCHANGED conn PROVE ConnPart'
  <2>1. conn \in [Names -> Seq(ConnObj)] /\ \A m \in Names : conn[m] # <<>> /\ ConnKnows(m)
    BY InvParts DEF ConnPart
  <2>2. ASSUME NEW n \in Names, NEW i \in DOMAIN conn[n] PROVE Owned(n, conn[n][i])'
    <3>1. conn[n][i] \in ConnObj /\ Owned(n, conn[n][i])
      BY <2>1 DEF ConnKnows
    <3>. QED
      BY <1>2, <3>1, StaysOwned DEF Owned
  <2>. QED
    BY <1>2, <2>1, <2>2 DEF ConnPart, ConnKnows
<1>3. ASSUME PodsKeep, UNCHANGED w PROVE WorkPart'
  BY <1>3 DEF WorkPart, WorkerKnows, PodsKeep, Demand
<1>. QED
  BY <1>1, <1>2, <1>3
--------------------------------------------------------------------------------
(* Objects *)

LEMMA Empties == NoPod \in PodObj /\ NoConn \in ConnObj /\ Idle \in Workers
<1>1. \A c \in Containers : <<>> \in Seq(Names)
  OBVIOUS
<1>2. NoPod \in PodObj
  BY <1>1 DEF NoPod, PodObj, PoolNames, Texts
<1>3. NoConn \in ConnObj
  BY DEF NoConn, ConnObj, PoolNames
<1>. QED
  BY <1>2, <1>3 DEF Idle, Workers

LEMMA Resting ==
    ASSUME w' = Idle
    PROVE  WorkPart'
  BY Empties DEF WorkPart, WorkerKnows, Idle

\* What ParseTFResources reads from the annotations of a container.
LEMMA Parsed ==
    ASSUME NEW a \in [Keys -> Texts]
    PROVE  /\ TFResource(a) \in [Keys -> Int]
           /\ \A k \in Keys :
                /\ TFResource(a)[k] # 0 => TFResource(a)[k] = a[k]
                /\ a[k] \in Int /\ a[Request[k]] # Absent => TFResource(a)[k] = a[k]
<1>1. ASSUME NEW t \in Texts
      PROVE  /\ ParseQuantity(t) \in Int
             /\ ParseQuantity(t) # 0 => ParseQuantity(t) = t
             /\ t \in Int => ParseQuantity(t) = t
  BY TextAssumption DEF ParseQuantity, Texts
<1>2. ASSUME NEW k \in Keys
      PROVE  /\ TFResource(a)[k] \in Int
             /\ TFResource(a)[k] # 0 => TFResource(a)[k] = a[k]
             /\ a[k] \in Int /\ a[Request[k]] # Absent => TFResource(a)[k] = a[k]
  <2>1. a[k] \in Texts
    OBVIOUS
  <2>2. TFResource(a)[k] = IF \/ k = "tflopsLim" /\ a.tflopsReq = Absent
                              \/ k = "vramLim" /\ a.vramReq = Absent
                           THEN 0 ELSE ParseQuantity(a[k])
    BY DEF TFResource
  <2>3. /\ k = "tflopsLim" => Request[k] = "tflopsReq"
        /\ k = "vramLim" => Request[k] = "vramReq"
    BY DEF Request
  <2>. QED
    BY <1>1, <2>1, <2>2, <2>3
<1>. QED
  BY <1>2 DEF TFResource

\* The name of a connection is one of the names in the pod.
LEMMA Named ==
    ASSUME NEW o \in PodObj, NEW c \in Containers
    PROVE  ConnectionName(o, c) \in Names \cup {Absent}
<1>1. o.env[c] \in Seq(Names)
  BY DEF PodObj
<1>. QED
  BY <1>1 DEF ConnectionName

\* The connection that the pod controller creates claims what the pod asks for.
LEMMA Created ==
    ASSUME AdmissionInv, w.pc = "connect", NEW c \in w.todo,
           ConnectionName(w.obj, c) # Absent
    PROVE  /\ Connection(w.obj, c) \in ConnObj
           /\ Owned(ConnectionName(w.obj, c), Connection(w.obj, c))
<1>1. w \in Workers /\ WorkerKnows
  BY InvParts DEF WorkPart
<1>2. w.obj \in PodObj /\ w.pod \in Pods /\ c \in Containers
  BY <1>1 DEF Workers, WorkerKnows
<1>3. w.obj.ann[c] \in [Keys -> Texts] /\ w.obj.pool \in PoolNames
  BY <1>2 DEF PodObj
<1>. DEFINE o == Connection(w.obj, c)
<1>4. /\ o.state = "live" /\ o.owner = w.pod /\ o.pool = w.obj.pool
      /\ o.res = TFResource(w.obj.ann[c])
  BY DEF Connection
<1>5. o \in ConnObj
  BY <1>2, <1>3, Parsed DEF Connection, ConnObj
<1>. HIDE DEF o
<1>6. Claims(ConnectionName(w.obj, c), o, Demand(w.obj))
  BY <1>2, <1>3, <1>4, Parsed DEF Claims, Demand, ConnectionName
<1>7. Owned(ConnectionName(w.obj, c), o)
  BY <1>1, <1>4, <1>6 DEF Owned, WorkerKnows
<1>. QED
  BY <1>5, <1>7 DEF o
--------------------------------------------------------------------------------
(* The steps *)

LEMMA SpendTyped ==
    ASSUME left \in 0..MaxFaults, NEW f, Spend(f)
    PROVE  left' \in 0..MaxFaults
  BY FaultAssumption DEF Spend

LEMMA InvInit == Init => AdmissionInv
<1>. SUFFICES ASSUME Init PROVE AdmissionInv
  OBVIOUS
<1>1. /\ pod = [p \in Pods |-> <<NoPod>>] /\ conn = [n \in Names |-> <<NoConn>>]
      /\ asked = [p \in Pods |-> {}] /\ queue = {} /\ w = Idle /\ excused = {} /\ left = MaxFaults
  BY DEF Init
<1>2. /\ <<NoPod>> \in Seq(PodObj) /\ <<NoPod>> # <<>> /\ Newest(<<NoPod>>) = NoPod
      /\ \A i \in DOMAIN <<NoPod>> : <<NoPod>>[i] = NoPod
  BY Empties, Listed
<1>3. /\ <<NoConn>> \in Seq(ConnObj) /\ <<NoConn>> # <<>>
      /\ \A i \in DOMAIN <<NoConn>> : <<NoConn>>[i] = NoConn
  BY Empties, Listed
<1>4. NoPod.state = "none" /\ NoConn.owner = Absent /\ Idle.pc = "idle"
  BY DEF NoPod, NoConn, Idle
<1>5. PodPart
  BY <1>1, <1>2, <1>4 DEF PodPart, PodKeeps
<1>6. ConnPart
  BY <1>1, <1>3, <1>4 DEF ConnPart, ConnKnows, Owned
<1>7. WorkPart
  BY <1>1, <1>4, Empties DEF WorkPart, WorkerKnows
<1>8. RestPart
  BY <1>1, FaultAssumption DEF RestPart
<1>. QED
  BY <1>5, <1>6, <1>7, <1>8, InvParts

\* Admission: what the pod brings and what the webhook adds.
LEMMA CreateInv ==
    ASSUME AdmissionInv, NEW p \in Pods, CreatePod(p)
    PROVE  AdmissionInv'
<1>1. Newest(pod[p]).state = "none" /\ UNCHANGED <<conn, queue, w, excused>>
  BY DEF CreatePod
<1>2. PICK m \in Manifests :
        LET o == [NoPod EXCEPT !.state = "live", !.enabled = m.enabled, !.pool = m.pool,
                               !.ann = m.ann, !.env = m.env] IN
        \/ (~m.enabled \/ Marked(o) = {}) /\ PutPod(p, o) /\ UNCHANGED left
        \/ /\ m.enabled /\ Marked(o) # {} /\ m.pool \in GPUPools
           /\ PutPod(p, Patched(p, o)) /\ UNCHANGED left
        \/ /\ m.enabled /\ Marked(o) # {}
           /\ IF m.pool \in GPUPools THEN Spend("api") ELSE UNCHANGED left
           /\ PutPod(p, [NoPod EXCEPT !.state = "gone"])
  BY DEF CreatePod
<1>. DEFINE o == [NoPod EXCEPT !.state = "live", !.enabled = m.enabled, !.pool = m.pool,
                               !.ann = m.ann, !.env = m.env]
            x == [NoPod EXCEPT !.state = "gone"]
<1>3. o \in PodObj /\ o.state = "live"
  BY Empties, ManifestAssumption DEF PodObj, PoolNames
<1>4. x \in PodObj /\ x.state = "gone"
  BY Empties DEF PodObj
<1>5. \/ PutPod(p, o) /\ UNCHANGED left
      \/ PutPod(p, Patched(p, o)) /\ UNCHANGED left
      \/ PutPod(p, x) /\ (Spend("api") \/ UNCHANGED left)
  BY <1>2
<1>. HIDE DEF o, x
<1>6. Patched(p, o) \in PodObj /\ Patched(p, o).state = "live"
  <2>. DEFINE env == [c \in Containers |->
                        IF c \in Marked(o) THEN Append(o.env[c], <<p, c>>) ELSE o.env[c]]
              url == [c \in Containers |-> IF c \in Marked(o) THEN <<p, c>> ELSE Absent]
  <2>1. o.env \in [Containers -> Seq(Names)]
    BY <1>3 DEF PodObj
  <2>2. \A c \in Containers : <<p, c>> \in Names
    BY DEF Names
  <2>3. env \in [Containers -> Seq(Names)]
    BY <2>1, <2>2
  <2>4. url \in [Containers -> Names \cup {Absent}]
    BY <2>2
  <2>5. Patched(p, o) = [o EXCEPT !.env = env, !.url = url]
    BY DEF Patched
  <2>. HIDE DEF env, url
  <2>. QED
    BY <1>3, <2>3, <2>4, <2>5 DEF PodObj
<1>7. PodPart' /\ PodsKeep
  BY <1>1, <1>3, <1>4, <1>5, <1>6, PodPut
<1>8. RestPart'
  <2>1. RestPart
    BY InvParts
  <2>2. Spend("api") \/ UNCHANGED left
    BY <1>5
  <2>. QED
    BY <1>1, <2>1, <2>2, SpendTyped DEF RestPart
<1>. QED
  BY <1>1, <1>7, <1>8, Frames, InvPartsNext

\* Changes of a pod after its admission.
LEMMA PodChangeInv ==
    ASSUME AdmissionInv, NEW p \in Pods, LabelPod(p) \/ EditPod(p) \/ DeletePod(p)
    PROVE  AdmissionInv'
<1>. DEFINE m == Newest(pod[p])
<1>1. m \in PodObj
  BY InvParts, Ends DEF PodPart
<1>2. UNCHANGED <<conn, queue, w, excused>>
  BY DEF LabelPod, EditPod, DeletePod
<1>3. PICK o \in PodObj : PutPod(p, o)
  <2>. HIDE DEF m
  <2>1. [m EXCEPT !.enabled = TRUE] \in PodObj
    BY <1>1 DEF PodObj
  <2>2. [m EXCEPT !.state = "gone"] \in PodObj
    BY <1>1 DEF PodObj
  <2>3. CASE LabelPod(p)
    BY <2>1, <2>3 DEF LabelPod, m
  <2>4. CASE DeletePod(p)
    BY <2>2, <2>4 DEF DeletePod, m
  <2>5. CASE EditPod(p)
    <3>1. PICK x \in Manifests \cup {NoPod} :
            PutPod(p, [m EXCEPT !.pool = x.pool, !.ann = x.ann])
      BY <2>5 DEF EditPod, m
    <3>2. x.ann \in [Containers -> [Keys -> Texts]] /\ x.pool \in PoolNames
      BY Empties, ManifestAssumption DEF PodObj, PoolNames
    <3>3. [m EXCEPT !.pool = x.pool, !.ann = x.ann] \in PodObj
      BY <1>1, <3>2 DEF PodObj
    <3>. QED
      BY <3>1, <3>3
  <2>. QED
    BY <2>3, <2>4, <2>5
<1>4. PodPart' /\ PodsKeep
  BY <1>3, PodPut
<1>5. RestPart'
  <2>1. RestPart
    BY InvParts
  <2>2. Spend("label") \/ Spend("edit") \/ UNCHANGED left
    BY DEF LabelPod, EditPod, DeletePod
  <2>. QED
    BY <1>2, <2>1, <2>2, SpendTyped DEF RestPart
<1>. QED
  BY <1>2, <1>4, <1>5, Frames, InvPartsNext

\* The informer of the pods.
LEMMA PodEventInv ==
    ASSUME AdmissionInv, NEW p \in Pods, PodEvent(p)
    PROVE  AdmissionInv'
<1>. DEFINE s == Tail(pod[p])
<1>1. /\ pod \in [Pods -> Seq(PodObj)] /\ \A q \in Pods : pod[q] # <<>> /\ PodKeeps(q)
      /\ asked \in [Pods -> SUBSET Demands]
  BY InvParts DEF PodPart
<1>2. /\ Len(pod[p]) > 1 /\ pod' = [pod EXCEPT ![p] = s]
      /\ UNCHANGED <<asked, conn, w, excused, left>> /\ queue' \subseteq queue \cup {p}
  BY DEF PodEvent
<1>3. /\ s \in Seq(PodObj) /\ s # <<>> /\ Newest(s) = Newest(pod[p])
      /\ \A i \in DOMAIN s : i + 1 \in DOMAIN pod[p] /\ s[i] = pod[p][i + 1]
  BY <1>1, <1>2, Dropped
<1>. HIDE DEF s
<1>4. /\ pod' \in [Pods -> Seq(PodObj)] /\ \A q \in Pods : pod'[q] # <<>>
      /\ pod'[p] = s /\ \A q \in Pods : q # p => pod'[q] = pod[q]
  BY <1>1, <1>2, <1>3
<1>5. PodsKeep
  BY <1>2 DEF PodsKeep
<1>6. ASSUME NEW q \in Pods PROVE PodKeeps(q)'
  <2>1. CASE q = p
    BY <1>1, <1>2, <1>3, <1>4, <2>1 DEF PodKeeps, Demand
  <2>2. CASE q # p
    BY <1>1, <1>2, <1>4, <2>2 DEF PodKeeps, Demand
  <2>. QED
    BY <2>1, <2>2
<1>7. RestPart'
  BY <1>2, InvParts DEF RestPart
<1>. QED
  BY <1>1, <1>2, <1>4, <1>5, <1>6, <1>7, Frames, InvPartsNext DEF PodPart

\* The informer of the connections.
LEMMA ConnEventInv ==
    ASSUME AdmissionInv, NEW n \in Names, ConnEvent(n)
    PROVE  AdmissionInv'
<1>. DEFINE s == Tail(conn[n])
<1>1. conn \in [Names -> Seq(ConnObj)] /\ \A m \in Names : conn[m] # <<>> /\ ConnKnows(m)
  BY InvParts DEF ConnPart
<1>2. /\ Len(conn[n]) > 1 /\ conn' = [conn EXCEPT ![n] = s]
      /\ UNCHANGED <<pod, asked, queue, w, excused, left>>
  BY DEF ConnEvent
<1>3. /\ s \in Seq(ConnObj) /\ s # <<>>
      /\ \A i \in DOMAIN s : i + 1 \in DOMAIN conn[n] /\ s[i] = conn[n][i + 1]
  BY <1>1, <1>2, Dropped
<1>. HIDE DEF s
<1>4. /\ conn' \in [Names -> Seq(ConnObj)] /\ \A m \in Names : conn'[m] # <<>>
      /\ conn'[n] = s /\ \A m \in Names : m # n => conn'[m] = conn[m]
  BY <1>1, <1>2, <1>3
<1>5. ASSUME NEW m \in Names, NEW i \in DOMAIN conn'[m] PROVE Owned(m, conn'[m][i])
  <2>1. CASE m = n
    BY <1>1, <1>3, <1>4, <1>5, <2>1 DEF ConnKnows
  <2>2. CASE m # n
    BY <1>1, <1>4, <1>5, <2>2 DEF ConnKnows
  <2>. QED
    BY <2>1, <2>2
<1>6. ASSUME NEW m \in Names PROVE ConnKnows(m)'
  BY <1>2, <1>5 DEF ConnKnows, Owned
<1>7. RestPart'
  BY <1>2, InvParts DEF RestPart
<1>. QED
  BY <1>2, <1>4, <1>6, <1>7, Frames, InvPartsNext DEF ConnPart

\* A connection is deleted, by a user or the garbage collector, and goes.
LEMMA ConnChangeInv ==
    ASSUME AdmissionInv, NEW n \in Names, DeleteConn(n) \/ CollectConn(n) \/ ConnGone(n)
    PROVE  AdmissionInv'
<1>. DEFINE m == Newest(conn[n])
<1>1. m \in ConnObj /\ Owned(n, m)
  BY InvParts, Ends DEF ConnPart, ConnKnows
<1>2. /\ UNCHANGED <<pod, asked, queue, w>> /\ excused' \subseteq excused \cup {n}
      /\ Spend("delete") \/ UNCHANGED left
  BY DEF DeleteConn, CollectConn, ConnGone
<1>3. PICK t \in {"deleting", "gone"} : PutConn(n, [m EXCEPT !.state = t])
  BY DEF DeleteConn, CollectConn, ConnGone
<1>. HIDE DEF m
<1>. DEFINE o == [m EXCEPT !.state = t]
<1>4. o \in ConnObj /\ o.owner = m.owner /\ o.pool = m.pool /\ o.res = m.res
  BY <1>1 DEF ConnObj
<1>5. PutConn(n, o)
  BY <1>3
<1>. HIDE DEF o
<1>6. Owned(n, o)
  BY <1>1, <1>4 DEF Owned, Claims
<1>7. ConnPart'
  BY <1>2, <1>4, <1>5, <1>6, ConnPut
<1>8. RestPart'
  <2>1. RestPart
    BY InvParts
  <2>. QED
    BY <1>2, <2>1, SpendTyped DEF RestPart
<1>. QED
  BY <1>2, <1>7, <1>8, Frames, InvPartsNext

\* The pod controller takes a pod from its queue.
LEMMA StartInv ==
    ASSUME AdmissionInv, NEW p \in Pods, Start(p)
    PROVE  AdmissionInv'
<1>. DEFINE o == Head(pod[p])
            v == [pc |-> "connect", pod |-> p, obj |-> o, todo |-> Marked(o)]
<1>1. /\ o \in PodObj /\ Newest(pod[p]) \in PodObj
      /\ o.state = "live" => Demand(o) \in asked[p]
  BY InvParts, Ends DEF PodPart, PodKeeps
<1>2. /\ w' = Idle \/ (o.state = "live" /\ Marked(o) # {} /\ w' = v)
      /\ queue' = queue \ {p} /\ UNCHANGED <<pod, asked, conn, excused, left>>
  BY DEF Start
<1>3. WorkPart'
  <2>1. CASE w' = Idle
    BY <2>1, Resting
  <2>2. CASE o.state = "live" /\ Marked(o) # {} /\ w' = v
    <3>. HIDE DEF o
    <3>1. Marked(o) \in SUBSET Containers
      BY DEF Marked
    <3>2. v \in Workers
      BY <1>1, <3>1 DEF Workers
    <3>3. v.pod = p /\ v.obj = o /\ v.todo = Marked(o)
      OBVIOUS
    <3>. HIDE DEF v
    <3>. QED
      BY <1>1, <1>2, <2>2, <3>2, <3>3 DEF WorkPart, WorkerKnows, Demand
  <2>. QED
    BY <1>2, <2>1, <2>2
<1>4. RestPart'
  BY <1>2, InvParts DEF RestPart
<1>. QED
  BY <1>2, <1>3, <1>4, Frames, InvPartsNext

\* The loop goes on to the next container, or ends.
LEMMA Finished ==
    ASSUME AdmissionInv, w.pc = "connect", NEW c, Finish(c), UNCHANGED asked
    PROVE  WorkPart'
<1>1. CASE w.todo = {c}
  BY <1>1, Resting DEF Finish
<1>2. CASE w.todo # {c}
  <2>. DEFINE t == w.todo \ {c}
              v == [w EXCEPT !.todo = t]
  <2>1. w \in Workers /\ WorkerKnows
    BY InvParts DEF WorkPart
  <2>2. w' = v
    BY <1>2 DEF Finish
  <2>3. w.todo # {} /\ w.todo \in SUBSET Containers
    BY <2>1 DEF WorkerKnows, Workers
  <2>4. t # {} /\ t \in SUBSET Containers
    BY <1>2, <2>3
  <2>. HIDE DEF t
  <2>5. v \in Workers /\ v.pc = w.pc /\ v.pod = w.pod /\ v.obj = w.obj /\ v.todo = t
    BY <2>1, <2>4 DEF Workers
  <2>. HIDE DEF v
  <2>. QED
    BY <2>1, <2>2, <2>4, <2>5 DEF WorkPart, WorkerKnows, Demand
<1>. QED
  BY <1>1, <1>2

\* One connection of the pod being reconciled, with whatever fails.
LEMMA ConnectInv ==
    ASSUME AdmissionInv, Connect \/ ConnectFails
    PROVE  AdmissionInv'
<1>. DEFINE c == Min(w.todo)
            n == ConnectionName(w.obj, c)
<1>1. w.pc = "connect" /\ UNCHANGED <<pod, asked>>
  BY DEF Connect, ConnectFails
<1>2. w \in Workers /\ WorkerKnows /\ RestPart
  BY InvParts DEF WorkPart
<1>3. w.obj \in PodObj /\ w.pod \in Pods /\ w.todo # {} /\ w.todo \subseteq Containers
  BY <1>1, <1>2 DEF Workers, WorkerKnows
<1>4. c \in w.todo /\ c \in Containers
  BY <1>3, MinIn
<1>5. n \in Names \cup {Absent}
  BY <1>3, <1>4, Named
<1>6. /\ (Finish(c) /\ UNCHANGED queue) \/ Retry
      /\ UNCHANGED conn \/ (n # Absent /\ PutConn(n, Connection(w.obj, c)))
      /\ UNCHANGED left \/ \E f \in Faults : Spend(f)
      /\ excused' \subseteq excused \cup {n}
  BY DEF Connect, ConnectFails, Faults
<1>. HIDE DEF c, n
<1>7. ConnPart'
  <2>1. CASE UNCHANGED conn
    BY <1>1, <2>1, Frames
  <2>2. CASE n # Absent /\ PutConn(n, Connection(w.obj, c))
    <3>1. n \in Names
      BY <1>5, <2>2
    <3>2. Connection(w.obj, c) \in ConnObj /\ Owned(n, Connection(w.obj, c))
      BY <1>1, <1>4, <2>2, Created DEF n
    <3>. QED
      BY <1>1, <2>2, <3>1, <3>2, ConnPut
  <2>. QED
    BY <1>6, <2>1, <2>2
<1>8. WorkPart' /\ queue' \subseteq Pods
  <2>1. CASE Finish(c) /\ UNCHANGED queue
    BY <1>1, <1>2, <2>1, Finished DEF RestPart
  <2>2. CASE Retry
    BY <1>2, <1>3, <2>2, Resting DEF Retry, RestPart
  <2>. QED
    BY <1>6, <2>1, <2>2
<1>9. RestPart'
  BY <1>2, <1>5, <1>6, <1>8, SpendTyped DEF RestPart
<1>. QED
  BY <1>1, <1>7, <1>8, <1>9, Frames, InvPartsNext

\* The operator restarts.
LEMMA CrashInv ==
    ASSUME AdmissionInv, Crash
    PROVE  AdmissionInv'
<1>1. /\ pod \in [Pods -> Seq(PodObj)] /\ \A q \in Pods : pod[q] # <<>> /\ PodKeeps(q)
      /\ asked \in [Pods -> SUBSET Demands]
  BY InvParts DEF PodPart
<1>2. conn \in [Names -> Seq(ConnObj)] /\ \A m \in Names : conn[m] # <<>> /\ ConnKnows(m)
  BY InvParts DEF ConnPart
<1>3. /\ pod' = [p \in Pods |-> <<Newest(pod[p])>>]
      /\ conn' = [n \in Names |-> <<Newest(conn[n])>>]
      /\ queue' \subseteq Pods /\ w' = Idle /\ Spend("crash") /\ UNCHANGED <<asked, excused>>
  BY DEF Crash
<1>4. ASSUME NEW p \in Pods
      PROVE  /\ pod'[p] \in Seq(PodObj) /\ pod'[p] # <<>>
             /\ \A i \in DOMAIN pod'[p] : pod'[p][i] = Newest(pod[p])
             /\ Newest(pod[p]).state = "live" => Demand(Newest(pod[p])) \in asked[p]
  <2>1. /\ Newest(pod[p]) \in PodObj
        /\ Newest(pod[p]).state = "live" => Demand(Newest(pod[p])) \in asked[p]
    BY <1>1, Ends DEF PodKeeps
  <2>2. pod'[p] = <<Newest(pod[p])>>
    BY <1>3
  <2>. QED
    BY <2>1, <2>2, Listed
<1>5. PodsKeep
  BY <1>3 DEF PodsKeep
<1>6. PodPart'
  <2>1. ASSUME NEW p \in Pods PROVE PodKeeps(p)'
    BY <1>3, <1>4 DEF PodKeeps, Demand
  <2>2. pod' \in [Pods -> Seq(PodObj)]
    BY <1>3, <1>4
  <2>. QED
    BY <1>1, <1>3, <1>4, <2>1, <2>2 DEF PodPart
<1>7. ASSUME NEW n \in Names
      PROVE  conn'[n] \in Seq(ConnObj) /\ conn'[n] # <<>> /\ ConnKnows(n)'
  <2>1. Newest(conn[n]) \in ConnObj /\ Owned(n, Newest(conn[n]))
    BY <1>2, Ends DEF ConnKnows
  <2>2. conn'[n] = <<Newest(conn[n])>>
    BY <1>3
  <2>3. /\ conn'[n] \in Seq(ConnObj) /\ conn'[n] # <<>>
        /\ \A i \in DOMAIN conn'[n] : conn'[n][i] = Newest(conn[n])
    BY <2>1, <2>2, Listed
  <2>. QED
    BY <1>5, <2>1, <2>3, StaysOwned DEF ConnKnows, Owned
<1>8. ConnPart'
  <2>1. conn' \in [Names -> Seq(ConnObj)]
    BY <1>3, <1>7
  <2>. QED
    BY <1>7, <2>1 DEF ConnPart
<1>9. RestPart'
  BY <1>3, InvParts, SpendTyped DEF RestPart
<1>. QED
  BY <1>3, <1>6, <1>8, <1>9, Resting, InvPartsNext

LEMMA TouchInv ==
    ASSUME AdmissionInv, NEW p \in Pods, TouchPod(p)
    PROVE  AdmissionInv'
<1>1. /\ Spend("touch") /\ queue' = queue \cup {p} /\ UNCHANGED <<pod, asked, conn, w, excused>>
  BY DEF TouchPod
<1>2. RestPart'
  BY <1>1, InvParts, SpendTyped DEF RestPart
<1>. QED
  BY <1>1, <1>2, Frames, InvPartsNext

LEMMA InvStep == AdmissionInv /\ [Next]_vars => AdmissionInv'
<1>. SUFFICES ASSUME AdmissionInv, [Next]_vars PROVE AdmissionInv'
  OBVIOUS
<1>1. CASE UNCHANGED vars
  BY <1>1, InvParts, InvPartsNext, Frames DEF vars, RestPart
<1>2. CASE Next
  BY <1>2, CreateInv, PodChangeInv, PodEventInv, ConnEventInv, ConnChangeInv, StartInv,
     ConnectInv, CrashInv, TouchInv DEF Next, WorkerStep
<1>. QED
  BY <1>1, <1>2

--------------------------------------------------------------------------------
(* Theorems *)

\* Every variable keeps its type; in particular a connection claims quantities,
\* whatever the annotations say.
THEOREM AdmissionTypes == Spec => []TypeOK
<1>1. AdmissionInv => TypeOK
  BY DEF AdmissionInv
<1>. QED
  BY <1>1, InvInit, InvStep, PTL DEF Spec

\* For any pods and annotations and any edits of them: a connection claims what the
\* pod that owns it asked for in one version of its annotations, whatever copy of the
\* pod it was created from and whatever was repeated, lost or restarted.
THEOREM ClaimsAreAnnotations == Spec => []ClaimsMatch
<1>1. AdmissionInv => ClaimsMatch
  <2>. SUFFICES ASSUME AdmissionInv, NEW n \in Names, NEW i \in 1..Len(conn[n]),
                       There(conn[n][i]), conn[n][i].owner # Absent
                PROVE  \E d \in asked[conn[n][i].owner] : Claims(n, conn[n][i], d)
    BY DEF ClaimsMatch
  <2>1. conn \in [Names -> Seq(ConnObj)] /\ ConnKnows(n)
    BY InvParts DEF ConnPart
  <2>2. i \in DOMAIN conn[n]
    BY <2>1
  <2>. QED
    BY <2>1, <2>2 DEF ConnKnows, Owned
<1>. QED
  BY <1>1, InvInit, InvStep, PTL DEF Spec

================================================================================
