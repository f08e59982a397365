------------------------ MODULE ConnectionRouter_proofs ------------------------
(***************************************************************************)
(* Proofs about ConnectionRouter: no send on a closed channel, and a map   *)
(* of subscribers that holds exactly the waiting handlers' channels.       *)
(*                                                                         *)
(* What keeps the goroutine off a closed channel is not the map alone: it  *)
(* has copied the channels it is going to send to.  The invariant says     *)
(* that those handlers cannot leave while the read lock is held, and that  *)
(* a channel is closed only by a handler that has left.                    *)
(***************************************************************************)
EXTENDS ConnectionRouter, TLAPS

\* A handler is subscribed from subscribe to cancelFunc.
Inside == {"wait", "cancel"}

RouterInv ==
    /\ TypeOK
    /\ SubscribersExact
    /\ \A r \in Requests : closed[r] => pc[r] = "done"
    /\ \A r \in todo : pc[r] \in Inside
    /\ \A r \in Requests : pc[r] # "new" => key[r] \in Conns

\* A full channel holds one of the phases of connections.
LEMMA ChannelHead ==
    ASSUME TypeOK, NEW r \in Requests
    PROVE  chan[r] = <<>> \/ \E p \in Phases : chan[r] = <<p>>
BY DEF TypeOK

\* Initially nobody is subscribed.
LEMMA RouterInit == Init => RouterInv
<1>. SUFFICES ASSUME Init PROVE RouterInv
  OBVIOUS
<1>1. DOMAIN subs = {}
  BY DEF Init
<1>2. TypeOK
  <2>1. subs \in [DOMAIN subs -> SUBSET Requests]
    BY <1>1 DEF Init
  <2>2. ev \in [key : Conns \cup {"none"}, phase : Phases]
    BY DEF Init, NoEvent, Phases
  <2>. QED
    BY <1>1, <2>1, <2>2 DEF Init, TypeOK, Steps, Phases
<1>3. SubscribersExact
  BY <1>1 DEF Init, SubscribersExact, Subscribers
<1>4. /\ \A r \in Requests : closed[r] => pc[r] = "done"
      /\ \A r \in todo : pc[r] \in Inside
      /\ \A r \in Requests : pc[r] # "new" => key[r] \in Conns
  BY DEF Init
<1>. QED
  BY <1>2, <1>3, <1>4 DEF RouterInv

\* Every step preserves the invariant.
LEMMA RouterStep == RouterInv /\ [Next]_vars => RouterInv'
<1>. SUFFICES ASSUME RouterInv, [Next]_vars PROVE RouterInv'
  OBVIOUS
<1>. USE DEF RouterInv
<1>1. ASSUME NEW c \in Conns, DeleteConn(c) \/ \E p \in Phases : WriteConn(c, p)
      PROVE  RouterInv'
  <2>1. PICK p \in Phases : Emit(c, p)
    BY <1>1 DEF DeleteConn, WriteConn, TypeOK, Phases
  <2>2. phase' \in [Conns -> Phases \cup {"none"}]
    BY <1>1 DEF DeleteConn, WriteConn, TypeOK
  <2>3. events' \in Seq([key : Conns, phase : Phases])
    BY <2>1 DEF Emit, TypeOK
  <2>4. TypeOK'
    BY <2>1, <2>2, <2>3 DEF Emit, TypeOK, handlerVars
  <2>. QED
    BY <2>1, <2>4 DEF Emit, handlerVars, SubscribersExact, Subscribers
<1>2. CASE EndWatch \/ UNCHANGED vars
  <2>1. /\ UNCHANGED <<phase, events, ev, todo, subs, chan, closed, handlerVars>>
        /\ watching' \in BOOLEAN
    BY <1>2 DEF EndWatch, vars, TypeOK
  <2>2. TypeOK'
    BY <2>1 DEF TypeOK, handlerVars
  <2>. QED
    BY <2>1, <2>2 DEF handlerVars, SubscribersExact, Subscribers
<1>3. CASE Receive
  <2>1. events \in Seq([key : Conns, phase : Phases]) /\ events # <<>>
    BY <1>3 DEF Receive, TypeOK
  <2>2. /\ Head(events) \in [key : Conns, phase : Phases]
        /\ Tail(events) \in Seq([key : Conns, phase : Phases])
    <3>1. \A S : events \in Seq(S) => Head(events) \in S /\ Tail(events) \in Seq(S)
      BY <2>1
    <3>. QED
      BY <2>1, <3>1
  <2>3. Head(events).key \in Conns
    BY <2>2
  <2>4. todo' = Subscribers(Head(events).key)
    BY <1>3 DEF Receive, Subscribers
  <2>5. \A r \in todo' : r \in Requests /\ pc[r] \in Inside
    <3>1. \A c \in Conns : Subscribers(c) \subseteq Requests
      BY DEF TypeOK, Subscribers
    <3>. QED
      BY <2>3, <2>4, <3>1 DEF SubscribersExact, Inside
  <2>6. ev' \in [key : Conns \cup {"none"}, phase : Phases] /\ UNCHANGED <<subs, handlerVars, closed>>
    BY <1>3, <2>2 DEF Receive
  <2>7. TypeOK'
    BY <1>3, <2>2, <2>5, <2>6 DEF Receive, TypeOK, handlerVars
  <2>. QED
    BY <2>5, <2>6, <2>7 DEF handlerVars, SubscribersExact, Subscribers
<1>4. ASSUME NEW r \in Requests, Send(r) PROVE RouterInv'
  <2>1. ev.phase \in Phases
    BY DEF TypeOK
  <2>2. chan' \in [Requests -> {<<>>} \cup {<<p>> : p \in Phases}]
    BY <1>4, <2>1 DEF Send, TypeOK
  <2>3. UNCHANGED <<phase, events, watching, ev, subs, closed, handlerVars>> /\ todo' \subseteq todo
    BY <1>4 DEF Send
  <2>4. TypeOK'
    BY <2>2, <2>3 DEF TypeOK, handlerVars
  <2>. QED
    BY <2>3, <2>4 DEF handlerVars, SubscribersExact, Subscribers
<1>5. ASSUME NEW r \in Requests, NEW c \in Conns, GetConn(r, c) PROVE RouterInv'
  <2>1. /\ pc[r] = "new" /\ key' = [key EXCEPT ![r] = c] /\ answer' \in [Requests -> {"none", "404", "url"}]
        /\ UNCHANGED <<phase, events, watching, ev, todo, subs, chan, closed>>
    BY <1>5 DEF GetConn, TypeOK
  <2>2. PICK s \in {"subscribe", "done"} : pc' = [pc EXCEPT ![r] = s]
    BY <1>5 DEF GetConn
  <2>3. TypeOK'
    BY <2>1, <2>2 DEF TypeOK, Steps
  <2>4. pc'[r] = s /\ \A q \in Requests \ {r} : pc'[q] = pc[q] /\ key'[q] = key[q]
    BY <2>1, <2>2 DEF TypeOK
  <2>5. SubscribersExact'
    BY <2>1, <2>2, <2>4 DEF SubscribersExact, Subscribers
  <2>6. key'[r] = c
    BY <2>1 DEF TypeOK
  <2>7. r \notin todo /\ ~closed[r]
    BY <2>1 DEF Inside
  <2>8. \A q \in todo : q \in Requests
    BY DEF TypeOK
  <2>. QED
    BY <2>1, <2>3, <2>4, <2>5, <2>6, <2>7, <2>8
<1>6. ASSUME NEW r \in Requests, Subscribe(r) PROVE RouterInv'
  <2>1. /\ pc[r] = "subscribe" /\ todo = {} /\ key[r] \in Conns
        /\ pc' = [pc EXCEPT ![r] = "wait"]
        /\ UNCHANGED <<phase, events, watching, ev, todo, chan, closed, key, answer>>
    BY <1>6 DEF Subscribe, CanLock
  <2>2. subs' = [c \in DOMAIN subs \cup {key[r]} |->
                   IF c = key[r] THEN Subscribers(c) \cup {r} ELSE subs[c]]
    BY <1>6 DEF Subscribe
  <2>3. /\ DOMAIN subs' = DOMAIN subs \cup {key[r]}
        /\ \A c \in DOMAIN subs' : subs'[c] = IF c = key[r] THEN Subscribers(c) \cup {r} ELSE subs[c]
    BY <2>2
  <2>4. Subscribers(key[r]) \subseteq Requests
    BY DEF Subscribers, TypeOK
  <2>5. TypeOK'
    <3>1. DOMAIN subs' \subseteq Conns
      BY <2>1, <2>3 DEF TypeOK
    <3>2. subs' \in [DOMAIN subs' -> SUBSET Requests]
      BY <2>2, <2>3, <2>4 DEF TypeOK
    <3>. QED
      BY <2>1, <3>1, <3>2 DEF TypeOK, Steps
  <2>6. pc'[r] = "wait" /\ \A q \in Requests \ {r} : pc'[q] = pc[q]
    BY <2>1 DEF TypeOK
  <2>7. SubscribersExact'
    <3>1. ASSUME NEW c \in DOMAIN subs' PROVE subs'[c] # {}
      <4>1. CASE c = key[r]
        BY <2>3, <4>1
      <4>2. CASE c # key[r]
        BY <2>3, <4>2 DEF SubscribersExact
      <4>. QED
        BY <4>1, <4>2
    <3>2. ASSUME NEW c \in Conns
          PROVE  Subscribers(c)' = IF c = key[r] THEN Subscribers(c) \cup {r} ELSE Subscribers(c)
      BY <2>3 DEF Subscribers
    <3>3. ASSUME NEW q \in Requests, NEW c \in Conns
          PROVE  q \in Subscribers(c)' <=> pc'[q] \in {"wait", "cancel"} /\ key'[q] = c
      BY <2>1, <2>6, <3>2 DEF SubscribersExact
    <3>. QED
      BY <3>1, <3>3 DEF SubscribersExact
  <2>. QED
    BY <2>1, <2>5, <2>6, <2>7
<1>7. ASSUME NEW r \in Requests, Wait(r) PROVE RouterInv'
  <2>1. /\ pc[r] = "wait" /\ chan' = [chan EXCEPT ![r] = <<>>]
        /\ UNCHANGED <<phase, events, watching, ev, todo, subs, closed, key>>
    BY <1>7 DEF Wait
  <2>2. PICK s \in Inside : pc' = [pc EXCEPT ![r] = s]
    <3>1. CASE pc' = pc
      BY <2>1, <3>1 DEF Inside, TypeOK
    <3>2. CASE pc' = [pc EXCEPT ![r] = "cancel"]
      BY <3>2 DEF Inside
    <3>. QED
      BY <1>7, <3>1, <3>2 DEF Wait
  <2>3. answer' \in [Requests -> {"none", "404", "url"}]
    BY <1>7 DEF Wait, TypeOK
  <2>4. TypeOK'
    BY <2>1, <2>2, <2>3 DEF TypeOK, Steps, Inside
  <2>5. pc'[r] = s /\ \A q \in Requests \ {r} : pc'[q] = pc[q]
    BY <2>2 DEF TypeOK
  <2>6. SubscribersExact'
    BY <2>1, <2>5 DEF SubscribersExact, Subscribers, Inside
  <2>7. \A q \in todo : q \in Requests
    BY DEF TypeOK
  <2>8. ~closed[r]
    BY <2>1
  <2>. QED
    BY <2>1, <2>4, <2>5, <2>6, <2>7, <2>8 DEF Inside
<1>8. ASSUME NEW r \in Requests, Cancel(r) PROVE RouterInv'
  <2>1. /\ pc[r] = "cancel" /\ todo = {} /\ key[r] \in Conns
        /\ pc' = [pc EXCEPT ![r] = "done"]
        /\ UNCHANGED <<phase, events, watching, ev, todo, chan, key, answer>>
    BY <1>8 DEF Cancel, CanLock
  <2>2. r \in Subscribers(key[r]) /\ key[r] \in DOMAIN subs
    BY <2>1 DEF SubscribersExact, Subscribers
  <2>. DEFINE chans == subs[key[r]] \ {r}
  <2>3. /\ subs' = IF chans = {} THEN [c \in DOMAIN subs \ {key[r]} |-> subs[c]]
                   ELSE [subs EXCEPT ![key[r]] = chans]
        /\ closed' = [closed EXCEPT ![r] = TRUE]
    BY <1>8, <2>2 DEF Cancel
  <2>4. pc'[r] = "done" /\ \A q \in Requests \ {r} : pc'[q] = pc[q] /\ closed'[q] = closed[q]
    BY <2>1, <2>3 DEF TypeOK
  <2>5. chans \in SUBSET Requests
    BY <2>2 DEF TypeOK
  <2>6. /\ DOMAIN subs' \subseteq DOMAIN subs /\ subs' \in [DOMAIN subs' -> SUBSET Requests]
        /\ \A c \in DOMAIN subs' : subs'[c] # {}
    <3>1. CASE chans = {}
      BY <2>3, <3>1 DEF TypeOK, SubscribersExact
    <3>2. CASE chans # {}
      BY <2>2, <2>3, <2>5, <3>2 DEF TypeOK, SubscribersExact
    <3>. QED
      BY <3>1, <3>2
  <2>7. ASSUME NEW c \in Conns
        PROVE  Subscribers(c)' = IF c = key[r] THEN Subscribers(c) \ {r} ELSE Subscribers(c)
    <3>1. CASE chans = {}
      BY <2>2, <2>3, <3>1 DEF Subscribers
    <3>2. CASE chans # {}
      BY <2>2, <2>3, <3>2 DEF Subscribers, TypeOK
    <3>. QED
      BY <3>1, <3>2
  <2>8. TypeOK'
    BY <2>1, <2>3, <2>6 DEF TypeOK, Steps
  <2>9. ASSUME NEW q \in Requests, NEW c \in Conns
        PROVE  q \in Subscribers(c)' <=> pc'[q] \in {"wait", "cancel"} /\ key'[q] = c
    BY <2>1, <2>4, <2>7 DEF SubscribersExact
  <2>10. SubscribersExact'
    BY <2>6, <2>9 DEF SubscribersExact
  <2>. QED
    BY <2>1, <2>4, <2>8, <2>10
<1>. QED
  BY <1>1, <1>2, <1>3, <1>4, <1>5, <1>6, <1>7, <1>8 DEF Next, Handler

\* Every variable of the router keeps its type; a channel never holds more than
\* one event.
THEOREM RouterTypes == Spec => []TypeOK
<1>1. RouterInv => TypeOK
  BY DEF RouterInv
<1>. QED
  BY <1>1, RouterInit, RouterStep, PTL DEF Spec

\* For any number of requests and connections, watchConnections never sends on
\* a channel that cancelFunc has closed.
THEOREM SendsAreSafe == Spec => []NoSendOnClosed
<1>1. RouterInv => NoSendOnClosed
  BY DEF RouterInv, NoSendOnClosed, TypeOK, Inside
<1>. QED
  BY <1>1, RouterInit, RouterStep, PTL DEF Spec

\* The subscriber map holds the waiting handlers' channels, nothing more and
\* nothing less.
THEOREM SubscribersTracked == Spec => []SubscribersExact
<1>1. RouterInv => SubscribersExact
  BY DEF RouterInv
<1>. QED
  BY <1>1, RouterInit, RouterStep, PTL DEF Spec
=================================================================================
