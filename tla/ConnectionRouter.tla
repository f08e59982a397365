---------------------------- MODULE ConnectionRouter ----------------------------
(***************************************************************************)
(* The operator's HTTP endpoint that gives a client pod the URL of its     *)
(* connection (internal/server/router/connection.go): request handlers     *)
(* that wait on channels, and one goroutine that copies the API server's   *)
(* watch events to them.                                                   *)
(*                                                                         *)
(* connectionWatcher.mu is a read-write lock.  The critical sections of    *)
(* subscribe and cancelFunc are single steps; the goroutine holds the read *)
(* lock while it sends, one channel at a time, that is while todo # {}.    *)
(***************************************************************************)
EXTENDS Naturals, Sequences

CONSTANTS
    Conns,      \* names of connections
    Requests,   \* GET /api/connection requests, each with its channel
    MaxEvents,  \* bound on the watch events waiting for the goroutine
    WatchEnds   \* TRUE: the API server may end the watch, as it does on a timeout

ASSUME RouterAssumption == MaxEvents \in Nat \ {0} /\ WatchEnds \in BOOLEAN

VARIABLES
    phase,      \* API server: phase of each connection, "none" if there is none
    events,     \* watch events not yet received: the object's name and phase
    watching,   \* the goroutine watchConnections is running
    ev,         \* the event it is sending
    todo,       \* the channels it still has to send it to, under the read lock
    subs,       \* connectionWatcher.subs
    chan,       \* the buffered channel of each request, capacity 1
    closed,     \* whether it has been closed
    pc,         \* where each request's handler stands
    key,        \* the connection it asks for
    answer      \* what it has written: "none", "404" or "url"

handlerVars == <<pc, key, answer>>
vars == <<phase, events, watching, ev, todo, subs, chan, closed, handlerVars>>

\* The router only tells Running from the other phases.
Phases == {"Starting", "Running"}
NoEvent == [key |-> "none", phase |-> "Starting"]

Init ==
    /\ phase = [c \in Conns |-> "none"]
    /\ events = <<>>
    /\ watching = TRUE
    /\ ev = NoEvent
    /\ todo = {}
    /\ subs = [c \in {} |-> {}]
    /\ chan = [r \in Requests |-> <<>>]
    /\ closed = [r \in Requests |-> FALSE]
    /\ pc = [r \in Requests |-> "new"]
    /\ key = [r \in Requests |-> "none"]
    /\ answer = [r \in Requests |-> "none"]

--------------------------------------------------------------------------------
(* API server: every change of a connection is an event; the event of a        *)
(* deletion carries the last state of the object.                              *)

Emit(c, p) == /\ Len(events) < MaxEvents
              /\ events' = Append(events, [key |-> c, phase |-> p])
              /\ UNCHANGED <<watching, ev, todo, subs, chan, closed, handlerVars>>

\* The connection is created, or its status is written, perhaps unchanged but
\* for a field the router does not read.
WriteConn(c, p) == /\ phase' = [phase EXCEPT ![c] = p]
                   /\ phase[c] = "none" => p = "Starting"
                   /\ Emit(c, p)

DeleteConn(c) == /\ phase[c] # "none"
                 /\ phase' = [phase EXCEPT ![c] = "none"]
                 /\ Emit(c, phase[c])

\* ResultChan is closed; watchConnections returns and is not started again.
EndWatch == /\ WatchEnds /\ watching /\ todo = {}
            /\ watching' = FALSE
            /\ UNCHANGED <<phase, events, ev, todo, subs, chan, closed, handlerVars>>

--------------------------------------------------------------------------------
(* watchConnections *)

Receive ==
    /\ watching /\ todo = {} /\ events # <<>>
    /\ ev' = Head(events)
    /\ events' = Tail(events)
    /\ todo' = IF Head(events).key \in DOMAIN subs THEN subs[Head(events).key] ELSE {}
    /\ UNCHANGED <<phase, watching, subs, chan, closed, handlerVars>>

\* Mutants of Send: a channel without a bound; a send that waits.
SendUnbounded(r) ==
    /\ r \in todo
    /\ chan' = [chan EXCEPT ![r] = Append(@, ev.phase)]
    /\ todo' = todo \ {r}
    /\ UNCHANGED <<phase, events, watching, ev, subs, closed, handlerVars>>

SendBlocking(r) ==
    /\ r \in todo
    /\ chan[r] = <<>>
    /\ chan' = [chan EXCEPT ![r] = <<ev.phase>>]
    /\ todo' = todo \ {r}
    /\ UNCHANGED <<phase, events, watching, ev, subs, closed, handlerVars>>

\* A send that would block is skipped.  A send on a closed channel would panic.
Send(r) ==
    /\ r \in todo
    /\ chan' = IF chan[r] = <<>> THEN [chan EXCEPT ![r] = <<ev.phase>>] ELSE chan
    /\ todo' = todo \ {r}
    /\ UNCHANGED <<phase, events, watching, ev, subs, closed, handlerVars>>

--------------------------------------------------------------------------------
(* Get: the handler of one request *)

\* The client reads the API server directly, not a cache.  Any error of the read, not
\* only that there is no such connection, is answered with 404.
GetConn(r, c) ==
    /\ pc[r] = "new"
    /\ key' = [key EXCEPT ![r] = c]
    /\ \/ /\ answer' = [answer EXCEPT ![r] = "404"]
          /\ pc' = [pc EXCEPT ![r] = "done"]
       \/ /\ phase[c] = "Running"
          /\ answer' = [answer EXCEPT ![r] = "url"]
          /\ pc' = [pc EXCEPT ![r] = "done"]
       \/ /\ phase[c] = "Starting"
          /\ pc' = [pc EXCEPT ![r] = "subscribe"]
          /\ UNCHANGED answer
    /\ UNCHANGED <<phase, events, watching, ev, todo, subs, chan, closed>>

\* Mutant of CanLock: the lock is not taken.
NoLock == TRUE

\* cw.mu.Lock(): no write section runs while the goroutine holds the read lock.
CanLock == todo = {}

Subscribers(c) == IF c \in DOMAIN subs THEN subs[c] ELSE {}

Subscribe(r) ==
    /\ pc[r] = "subscribe"
    /\ CanLock
    /\ subs' = [c \in DOMAIN subs \cup {key[r]} |->
                  IF c = key[r] THEN Subscribers(c) \cup {r} ELSE subs[c]]
    /\ pc' = [pc EXCEPT ![r] = "wait"]
    /\ UNCHANGED <<phase, events, watching, ev, todo, chan, closed, key, answer>>

\* Mutant of Wait: the handler takes one event only.
WaitOnce(r) ==
    /\ pc[r] = "wait"
    /\ chan[r] # <<>>
    /\ chan' = [chan EXCEPT ![r] = <<>>]
    /\ answer' = IF Head(chan[r]) = "Running" THEN [answer EXCEPT ![r] = "url"]
                 ELSE answer
    /\ pc' = [pc EXCEPT ![r] = "cancel"]
    /\ UNCHANGED <<phase, events, watching, ev, todo, subs, closed, key>>

\* One turn of the loop over the channel.  The loop would also end if the
\* channel were closed, but only cancelFunc, after the loop, closes it.
Wait(r) ==
    /\ pc[r] = "wait"
    /\ chan[r] # <<>>
    /\ chan' = [chan EXCEPT ![r] = <<>>]
    /\ IF Head(chan[r]) = "Running"
       THEN /\ answer' = [answer EXCEPT ![r] = "url"]
            /\ pc' = [pc EXCEPT ![r] = "cancel"]
       ELSE UNCHANGED <<pc, answer>>
    /\ UNCHANGED <<phase, events, watching, ev, todo, subs, closed, key>>

\* Mutant of Cancel: the emptied set of subscribers stays in the map.
CancelKeepsKey(r) ==
    /\ pc[r] = "cancel"
    /\ CanLock
    /\ subs' = [subs EXCEPT ![key[r]] = @ \ {r}]
    /\ closed' = [closed EXCEPT ![r] = TRUE]
    /\ pc' = [pc EXCEPT ![r] = "done"]
    /\ UNCHANGED <<phase, events, watching, ev, todo, chan, key, answer>>

\* cancelFunc, deferred: the last subscriber of a connection removes its key.
Cancel(r) ==
    /\ pc[r] = "cancel"
    /\ CanLock
    /\ IF key[r] \in DOMAIN subs
       THEN LET chans == subs[key[r]] \ {r} IN
            /\ subs' = IF chans = {}
                       THEN [c \in DOMAIN subs \ {key[r]} |-> subs[c]]
                       ELSE [subs EXCEPT ![key[r]] = chans]
            /\ closed' = [closed EXCEPT ![r] = TRUE]
       ELSE UNCHANGED <<subs, closed>>
    /\ pc' = [pc EXCEPT ![r] = "done"]
    /\ UNCHANGED <<phase, events, watching, ev, todo, chan, key, answer>>

--------------------------------------------------------------------------------

Handler(r) == (\E c \in Conns : GetConn(r, c)) \/ Subscribe(r) \/ Wait(r) \/ Cancel(r)

Next == \/ \E c \in Conns : DeleteConn(c) \/ \E p \in Phases : WriteConn(c, p)
        \/ EndWatch \/ Receive
        \/ \E r \in Requests : Send(r) \/ Handler(r)

Spec == Init /\ [][Next]_vars

\* The goroutines run.  A writer that waits for the lock gets it in the end
\* (sync.RWMutex holds back new readers), although the goroutine takes the read
\* lock again and again.  Nothing makes clients send requests or connections change.
Fairness == /\ WF_vars(Receive)
            /\ \A r \in Requests : /\ WF_vars(Send(r)) /\ WF_vars(Wait(r))
                                   /\ SF_vars(Subscribe(r)) /\ SF_vars(Cancel(r))

FairSpec == Spec /\ Fairness

--------------------------------------------------------------------------------
(* Properties *)

Steps == {"new", "subscribe", "wait", "cancel", "done"}

\* Every variable keeps its type; a channel never holds more than its capacity.
TypeOK ==
    /\ phase \in [Conns -> Phases \cup {"none"}]
    /\ events \in Seq([key : Conns, phase : Phases])
    /\ watching \in BOOLEAN
    /\ ev \in [key : Conns \cup {"none"}, phase : Phases]
    /\ todo \subseteq Requests
    /\ DOMAIN subs \subseteq Conns /\ subs \in [DOMAIN subs -> SUBSET Requests]
    /\ chan \in [Requests -> {<<>>} \cup {<<p>> : p \in Phases}]
    /\ closed \in [Requests -> BOOLEAN]
    /\ pc \in [Requests -> Steps]
    /\ key \in [Requests -> Conns \cup {"none"}]
    /\ answer \in [Requests -> {"none", "404", "url"}]

\* watchConnections never sends on a channel that cancelFunc has closed, which
\* would panic and take the operator down: the read lock it holds while sending
\* covers the subscribers it has copied.
NoSendOnClosed == \A r \in todo : ~closed[r]

\* The subscriber map holds exactly the channels of the handlers between
\* subscribe and cancelFunc, each under its own connection, and no empty sets:
\* no channel is closed twice and a finished handler leaves nothing behind.
SubscribersExact ==
    /\ \A c \in DOMAIN subs : subs[c] # {}
    /\ \A r \in Requests, c \in Conns :
         r \in Subscribers(c) <=> pc[r] \in {"wait", "cancel"} /\ key[r] = c

\* A broadcast ends: a handler that has stopped reading, and now waits for the
\* lock that the goroutine holds, never blocks the goroutine.
BroadcastCompletes == todo # {} ~> todo = {}

\* A handler is not left waiting for ever by a skipped send as long as the watch
\* goes on and its connection, Running from some time on, keeps being written.
AnsweredIfUpdated ==
    \A r \in Requests, c \in Conns :
        ([]watching /\ <>[](phase[c] = "Running") /\ []<><<WriteConn(c, "Running")>>_vars)
          => [](pc[r] = "wait" /\ key[r] = c => <>(answer[r] = "url"))

\* "Wait for connection updates": a handler that waits for a connection which is
\* Running from some time on answers.
AnsweredWhenRunning ==
    \A r \in Requests, c \in Conns :
        <>[](phase[c] = "Running")
          => [](pc[r] = "wait" /\ key[r] = c => <>(answer[r] = "url"))

\* "Subscribe returns a channel that will be closed when the connection is
\* deleted": if a connection is gone for good, the channel of a handler that
\* waits for it is closed.
ClosedOnDelete ==
    \A r \in Requests, c \in Conns :
        <>[](phase[c] = "none")
          => [](pc[r] = "wait" /\ key[r] = c => <>closed[r])

=================================================================================
