SPECIFICATION FairSpec
CONSTANTS
    r1 = r1
    r2 = r2
    Conns = {"a", "b"}
    Requests = {r1, r2}
    MaxEvents = 1
    WatchEnds = TRUE
INVARIANT TypeOK
INVARIANT NoSendOnClosed
INVARIANT SubscribersExact
PROPERTY BroadcastCompletes
PROPERTY AnsweredIfUpdated
CHECK_DEADLOCK FALSE
