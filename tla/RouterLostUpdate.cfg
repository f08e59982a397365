SPECIFICATION FairSpec
CONSTANTS
    r1 = r1
    r2 = r2
    Conns = {"a"}
    Requests = {r1}
    MaxEvents = 2
    WatchEnds = FALSE
PROPERTY AnsweredWhenRunning
CHECK_DEADLOCK FALSE
