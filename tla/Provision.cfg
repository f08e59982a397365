SPECIFICATION FairSpec
CONSTANTS
    n1 = n1
    n2 = n2
    None = None
    Nodes = {n1}
    MinNodes = 1
    WarmNodes = 1
    MaxNodes = 1
    Kinds = {"api", "lost", "cloud", "answer", "get", "panic", "crash", "delete", "early", "deletePool"}
    MaxFaults = 2
    MaxLag = 2
INVARIANT TypeOK
INVARIANT OrphansExplained
INVARIANT RecordedRuns
PROPERTY TerminatedBeforeGone
PROPERTY NodeDeletionCompletes
CHECK_DEADLOCK FALSE
