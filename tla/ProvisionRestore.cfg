SPECIFICATION FairSpec
CONSTANTS
    n1 = n1
    n2 = n2
    None = None
    Nodes = {n1, n2}
    MinNodes = 1
    WarmNodes = 1
    MaxNodes = 1
    Kinds = {"delete"}
    MaxFaults = 1
    MaxLag = 1
PROPERTY CapacityMet
CHECK_DEADLOCK FALSE
