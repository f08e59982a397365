SPECIFICATION FairSpec
CONSTANTS
    Nodes = {"n"}
    Pools = {"n", "p"}
    Labels = {"a", "b"}
    Selectors <- MCSelectors
    Setups <- MCSetups
    None = None
INVARIANTS TypeOK UsefulKept
PROPERTIES CapacityKept SelectionConverges RunningReached Collected
CHECK_DEADLOCK FALSE
