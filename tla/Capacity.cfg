SPECIFICATION FairSpec
CONSTANTS
    Catalog <- MCCatalog
    Ratio <- MCRatio
    GiB = 2
    MaxPerLoop = 2
    Configs <- MCConfigs
    None = None
    Default = "r1"
    MaxNodes = 8
    Kinds = {"late", "behind", "api", "create", "crash", "delete"}
    MaxFaults <- MCMaxFaults
INVARIANTS TypeOK PlanOptimal WasteBounded
PROPERTIES MinReached StatusConverges
CHECK_DEADLOCK FALSE
