SPECIFICATION FairSpec
CONSTANTS
    p1 = p1
    p2 = p2
    ali = ali
    ali2 = ali2
    aws = aws
    gcp = gcp
    Pools = {p1, p2}
    Templates = {"t1", "t2"}
    Vendors = {ali, ali2, aws, gcp}
    None = None
    TypeOf <- MCTypeOf
    Rejected = {aws, ali2}
    Specs <- MCSpecs
    Kinds = {"api", "lost", "cloud", "crash", "delete", "meddle", "late"}
    MaxFaults = 1
    MaxEdits = 1
    MaxFlips = 2
    MaxRetry = 1
    MaxLag = 1
INVARIANT TypeOK
PROPERTIES TestedBeforeReady PoolsConverge ReadyReached StatusAccurate
CHECK_DEADLOCK FALSE
