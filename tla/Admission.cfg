SPECIFICATION FairSpec
CONSTANTS
    p1 = p1
    p2 = p2
    pool = pool
    other = other
    Pods = {p1, p2}
    NumContainers = 2
    GPUPools = {pool}
    Manifests <- MCManifests
    Absent = Absent
    Unreadable = Unreadable
    Kinds = {"api", "lost", "get", "crash", "label", "edit", "touch", "delete"}
    MaxFaults = 1
    MaxLag = 1
INVARIANTS TypeOK ClaimsMatch
PROPERTIES Connected Collected
CHECK_DEADLOCK FALSE
