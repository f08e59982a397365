SPECIFICATION Spec
CONSTANTS
    c1 = c1
    c2 = c2
    c3 = c3
    g1 = g1
    g2 = g2
    None = None
    Conns = {c1, c2, c3}
    GPUs = {g1}
    Req <- MCReqOne
    Cap <- MCCap
    Kinds = {"stale"}
    MaxFaults = 2
    MaxNotif = 1
INVARIANT NoOvercommit
SYMMETRY Symmetry
CHECK_DEADLOCK FALSE
