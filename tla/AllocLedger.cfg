SPECIFICATION FairSpec
CONSTANTS
    c1 = c1
    c2 = c2
    c3 = c3
    g1 = g1
    g2 = g2
    None = None
    Conns = {c1, c2}
    GPUs = {g1, g2}
    Req <- MCReq
    Cap <- MCCap
    Kinds = {}
    MaxFaults = 0
    MaxNotif = 1
INVARIANT LedgerBalanced
INVARIANT WorkerOnStatusGPU
PROPERTY LedgerSpec
PROPERTY NoStarvation
CHECK_DEADLOCK FALSE
