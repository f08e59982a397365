SPECIFICATION FairSpec
CONSTANTS
    c1 = c1
    c2 = c2
    c3 = c3
    g1 = g1
    g2 = g2
    None = None
    Conns = {c1}
    GPUs = {g1}
    Req <- MCReq
    Cap <- MCCap
    Kinds = {"poolLoss"}
    MaxFaults = 1
    MaxNotif = 1
PROPERTY NoStarvation
CHECK_DEADLOCK FALSE
