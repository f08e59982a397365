SPECIFICATION FairSpec
CONSTANTS
    c1 = c1
    c2 = c2
    c3 = c3
    g1 = g1
    g2 = g2
    None = None
    Conns = {c1}
    GPUs = {g2}
    Req <- MCReq
    Cap <- MCCap
    Kinds = {"stale", "abort", "crash", "rediscover", "gpuLoss", "podLoss", "poolLoss"}
    MaxFaults = 2
    MaxNotif = 1
INVARIANT TypeOK
INVARIANT AvailableNotNegative
INVARIANT FinalizerGuardsReservation
PROPERTY ReleasedBeforeGone
PROPERTY DeletionCompletes
CHECK_DEADLOCK FALSE
