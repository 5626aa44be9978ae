CONSTANTS
    p1 = p1
    p2 = p2
    s1 = s1
    DevicePubs <- MCDevicePubs
    DeviceSubs <- MCDeviceSubs
    Mismatched <- MCMismatched
    Window = 3
    Period = 1
    FlushClears = TRUE
    MaxInbound = 6
    Budget = 1
    MaxWriteFaults = 1
    MaxLoss = 1
    SvcClient = TRUE
    ProxyTicks = 1
    Oversize = TRUE
    StaleDevice = FALSE

SPECIFICATION Spec
INVARIANT TypeOK
PROPERTY NegotiationCompletesWithoutLoss

\* The node stops after a shutdown: both threads end and nothing is enabled.
CHECK_DEADLOCK FALSE
