CONSTANTS
    p1 = p1
    p2 = p2
    s1 = s1
    DevicePubs <- MCNoPubs
    DeviceSubs <- MCDeviceSubs
    Mismatched <- MCNoneMismatched
    Window = 3
    Period = 1
    FlushClears = TRUE
    MaxInbound = 4
    Budget = 2
    MaxWriteFaults = 0
    MaxLoss = 1
    SvcClient = FALSE
    ProxyTicks = 0
    Oversize = FALSE
    StaleDevice = FALSE

SPECIFICATION Spec
PROPERTY NegotiationCompletes

\* The node stops after a shutdown: both threads end and nothing is enabled.
CHECK_DEADLOCK FALSE
