CONSTANTS
    a = a
    b = b
    None = None
    Fail = Fail
    PubFirst = TRUE
    Callers <- MCTwoCallers
    MaxCalls = 3
    MaxLoss = 1
    Mismatched <- MCNoneMismatched
SPECIFICATION Spec
PROPERTY CallReturnsWithoutLoss
\* Each caller makes at most MaxCalls calls; after them the node idles.
CHECK_DEADLOCK FALSE
