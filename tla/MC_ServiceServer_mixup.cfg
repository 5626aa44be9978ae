CONSTANTS
    a = a
    b = b
    None = None
    Fail = Fail
    PubFirst = TRUE
    Callers <- MCTwoCallers
    MaxCalls = 1
    MaxLoss = 0
    Mismatched <- MCNoneMismatched
SPECIFICATION Spec
INVARIANT ResponseMatches
\* Each caller makes at most MaxCalls calls; after them the node idles.
CHECK_DEADLOCK FALSE
