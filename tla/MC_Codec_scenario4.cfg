\* Spec scenario 4: FF FD 00 00 FF 00 00 FF followed by a well-formed frame.
CONSTANTS
    Topics <- MCTopics
    Payloads <- MCPayloads
    MinFrames = 1
    MaxFrames = 1
    Tails <- MCNoTail
    Noise <- MCScenario4
    MaxDatagram = 10
    Reordered = FALSE
SPECIFICATION Spec
INVARIANT AllFramesDecoded
\* run() returns after an IOError: the decoder stops there.
CHECK_DEADLOCK FALSE
