\* Frames longer than a datagram: with 4-byte datagrams a swap can move
\* bytes inside a frame, past the two sum checksums.
CONSTANTS
    Topics <- MCTopics
    Payloads <- MCPayloads
    MinFrames = 0
    MaxFrames = 1
    Tails <- MCNoTail
    Noise <- MCNoNoise
    MaxDatagram = 4
    Reordered = TRUE
SPECIFICATION Spec
INVARIANT DispatchedWereSent
CHECK_DEADLOCK FALSE
