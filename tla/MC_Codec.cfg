\* Round trip of _send's encoder through run()'s decoder, after the noise
\* the decoder is meant to recover from, over datagrams that may arrive
\* with one adjacent pair swapped.  A datagram of 10 bytes holds the
\* longest frame (8 bytes of framing and a 2-byte payload).
CONSTANTS
    Topics <- MCTopics
    Payloads <- MCPayloads
    MinFrames = 0
    MaxFrames = 2
    Tails <- MCTails
    Noise <- MCNoise
    MaxDatagram = 10
    Reordered = TRUE
SPECIFICATION Spec
INVARIANT AllFramesDecoded DispatchedWereSent ChunksReassemble
\* run() returns after an IOError: the decoder stops there.
CHECK_DEADLOCK FALSE
