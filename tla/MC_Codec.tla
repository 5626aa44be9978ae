------------------------------- MODULE MC_Codec -------------------------------
(***************************************************************************)
(* Bounded inputs for Codec: topic ids and payload bytes chosen so that    *)
(* encoded frames contain the bytes 0xFF and 0xFE inside them, noise taken *)
(* from spec scenario 5 and the whole noise of spec scenario 4.            *)
(***************************************************************************)
EXTENDS Codec

\* topic 11 is TopicInfo.ID_TX_STOP; 255 puts a sync byte in the topic
\* field; 256 puts a zero in the low byte.
MCTopics == {11, 255, 256}

\* payloads of up to two bytes over 0x00, 0xFE and 0xFF
MCPayloads == BoundedSeq({0, 254, 255}, 2)

\* spec scenario 1's frame (topic 42, payload 01 02 03) with the payload
\* checksum altered by +1, as in spec scenario 5
Scenario5Noise ==
    LET f == Encode(42, << 1, 2, 3 >>)
    IN  [f EXCEPT ![Len(f)] = (@ + 1) % 256]

\* noise the decoder gets past: bytes without a sync byte, a corrupted
\* checksum, the first three bytes of spec scenario 4 (a protocol-version
\* mismatch followed by a byte that is not a sync byte) and a length-checksum
\* failure.  None ends in a sync byte and none holds a header with a
\* negative length that passes its checksum.
MCNoise == { << >>, << 0, 254 >>, Scenario5Noise, << 255, 253, 0 >>,
             << 255, 254, 1, 0, 0 >> }

\* spec scenario 4: FF FD 00 00 FF 00 00 FF
Scenario4Noise == << 255, 253, 0, 0, 255, 0, 0, 255 >>
MCScenario4 == { Scenario4Noise }

\* a device reset mid-frame: nothing, a lone sync byte, a header missing
\* its length checksum, the first seven bytes of a stop-tx frame
MCTails == { << >>, << 255 >>, << 255, 254, 1, 0 >>,
             SubSeq(Encode(11, << 0 >>), 1, 7) }
MCNoTail == { << >> }
MCNoNoise == { << >> }
=============================================================================
