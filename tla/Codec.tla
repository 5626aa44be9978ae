-------------------------------- MODULE Codec --------------------------------
(***************************************************************************)
(* The rosserial wire format: the frame SerialClient._send builds for the  *)
(* device, and the reader loop of SerialClient.run that cuts a byte        *)
(* stream from the device back into frames.  Bytes are the integers        *)
(* 0..255.  The decoder is a state machine over the bytes still to be read;*)
(* each action is one iteration of the loop in run(), ending in one of its *)
(* `continue's, in a dispatch, or in the IOError that makes run() return.  *)
(* The stream the device sends is some noise, the encodings of a sequence *)
(* of frames, and a tail: a frame cut short by a device reset.  Over UDP   *)
(* each of them reaches the host in datagrams cut as write() cuts its data *)
(* (the device's transport is taken to cut the same way), and read()       *)
(* appends the datagrams to recv_buffer in the order they arrive, which    *)
(* UDP does not promise is the order they were sent.                       *)
(***************************************************************************)
EXTENDS Naturals, Sequences, SequencesExt

CONSTANTS
    Topics,     \* topic ids used by the frames
    Payloads,   \* serialized message bodies (sequences of bytes)
    MinFrames,  \* fewest frames in one stream
    MaxFrames,  \* most frames in one stream
    Noise,      \* byte sequences that may precede the frames
    Tails,      \* byte sequences that may end the stream
    MaxDatagram,\* MAX_UDP_PACKET_SIZE: most bytes in one datagram
    Reordered   \* two adjacent datagrams may arrive swapped

ASSUME Topics \subseteq 0..32767   \* struct.pack('<h', topic) accepts them
ASSUME MaxDatagram \in Nat \ {0} /\ Reordered \in BOOLEAN

Header == 255        \* self.header, b'\xff'
ProtocolVer2 == 254  \* self.protocol_ver, b'\xfe'

\* sum(array.array('B', bytes))
ByteSum(s) == FoldLeft(LAMBDA a, b : a + b, 0, s)

\* struct.pack('<h', n) for 0 <= n < 2^15: two bytes, little endian.
PackLe16(n) == << n % 256, (n \div 256) % 256 >>

\* struct.unpack('<h', ...): the length field is read as a SIGNED integer.
UnpackSignedLe16(lo, hi) ==
    LET n == lo + 256 * hi IN IF n >= 32768 THEN n - 65536 ELSE n

\* 255 - (sum % 256), the checksum of both checked parts of a frame.
Checksum(s) == 255 - (ByteSum(s) % 256)

\* _send with the payload checksum taken over msg_bytes alone, leaving out
\* topic_bytes.
EncodeMsgOnlyChecksum(topic, msg) ==
    LET lengthBytes == PackLe16(Len(msg))
        topicBytes  == PackLe16(topic)
    IN  << Header, ProtocolVer2 >> \o lengthBytes \o << Checksum(lengthBytes) >>
          \o topicBytes \o msg \o << Checksum(msg) >>

\* The frame _send writes for topic and msg_bytes (the size check against
\* buffer_in is in Session).
Encode(topic, msg) ==
    LET lengthBytes == PackLe16(Len(msg))
        topicBytes  == PackLe16(topic)
    IN  << Header, ProtocolVer2 >> \o lengthBytes \o << Checksum(lengthBytes) >>
          \o topicBytes \o msg \o << Checksum(topicBytes \o msg) >>

(* Mutation variant of Chunks: the slice stops one byte short.            *)
RECURSIVE ChunksSliceShort(_, _)
ChunksSliceShort(data, max) ==
    IF data = << >> THEN << >>
    ELSE LET size == IF max < Len(data) THEN max ELSE Len(data)
         IN  << SubSeq(data, 1, size - 1) >>
               \o ChunksSliceShort(SubSeq(data, size + 1, Len(data)), max)

(* RosSerialUDPServer.write(): while offset < total_length, send           *)
(* data[offset:offset + chunk_size] with chunk_size =                      *)
(* min(MAX_UDP_PACKET_SIZE, total_length - offset), and advance offset.    *)
RECURSIVE Chunks(_, _)
Chunks(data, max) ==
    IF data = << >> THEN << >>
    ELSE LET size == IF max < Len(data) THEN max ELSE Len(data)
         IN  << SubSeq(data, 1, size) >> \o Chunks(SubSeq(data, size + 1, Len(data)), max)

Frames == [topic : Topics, msg : Payloads]

(* The datagrams that carry the noise, each frame written by one write()   *)
(* call, and the tail.                                                     *)
Datagrams(n, s, t) ==
    Chunks(n, MaxDatagram)
      \o FlattenSeq([i \in 1..Len(s) |-> Chunks(Encode(s[i].topic, s[i].msg), MaxDatagram)])
      \o Chunks(t, MaxDatagram)

(* The orders the datagrams d may arrive in: as sent or, when Reordered,   *)
(* with one adjacent pair swapped.                                         *)
Arrivals(d) ==
    {d} \cup (IF Reordered
              THEN {[d EXCEPT ![i] = d[i + 1], ![i + 1] = d[i]] : i \in 1..Len(d) - 1}
              ELSE {})

VARIABLES
    sent,     \* the frames the device sent, after the noise
    noise,    \* the noise in front of them
    tail,     \* the bytes after them
    stream,   \* the bytes not yet read by run()
    out,      \* the frames dispatched to self.callbacks[topic_id], in order
    ioerror,  \* run() has returned on an IOError from tryRead
    inOrder   \* the datagrams arrived in the order they were sent

vars == << sent, noise, tail, stream, out, ioerror, inOrder >>

TypeOK ==
    /\ sent \in BoundedSeq(Frames, MaxFrames)
    /\ noise \in Noise
    /\ tail \in Tails
    /\ stream \in Seq(0..255)
    /\ out \in Seq([topic : 0..65535, msg : Seq(0..255)])
    /\ ioerror \in BOOLEAN
    /\ inOrder \in BOOLEAN

Init ==
    /\ sent \in {s \in BoundedSeq(Frames, MaxFrames) : Len(s) >= MinFrames}
    /\ noise \in Noise
    /\ tail \in Tails
    /\ \E arrival \in Arrivals(Datagrams(noise, sent, tail)) :
          /\ stream = FlattenSeq(arrival)
          /\ inOrder = (arrival = Datagrams(noise, sent, tail))
    /\ out = << >>
    /\ ioerror = FALSE

(***************************************************************************)
(* The fields of the frame at the head of the stream, as run() reads them. *)
(***************************************************************************)
SyncFlag == stream[1] = Header
Versioned == Len(stream) >= 2 /\ SyncFlag /\ stream[2] = ProtocolVer2
LengthOk == ByteSum(SubSeq(stream, 3, 5)) % 256 = 255
MsgLength == UnpackSignedLe16(stream[3], stream[4])
\* bytes up to and including the data checksum
FrameEnd == 8 + MsgLength
TopicId == stream[6] + 256 * stream[7]
Body == SubSeq(stream, 8, 7 + MsgLength)

Consume(n) == stream' = SubSeq(stream, n + 1, Len(stream))

\* The read lock is free and inWaiting() < 1: sleep and poll again.
Poll ==
    /\ ~ioerror /\ stream = << >>
    /\ UNCHANGED vars

\* flag[0] != self.header: skip one byte.
SkipByte ==
    /\ ~ioerror /\ stream # << >> /\ ~SyncFlag
    /\ Consume(1)
    /\ UNCHANGED << sent, noise, tail, out, ioerror, inOrder >>

\* flag[1] != self.protocol_ver: report the mismatch, drop both bytes.
VersionMismatch ==
    /\ ~ioerror /\ Len(stream) >= 2 /\ SyncFlag /\ stream[2] # ProtocolVer2
    /\ Consume(2)
    /\ UNCHANGED << sent, noise, tail, out, ioerror, inOrder >>

\* The three length bytes do not sum to 255 mod 256: drop them.
LengthChecksumFail ==
    /\ ~ioerror /\ Versioned /\ Len(stream) >= 5 /\ ~LengthOk
    /\ Consume(5)
    /\ UNCHANGED << sent, noise, tail, out, ioerror, inOrder >>

\* Topic id, body and checksum read, and the checksum is wrong.
DataChecksumFail ==
    /\ ~ioerror /\ Versioned /\ Len(stream) >= 5 /\ LengthOk
    /\ MsgLength >= 0 /\ Len(stream) >= FrameEnd
    /\ ByteSum(SubSeq(stream, 6, FrameEnd)) % 256 # 255
    /\ Consume(FrameEnd)
    /\ UNCHANGED << sent, noise, tail, out, ioerror, inOrder >>

\* Mutation variant of Dispatch: the data checksum is not tested.
DispatchNoChecksum ==
    /\ ~ioerror /\ Versioned /\ Len(stream) >= 5 /\ LengthOk
    /\ MsgLength >= 0 /\ Len(stream) >= FrameEnd
    /\ out' = Append(out, [topic |-> TopicId, msg |-> Body])
    /\ Consume(FrameEnd)
    /\ UNCHANGED << sent, noise, tail, ioerror, inOrder >>

\* The checksum is right: self.callbacks[topic_id](msg).
Dispatch ==
    /\ ~ioerror /\ Versioned /\ Len(stream) >= 5 /\ LengthOk
    /\ MsgLength >= 0 /\ Len(stream) >= FrameEnd
    /\ ByteSum(SubSeq(stream, 6, FrameEnd)) % 256 = 255
    /\ out' = Append(out, [topic |-> TopicId, msg |-> Body])
    /\ Consume(FrameEnd)
    /\ UNCHANGED << sent, noise, tail, ioerror, inOrder >>

\* tryRead times out short: the stream ends inside a frame, or the length
\* field is negative and port.read(negative) never returns a byte.  The
\* IOError reaches the handler at the end of run(), which returns.
ShortRead ==
    /\ ~ioerror /\ stream # << >> /\ SyncFlag
    /\ \/ Len(stream) < 2
       \/ Versioned /\ Len(stream) < 5
       \/ Versioned /\ Len(stream) >= 5 /\ LengthOk /\ (MsgLength < 0 \/ Len(stream) < FrameEnd)
    /\ ioerror' = TRUE
    /\ UNCHANGED << sent, noise, tail, stream, out, inOrder >>

Next ==
    \/ Poll
    \/ SkipByte
    \/ VersionMismatch
    \/ LengthChecksumFail
    \/ DataChecksumFail
    \/ Dispatch
    \/ ShortRead

Spec == Init /\ [][Next]_vars

(***************************************************************************)
(***************************************************************************)
(* Once run() has read all it will read of datagrams that arrived in      *)
(* order, every frame the device sent after the noise has been dispatched, *)
(* in order and unaltered, and run() has returned on an IOError only if    *)
(* the stream ends inside a frame: the decoder in run() inverts the        *)
(* encoder of _send and finds the frames again after the noise.  Spec      *)
(* scenario 4 says so of noise that ends in a protocol-version mismatch    *)
(* (FF FD 00 00 FF 00 00 FF) and scenario 5 of noise that is a frame with  *)
(* a corrupted checksum.                                                   *)
(***************************************************************************)
Finished == stream = << >> \/ ioerror

AllFramesDecoded ==
    Finished /\ inOrder => (ioerror => tail # << >>) /\ IsSuffix(sent, out)

(***************************************************************************)
(* Datagrams that arrive out of order may cost frames, but run() never     *)
(* dispatches a frame the device did not send: as long as each frame fits  *)
(* in one datagram, a swap moves whole frames and the noise and the tail   *)
(* around, and the decoder's resynchronisation after a cut frame, with the *)
(* two checksums, never assembles a valid frame out of the pieces.         *)
(***************************************************************************)
DispatchedWereSent ==
    \A i \in 1..Len(out) : out[i] \in ToSet(sent)

(* The datagrams of frame f, for every size up to MAX_UDP_PACKET_SIZE,    *)
(* are non-empty, no longer than the size, and put together again give f. *)
ChunkedRight(f) ==
    \A max \in 1..MaxDatagram :
        LET d == Chunks(f, max)
        IN  FlattenSeq(d) = f /\ \A j \in 1..Len(d) : Len(d[j]) \in 1..max

(***************************************************************************)
(* write()'s chunking loop checked against its reference: every frame the  *)
(* device sent survives being cut into datagrams and put together again.   *)
(***************************************************************************)
ChunksReassemble ==
    \A i \in 1..Len(sent) : ChunkedRight(Encode(sent[i].topic, sent[i].msg))

=============================================================================
