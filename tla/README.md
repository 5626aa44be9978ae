# TLA+ models of rosserial_python's SerialClient

This directory holds TLA+ models of `src/rosserial_python/src/rosserial_python/SerialClient.py`, the host side of the rosserial protocol. It also holds the TLC configurations that check them. Line numbers below refer to that file.

## The system

| Part | Code | State it keeps | Operations |
|---|---|---|---|
| Codec | `_send` 976-995; the decode loop in `run` 687-755; `tryRead` 630-648 | none (pure) | building a frame; cutting a byte stream into frames |
| Session core | `SerialClient.__init__` 528-601, `run` 650-760, `processWriteQueue` 997-1021, `requestTopics` 603-616, `txStopRequest` 618-628, `send` 962-966 | `write_queue`, `synced`, `lastsync`, `callbacks`, `publishers`, `subscribers`, `buffer_in`/`buffer_out`, the reader and writer threads | reader iteration; writer iteration; shutdown hook; watchdog |
| Registry endpoints | `Publisher` 103-126, `Subscriber` 129-155, `setupPublisher`/`setupSubscriber` 772-805 | bound topics by id and name | install, rebind, callback |
| Services | `ServiceServer` 157-199, `ServiceClient` 202-234, `setupService*` 807-881 | shared `response`, `id` | middleware call (busy-wait), device response, proxy call |
| Handlers | `handleTimeRequest` 883-890, `handleParameterRequest` 892-942, `handleLoggingRequest` 944-960, `sendDiagnostics` 1024-1044 | `lastsync` | answer on the write queue; log |
| TCP transport | `RosSerialServer` 237-349 | `socket`, `isConnected`, `serversocket` | accept loop; `read`, `write`, `inWaiting` |
| UDP transport | `RosSerialUDPServer` 351-513 | `client_address`, `isConnected`, `recv_buffer` | receive loop; pinning; 508-byte chunks |
| Type reflection | `load_pkg_module`, `load_message`, `load_service` 65-91 | none | imports |

### How the parts interact

Four actors run concurrently:

- **The reader thread (`run`)** holds the read lock only around `inWaiting()` and `port.read`. It decodes frames and calls the handler registered in `self.callbacks` for the frame's topic id. The setup handlers extend that table. `handleTimeRequest` refreshes `lastsync`. An unknown id re-requests the topics.
- **The writer thread (`processWriteQueue`)** drains `write_queue` into `_send` or `_write` until `rospy.is_shutdown()`.
- **Middleware callbacks** (`Subscriber.callback` and `ServiceServer.callback`) put items on the queue from rospy's threads.
- **rospy's shutdown** (`signal_shutdown`) first runs the hook registered at 550-552, which flushes the input and queues the stop-tx frame. Then it sets the shutdown flag that `is_shutdown()` reads.

### What is hard here

- **Shutdown ordering.** The writer thread may exit before it writes the stop-tx frame: a writer asleep across the hook's put wakes to a raised flag.
- **The sync watchdog.** The session is dropped after 3·timeout without a refresh. Only a time request refreshes it, and a flush can throw away the time request that would have refreshed it.
- **Negotiation retries.** `requestTopics` is re-sent only by the watchdog or by an unknown id.
- **Decoder resynchronisation after noise.** A stray `0xFF` eats the next header, and the length field is signed.
- **The shared `response` in ServiceServer** when callers are concurrent.
- **Sessions that overlap on one TCP server object.**
- **UDP's address pinning.**

PROJECT.json lists each hazard at its line.

## Modules

### `Codec.tla` (and `MC_Codec.tla`)

- `Encode` is `_send`'s frame. The length and topic id are packed `<h`, the two checksums are `255 - sum % 256`, and the bytes are integers 0..255.
- The decoder is the loop of `run()` over the bytes not yet read, kept in `stream`. There is one action per way an iteration ends:
  - `SkipByte`: the first `continue`, for a byte that is not the sync flag.
  - `VersionMismatch`
  - `LengthChecksumFail`
  - `DataChecksumFail`
  - `Dispatch`
  - `ShortRead`: `tryRead`'s IOError, after which `run()` returns.
  - `Poll`: `inWaiting() < 1`.
- The length is unpacked as the code does it, signed, so a negative count makes `tryRead` time out.
- Each behaviour starts from one input stream: noise, then the encodings of up to `MaxFrames` frames, then a tail. The tail is a frame cut off by a device reset.
- `Chunks` is the loop of `RosSerialUDPServer.write()` (437-450). It cuts data into datagrams of at most `MaxDatagram` bytes, the constant `MAX_UDP_PACKET_SIZE`.
- Over UDP, the noise, each frame and the tail travel in the datagrams `Chunks` cuts them into. The device's transport is taken to cut its writes the way `write()` does. `read()` appends datagrams to `recv_buffer` in the order they arrive. With `Reordered`, one adjacent pair of datagrams may arrive swapped, and `inOrder` records whether they did.

### `Session.tla` (and `MC_Session.tla`)

This module models a serial-port session: the reader and the writer as program counters `rpc` and `wpc`, the shutdown hook, subscriber callbacks and the device.

**Frames are abstract records.** Their bytes are Codec's business. The variables map to the code as follows:

| Variable | Code |
|---|---|
| `inbound` | bytes received but not yet read |
| `queue` | `write_queue` |
| `wire` | bytes written and not yet consumed by the device |
| `handlers` | the topic ids in `self.callbacks` |
| `subs` | `self.subscribers` |
| `elapsed` | ticks since `lastsync` |
| `synced` | `self.synced` |

**Reader actions** follow the statements of `run()`:

- `ReaderTop`: the loop condition and the watchdog.
- `ReaderPoll`
- `ReaderRead`: a decoded frame and its dispatch. Inside it:
  - `setupPublisher`, `setupSubscriber` and `handleTimeRequest`;
  - `handleParameterRequest`, with its three outcomes: a response is queued (the parameter exists or not), a request that fails to deserialize is dropped (898-900), or an empty-list parameter raises IndexError at `param[0]` (920), which `run()`'s `except IOError` does not catch, so the reader ends;
  - `handlePacket`;
  - the KeyError branch, which calls `requestTopics`.
- `ReaderReadTimeout`
- `ReaderJoin`

**Writer actions:** `WriterTop`, `WriterPoll` and `WriterWrite`. `WriterWrite` covers success, `SerialTimeoutException` (the same item is retried) and `SerialException` (the thread dies).

**Shutdown and callbacks:**

- `txStopRequest` is the hook, as `signal_shutdown` runs it: it flushes the input and queues stop-tx while `is_shutdown()` is still false (`shut = "hook"`).
- `ShutdownFlag` is rospy then setting its shutdown flag (`shut = "done"`); the loops of `run()` and `processWriteQueue()` test it. It is rospy's code, so it has no entry in the map.
- `SubscriberCallback` models a middleware message.

**The device** is the environment:

- A request-topics frame makes it announce a time request and its topics.
- A configured device asks for the time every `Period` ticks.
- It may send data, parameter requests, bad frames and truncated frames, within a `Budget`.
- It may reset, and it may miss a frame (`MaxLoss`).

**History variables.**

- `devConfigured` says whether the device has its configuration. With `StaleDevice` it may start TRUE: a device keeps its topics across host restarts.

**Service client.** With `SvcClient`, the device's negotiation also announces the two halves of a service client:
- `setupServiceClientPublisher` binds `ServiceClient.handlePacket` (`svcBound`);
- `setupServiceClientSubscriber` sets `srv.id` (`svcId`).

A `CallFrame` dispatched to the bound handler puts the reader in `rpc = "proxy"`. That is the middleware call `self.proxy(req)` made on the reader thread. `ReaderProxy` is its return: the response is queued under `self.id`, or nothing is sent when `self.id` is unset or the call raises. While the reader is held, time may pass with input waiting, for at most `ProxyTicks` ticks (`proxy` counts them). A frame for the service client before its publisher half is bound takes the KeyError branch.

**Oversize messages.** With `Oversize`, a middleware message may be longer than `buffer_in` (`SubMsg(t, TRUE)`). `_send`'s size check (`TooBig`) then takes the branch that formats the undefined name `msg`. The NameError is caught by neither handler of `processWriteQueue`, so the writer thread ends (a fourth disjunct of `WriterWrite`).

**Time** advances (`Tick`) only when nothing is in flight. The reader and writer handle a frame in far less than the 5 s timeout. One tick is a fraction of the timeout, and `Window = 3` stands for the 3·timeout watchdog. Because a tick waits for the link and the reader's input to empty, and a configured device asks for the time every `Period = 1` tick, the watchdog expires only for a device that has stopped asking (reset, stopped, or never configured). The model therefore says nothing about a live device dropped by the watchdog; the hazards at 664, 611 and 228 record that.

### `TcpServer.tla`

This module models `RosSerialServer` (237-349), the TCP listener, together with the sessions it runs. Each session is reduced to what reaches the socket. Session k runs over the k-th accepted connection. `fork` is the constructor's `fork_server`, chosen in `Init`, so one run covers both modes.

| Variable | Code |
|---|---|
| `lpc` | the listener: in `accept()` or inside `startSerialClient()` |
| `socket[p]`, `isConnected[p]` | `self.socket`, `self.isConnected` of process p: the listener is 0, and forked child k is k |
| `closed` | connections whose socket the host closed in the `finally` of `startSerialClient()` |
| `peerClosed` | connections the device closed |
| `rpc[k]`, `wpc[k]` | session k's reader (`run()`) and writer thread (`processWriteQueue()`) |
| `q[k]` | items on session k's `write_queue`; `__init__`'s request-topics is the first |
| `recv[c]` | the sessions whose items connection c carried to its device |

**Actions.**

- `listen` is one pass of the accept loop. It sets `self.socket` and `isConnected`, starts the session and its writer, and, without `fork_server`, enters `startSerialClient()`. `Proc(k)` picks the `self` a session uses: the child's copy with `fork_server`, the listener's otherwise.
- `Produce(k)` is a callback of a running session calling `send`.
- `WriterSend(k)` is one item through `write()`. The outcomes are:
  - it is dropped when `isConnected` is false;
  - OSError (EBADF) on a socket the host closed ends the thread;
  - on a connection the device closed, the send succeeds into the buffer, or `BrokenPipeError` becomes RuntimeError and drops the item (1019), or `ConnectionResetError` ends the thread;
  - otherwise it is delivered.
- `PeerClose(c)` is the device closing its connection.
- **Session ends** all run the `finally` (`startSerialClient(k, conn)`): close `self.socket`, stop the callbacks, return the listener to `accept()`. A forked child exits and takes its daemon writer with it. Without `fork_server` the writer thread is not joined and lives on. There are three ways to end:
  - `inWaitingEof(k)`: the empty peek raises RuntimeError, and `isConnected` becomes False.
  - `RunReturns(k)`: an IOError from `tryRead`/`read`, or lost sync, makes `run()` return normally; `isConnected` stays True.
  - `WriterGone(k)`: the loop condition sees the dead writer.

In Python 3 `IOError` is `OSError`, so a connection reset seen by `inWaiting()` is caught by `run()` and is a `RunReturns`.

### `UdpServer.tla`

This module models `RosSerialUDPServer` (351-513) without `fork_server`: one UDP socket for all hosts and the server object shared by every session. Hosts send from an (ip, port) address and may move to another port (a NAT rebinding). A datagram is a part of a frame, the last part of one, or empty. Its bytes are left out, and the decoding of frames is Codec's.

| Variable | Code |
|---|---|
| `client` | `self.client_address`; `self.isConnected` is always `client # None` (every assignment sets the two together) |
| `recvBuffer` | `self.recv_buffer`, as the ip and kind of each datagram in it |
| `sockq` | datagrams waiting at the server socket |
| `pin[k]` | the ip `client_address` had when session k started |
| `heard[k]` | the ips whose datagrams session k's reader took as frame bytes |

**Actions.**

- `listen` is the peek of the listener loop and the start of a session. The first sender is pinned; a client kept from a session that returned normally stays pinned whoever sent. `SerialClient.__init__`'s `requestTopics` empties `recv_buffer` through `flushInput`.
- `listenTimeout` is the 5 s peek timeout that forgets the client.
- `inWaiting(k)` takes one datagram off the socket. An empty one raises RuntimeError: the session ends, and the client is forgotten. Any other is re-pinned through `Repin` and appended to `recv_buffer` whatever its address.
- `read(k)` takes frame parts from `recv_buffer`, then from the socket. On the socket it skips other ips and re-pins on another port of the client's ip. An empty datagram there becomes an IOError, and `run()` returns normally.
- `RunReturns(k)` is a timeout of `tryRead` or lost sync.
- `Produce(k)` and `write(k)`: `write()` takes an item off the session's queue and sends it to the current `client_address`, or nowhere without one. The writer thread of an ended session keeps writing through the shared object; the model's writer never dies.
- `Send(h, kind)` and `Rebind(h)` are the network.

### `ServiceServer.tla` (and `MC_ServiceServer.tla`)

This module models one service the device serves, with `Callers` concurrent middleware threads in `ServiceServer.callback`. Its variables:
- `srv`, `idSet` and `bound`: whether the ServiceServer exists, `srv.id` is set, and `handlePacket` is in `self.callbacks`;
- `response`: the one shared `self.response`;
- `cpc`: each caller's place in `callback()`;
- `toDev` / `fromDev`: requests and replies in flight.

Its actions:
- **Negotiation.** `setupServiceServerPublisher` / `setupServiceServerSubscriber` take the halves in the device's order (`PubFirst`). A half whose md5sum is in `Mismatched` creates the server but binds nothing.
- **Callers.** `Call` resets `self.response` (182-186). `CallSend` is `self.parent.send(self.id, ...)`; it raises AttributeError while `srv.id` is unset (187). `CallReturn` leaves the busy wait once `response` is not None (188-190).
- **Reader.** `handlePacket` is the reader's dispatch of a reply: it stores the reply when bound, and otherwise takes the KeyError branch, which re-requests the topics.
- **Device and link.** The device serves requests in order (`DeviceServe`). The link may lose a request or a reply, and the device may reset; together these are bounded by `MaxLoss`.

A request is a pair (caller, call number), so a reply says which call it answers.

### `Registry.tla` (and `MC_Registry.tla`)

**Registry** models the two dictionaries that `setupPublisher` / `setupSubscriber` maintain under any sequence of TopicInfo announcements:
- `publishers`: topic id to name and type;
- `subscribers`: topic name to type, id and whether the Subscriber is still registered.

An announcement carries a name, a type, an id and an md5sum. The md5sum is wrong only for the types in `BadMd5`.
- `setupPublisher` stores a Publisher only if its constructor does not raise (`Md5Ok`).
- `setupSubscriber` has the code's three branches: new name; known name with another type (unregister, then construct); known name with the same type (nothing).

## Runs

| Run | Checks | Result |
|---|---|---|
| `session_main` (`MC_Session.cfg`) | `TypeOK`; `NegotiationCompletesWithoutLoss` (on a link that loses no frame, topics and both service-client halves get bound unless the session ends or is shut down); with one frame lost on the link in other behaviours, a service client whose calls hold the reader up to one tick, parameter requests, and oversize middleware messages | passes, about 1.5M states in about 40 s |
| `session_stoptx` (`MC_Session_stoptx.cfg`) | `StopTxLast`, spec scenario 3 | **violated**: the writer is between its sleep and its loop test, the hook queues stop-tx, rospy raises the flag, and `WriterTop` exits with stop-tx still queued |
| `codec_roundtrip` (`MC_Codec.cfg`) | `AllFramesDecoded` (datagrams in order, noise that does not end in a sync byte: every frame decoded); `DispatchedWereSent` (one adjacent pair of frame-sized datagrams swapped: nothing dispatched that the device did not send); `ChunksReassemble` (`write()`'s chunks are non-empty, bounded and reassemble each frame, for every size 1..10) | passes, about 810k states in about a minute |
| `codec_scenario4` (`MC_Codec_scenario4.cfg`) | `AllFramesDecoded` with spec scenario 4's noise `FF FD 00 00 FF 00 00 FF` and one frame | **violated**: the noise's last `FF` takes the frame's `FF` as its protocol byte, and the frame is never dispatched |
| `session_oversize` (`MC_Session_oversize.cfg`) | `WriterEndsOnlyOnShutdownOrPortError` (spec 4.D/6: an oversize message is dropped and the writer goes on) | **violated**: a subscriber message larger than `buffer_in` ends the writer with a NameError |
| `service_two` (`MC_ServiceServer_two.cfg`) | `CallReturnsWithoutLoss` (on a link that loses nothing, every call into `callback` returns); two callers, response half announced first, with one lost frame or reset, which hangs a caller | passes, about 12k states |
| `service_mixup` (`MC_ServiceServer_mixup.cfg`) | `ResponseMatches` for two concurrent callers | **violated**: the second caller's reset and the first reply make both calls return the first reply |
| `registry_rebind` (`MC_Registry_rebind.cfg`) | `InstallBinds`, with md5sum mismatches | **violated**: a failed rebind leaves the unregistered Subscriber in the dict, and a later valid announcement of the old type is skipped |
| `tcp_main` (`MC_TcpServer.cfg`) | `TypeOK`; three connections, both modes; it fires every TcpServer action, so that the state `tcp_isolation` reaches is one the whole model reaches | passes, about 131k states |
| `udp_main` (`MC_UdpServer.cfg`) | `TypeOK`; `SessionFollowsDevice` (a running session re-pins to the device's new port once a datagram from it waits); device and foreign host, one port change, empty datagrams, two sessions | passes, about 90k states |
| `udp_foreign` (`MC_UdpServer_foreign.cfg`) | `OnlyClientHeard` (a session reads only what its client sent, as read()'s filter intends) | **violated**: a foreign datagram goes through `inWaiting()` into `recv_buffer`, and `read()` hands it to the session |
| `tcp_isolation` (`MC_TcpServer_isolation.cfg`) | `SessionIsolation` (spec 5: every session has its own Transport) | **violated**: session 1's `run()` returns on an IOError without joining its writer, the listener accepts connection 2 and replaces `self.socket`, and session 1's writer sends its queued frame to device 2 |

`codec_roundtrip` covers every frame `_send` builds, and shows that `run()` dispatches each one unaltered and in order even after:

- scenario 5's corrupted checksum;
- a version mismatch followed by a byte that is not a sync byte (the first three bytes of scenario 4);
- a length-checksum failure.

Its noise never ends in a sync byte and never holds a header with a negative length that passes its checksum. The first is `codec_scenario4`'s violation; the second is a short read that ends `run()` (the hazard at 715).

It also shows that `run()` hits an IOError only for a truncated tail.

`ChunksReassemble` checks the frames of `sent` in every state. `sent` never changes, so this repeats the same check, at the cost of about half the run time.

`MC_Codec_reorder.cfg` uses 4-byte datagrams, so a frame spans several of them. Run `tlc -config MC_Codec_reorder.cfg MC_Codec` to see `DispatchedWereSent` violated:
- the device sends topic 256 with payload `00`;
- the frame's last two datagrams arrive swapped;
- `run()` dispatches topic 254 with payload `01`.

Both checksums are byte sums, so they cannot see bytes that moved. This cfg is not in the list of runs. The hazard at 509 (ordering) records it.

`MC_Session_lostreq.cfg` reproduces the negotiation that never completes once a request-topics frame is lost: `tlc -config MC_Session_lostreq.cfg MC_Session` shows `NegotiationCompletes` violated. The trace runs as follows:
- a subscriber-only device starts unconfigured;
- the watchdog's retry flushes the device's first answers, and the device is now configured;
- the retry's request is lost;
- the device's time requests keep `lastsync` fresh, so the host never asks again.

The spec does not say how negotiation is retried. `session_main` therefore checks negotiation under the no-loss precondition.

### Bounds

**Session:**

- two publishers (one with a mismatched md5sum) and one subscriber;
- `MaxInbound = 4`, enough for the whole negotiation burst;
- `Budget = 2` device frames, resets and middleware messages (`Budget = 1` in `session_main`, whose service client and oversize messages add their own steps);
- one write fault;
- at most one lost frame (`session_main`);
- a device configured from an earlier host (`StaleDevice`) in `session_stoptx` and `session_oversize`; `session_main` starts from an unconfigured device, and loss reconfigures it during the session;
- in `session_main`, a service client whose calls take at most one tick (`ProxyTicks = 1`), and middleware messages that may be oversize; `MaxInbound = 6` holds the negotiation burst with both service-client halves.

With these, every action fires. They also reach a flush of a pending time request and an unknown-id re-request.

**ServiceServer:** two callers with 3 calls each and one loss or reset reach every interleaving of two calls, a late reply, and a call hung by a lost frame, including both orders of reset and reply. No run has a mismatched half, so the `Mismatched` branch of the setup handlers is not exercised.

**Registry:** two names, two types and two ids (and a bad md5sum for `t1`) reach every branch of `setupSubscriber` (new, rebind to another type, same type under a new id) and a publisher id taken over by another name. `BadSum` is a wrong md5sum for the types in `BadMd5`.

**TcpServer:** three connections and one callback item per session (plus request-topics) reach:
- a session ending in each of the three ways, in each mode;
- a writer outliving its session and meeting each socket state: not connected, closed by the host, closed by the device, or a new connection;
- two overlapping forked sessions.

Two connections suffice for the isolation trace.

**UdpServer:** two hosts, two ports, two datagrams and two sessions. Two datagrams are enough for each of:
- pin, move and send from the new port;
- pin, then a foreign datagram;
- an empty datagram ending a session;
- a frame in two parts read across `recv_buffer` and the socket.

Two sessions reach a client kept after a normal return and the 5 s timeout between sessions. The violation needs one session.

**Codec:**

- The topic ids 11, 255 and 256 put `0xFF` and `0x00` into the topic field.
- Payloads have up to two bytes over {00, FE, FF}, so sync and version bytes appear inside frames.
- Up to two frames per stream (`MaxFrames`); `codec_scenario4` asks for at least one (`MinFrames = 1`), so that a frame follows the noise.
- With `MaxDatagram = 10` every frame fits in one datagram, so a swap moves whole frames, the noise and the tail. With one swap, every adjacent pair of the two frames, the noise and the tail gets exchanged.

### Fairness

Session assumes weak fairness of the reader, the writer, the device's receive and time sync, the clock, and rospy's raising of its shutdown flag:

- The two threads are daemon threads that loop without blocking beyond timeouts.
- `signal_shutdown` sets the flag right after the hooks return. Whether a shutdown happens at all (`txStopRequest`) is not assumed.
- A configured rosserial client requests time periodically.

No fairness is assumed for the device's optional sends, its resets or its losses.

ServiceServer assumes weak fairness of:
- negotiation;
- the reader's dispatch of a reply (`handlePacket`);
- the device serving a request;
- each caller's steps once it is inside `callback()`, because the busy wait keeps the thread running.

Starting a call is optional, and no fairness is assumed for losses or resets.

Registry has no liveness properties and so no fairness.

TcpServer's fairness serves no property of the runs now; it states how the threads are scheduled.

TcpServer assumes weak fairness of each session's writer (`WriterSend`) and of the reader's two forced ends:
- `inWaitingEof`, because the reader polls `inWaiting()` every millisecond;
- `WriterGone`, because the loop condition is tested on every iteration.

Nothing is assumed for `RunReturns`, which needs a stall or silence of the device, nor for the device connecting or closing.

UdpServer assumes weak fairness of each session's `inWaiting`, `read` and `write`, the steps of the reader and writer threads. Nothing is assumed for hosts, the peek timeout or `RunReturns`.

## Findings

See `findings` in PROJECT.json:

- The stop-tx frame is lost at shutdown: the hook queues it before rospy raises the flag, and a writer that slept across the put exits without it. This diverges from the spec.
- A frame after noise that ends in `FF` (spec scenario 4's bytes) is lost: the decoder pairs the two `FF`s as a version mismatch. This diverges from spec scenario 4.
- `inWaiting()` appends datagrams from any host to `recv_buffer`, and `read()` serves it before filtering addresses, so a foreign host feeds the device's session. This is a bug (509).
- Without `fork_server`, an ended session's writer thread writes its frames to the next device through the replaced `self.socket`. This is a bug (spec 5).
- An oversize middleware message kills the writer thread through the NameError at 982. This is a bug.
- Concurrent service calls return each other's replies through the shared `self.response`. This is a bug.
- A subscriber rebind that fails on its md5sum leaves the name unbound for good. This diverges from spec 8.

## Plan (next modules, in order)

1. **Writer FIFO refinement.** `processWriteQueue` refines an abstract ordered channel: when nothing fails, n queued items give n writes in order (spec 8).
2. **ServiceServer timeouts.** A property for the hang after a lost reply, once the spec's timeout policy is settled.

## Not modelled

- **Type reflection** (imports). Its only effect, whether an md5sum matches, is the constant `Mismatched`.
- **Logging and diagnostics publishing.** They change no node state.
- **Message serialisation.** Payloads are opaque.
- **The TCP listener's shutdown exit**, and the stop-tx frames that the shutdown hooks of earlier sessions queue for writer threads that are still alive.
- **The UDP listener with `fork_server`.** The peek never consumes the datagram, so the listener forks a child on every pass until a child reads it (see the hazards).
- **The listener's copies of forked client sockets.** With `fork_server` the listener never closes them, so a child's `close()` does not end the connection. TcpServer does not count descriptor copies; see the hazards.
- **`rospy.wait_for_service`** in the ServiceClient constructor is assumed to return at once. It blocks the reader like the proxy call does.
- **The writer's `struct.error`** on a length or topic id of 2^15 or more. Session's items carry no length.
