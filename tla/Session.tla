------------------------------- MODULE Session -------------------------------
(***************************************************************************)
(* One SerialClient session (SerialClient.py): the reader loop of run(),   *)
(* the writer thread processWriteQueue(), the shutdown hook that calls     *)
(* txStopRequest(), middleware subscriber callbacks that call send(), and  *)
(* the device at the far end of the link as the environment.               *)
(*                                                                         *)
(* Frames are abstracted to records naming what the reader does with      *)
(* them; the byte-level framing is the subject of module Codec.  Time is   *)
(* counted in ticks: `elapsed` is now - lastsync on the host, `devElapsed` *)
(* is the time since the device last asked for the time.                   *)
(***************************************************************************)
EXTENDS Naturals, Sequences, SequencesExt

CONSTANTS
    DevicePubs,     \* topic ids the device publishes (TopicInfo via ID_PUBLISHER)
    DeviceSubs,     \* topic ids the device subscribes (TopicInfo via ID_SUBSCRIBER)
    Mismatched,     \* topics whose md5sum differs from the host's message type
    Window,         \* ticks in 3 * self.timeout, the host's sync window
    Period,         \* ticks between two time requests of a configured device
    FlushClears,    \* TRUE when port.flushInput() discards input (serial port)
    MaxInbound,     \* bound on frames buffered in the host's input
    Budget,         \* bound on device and middleware events
    MaxWriteFaults, \* bound on failed port writes
    MaxLoss,        \* bound on frames the device misses (line noise, torn writes)
    SvcClient,      \* the device calls a middleware service (a ServiceClient)
    ProxyTicks,     \* bound on the ticks one middleware service call takes
    Oversize,       \* middleware messages may exceed the device's buffer_in
    StaleDevice     \* the device may still be configured from an earlier host

ASSUME /\ DevicePubs \cap DeviceSubs = {}
       /\ Mismatched \subseteq DevicePubs \cup DeviceSubs
       /\ Period \in Nat \ {0} /\ Window \in Nat /\ Period < Window
       /\ FlushClears \in BOOLEAN
       /\ MaxInbound \in Nat /\ Budget \in Nat /\ MaxWriteFaults \in Nat
       /\ MaxLoss \in Nat
       /\ SvcClient \in BOOLEAN /\ ProxyTicks \in Nat /\ Oversize \in BOOLEAN
       /\ StaleDevice \in BOOLEAN
       /\ 1 + Cardinality(DevicePubs \cup DeviceSubs) + (IF SvcClient THEN 2 ELSE 0)
            <= MaxInbound

Topics == DevicePubs \cup DeviceSubs

(* Frames the reader can decode from the input (device -> host).           *)
InfoFrame(role, t) == [k |-> "info", role |-> role, t |-> t]
DataFrame(t)       == [k |-> "data", t |-> t]
TimeFrame          == [k |-> "time"]
ParamFrame         == [k |-> "param"]
BadFrame           == [k |-> "bad"]     \* wrong version byte or a checksum failure
ShortFrame         == [k |-> "short"]   \* the device stopped in mid-frame
\* the two halves of the device's service client, and a request on it
SvcInfo(half)      == [k |-> "svcinfo", half |-> half]
CallFrame          == [k |-> "call"]
InFrames ==
    {InfoFrame(r, t) : r \in {"pub", "sub"}, t \in Topics}
      \cup {DataFrame(t) : t \in Topics}
      \cup {TimeFrame, ParamFrame, BadFrame, ShortFrame, CallFrame}
      \cup {SvcInfo(h) : h \in {"pub", "sub"}}

(* Items of write_queue and frames written to the device (host -> device). *)
ReqTopics == [k |-> "req"]       \* FF FE 00 00 FF 00 00 FF
StopTx    == [k |-> "stop"]      \* FF FE 00 00 FF 0B 00 F4
TimeResp  == [k |-> "timeresp"]  \* send(ID_TIME, ...)
ParamResp == [k |-> "paramresp"] \* send(ID_PARAMETER_REQUEST, ...)
SvcResp   == [k |-> "svcresp"]   \* ServiceClient: send(self.id, response)
\* a middleware message for a subscriber; big: longer than buffer_in
SubMsg(t, big) == [k |-> "sub", t |-> t, big |-> big]
Items == {ReqTopics, StopTx, TimeResp, ParamResp, SvcResp}
           \cup {SubMsg(t, b) : t \in DeviceSubs, b \in BOOLEAN}
NoItem == [k |-> "none"]

\* _send's test: self.buffer_in > 0 and length > self.buffer_in (buffer_in
\* is set once a subscriber is set up, before any middleware message)
TooBig(item) == item.k = "sub" /\ item.big

VARIABLES
    rpc,           \* reader thread: where run() is
    wpc,           \* writer thread: where processWriteQueue() is
    witem,         \* the item the writer took from the queue
    queue,         \* self.write_queue
    inbound,       \* bytes received and not yet read, as frames
    wire,          \* frames written and not yet consumed by the device
    lastWrite,     \* the last frame written to the port
    synced,        \* self.synced
    elapsed,       \* now - self.lastsync, capped at Window + 1
    handlers,      \* topic ids of self.callbacks bound by setupPublisher
    subs,          \* topics of self.subscribers
    shut,          \* rospy: "no", "hook" (the hook has run, is_shutdown() false), "done"
    devConfigured, \* the device has negotiated its topics
    devElapsed,    \* ticks since the device's last time request
    budget,
    faults,
    lost,          \* frames the device missed
    svcBound,      \* setupServiceClientPublisher bound ServiceClient.handlePacket
    svcId,         \* setupServiceClientSubscriber set the ServiceClient's id
    proxy          \* ticks the reader has spent in the current self.proxy(req)

vars == <<rpc, wpc, witem, queue, inbound, wire, lastWrite, synced, elapsed,
          handlers, subs, shut, devConfigured, devElapsed, budget, faults, lost,
          svcBound, svcId, proxy>>

svcVars == <<svcBound, svcId, proxy>>

TypeOK ==
    /\ rpc \in {"top", "poll", "read", "proxy", "join", "done"}
    /\ wpc \in {"top", "poll", "write", "done"}
    /\ witem \in Items \cup {NoItem}
    /\ (wpc = "write") = (witem # NoItem)   \* the writer holds an item only while writing
    /\ queue \in Seq(Items)
    /\ inbound \in Seq(InFrames)
    /\ wire \in Seq(Items)
    /\ lastWrite \in Items \cup {NoItem}
    /\ synced \in BOOLEAN
    /\ elapsed \in 0..Window + 1
    /\ handlers \subseteq DevicePubs
    /\ subs \subseteq DeviceSubs
    /\ shut \in {"no", "hook", "done"}
    /\ devConfigured \in BOOLEAN
    /\ devElapsed \in 0..Period
    /\ budget \in 0..Budget /\ faults \in 0..MaxWriteFaults /\ lost \in 0..MaxLoss
    /\ svcBound \in BOOLEAN /\ svcId \in BOOLEAN /\ proxy \in 0..ProxyTicks

-----------------------------------------------------------------------------
(* port.flushInput(): what is left of the input after a flush.             *)
Flushed(rest) == IF FlushClears THEN <<>> ELSE rest

(* requestTopics(): flush the input under the read lock, then queue the    *)
(* request-topics frame.  `rest` is the input left after the current read. *)
requestTopics(rest) ==
    /\ inbound' = Flushed(rest)
    /\ queue' = Append(queue, ReqTopics)

(* send(topic, msg): queue a (topic, bytes) tuple.                         *)
send(item) == queue' = Append(queue, item)

Init ==
    \* __init__: the reserved callbacks are installed, requestTopics() has
    \* flushed the input and queued the request, lastsync = now; run() has
    \* started the writer thread.
    /\ rpc = "top" /\ wpc = "top" /\ witem = NoItem
    /\ queue = <<ReqTopics>>
    /\ inbound = <<>> /\ wire = <<>> /\ lastWrite = NoItem
    /\ synced = FALSE /\ elapsed = 0
    /\ handlers = {} /\ subs = {}
    /\ shut = "no"
    \* a device may keep its topics across host restarts
    /\ devConfigured \in IF StaleDevice THEN BOOLEAN ELSE {FALSE}
    /\ devElapsed = 0
    /\ budget = Budget /\ faults = 0 /\ lost = 0
    /\ svcBound = FALSE /\ svcId = FALSE /\ proxy = 0

-----------------------------------------------------------------------------
(* Reader: one iteration of the while loop of run().                       *)

(* The loop condition, then the sync-window check.                         *)
ReaderTop ==
    /\ rpc = "top"
    /\ \/ /\ wpc = "done" \/ shut = "done"    \* loop ends: write_thread.join()
          /\ rpc' = "join"
          /\ UNCHANGED <<inbound, queue, elapsed>>
       \/ /\ wpc # "done" /\ shut # "done"
          /\ \/ /\ elapsed > Window /\ synced  \* "Lost sync with device": return
                /\ rpc' = "done"
                /\ UNCHANGED <<inbound, queue, elapsed>>
             \/ /\ elapsed > Window /\ ~synced \* "Unable to sync": request again
                /\ requestTopics(inbound)
                /\ elapsed' = 0
                /\ rpc' = "poll"
             \/ /\ elapsed <= Window
                /\ rpc' = "poll"
                /\ UNCHANGED <<inbound, queue, elapsed>>
    /\ UNCHANGED <<wpc, witem, wire, lastWrite, synced, handlers, subs, shut,
                   devConfigured, devElapsed, budget, faults, lost>>
    /\ UNCHANGED svcVars

(* acquire_timeout(read_lock, 1) and port.inWaiting().                     *)
ReaderPoll ==
    /\ rpc = "poll"
    /\ rpc' = IF inbound = <<>> THEN "top" ELSE "read"
    /\ UNCHANGED <<wpc, witem, queue, inbound, wire, lastWrite, synced, elapsed,
                   handlers, subs, shut, devConfigured, devElapsed, budget,
                   faults, lost>>
    /\ UNCHANGED svcVars

(* The callbacks a decoded frame is dispatched to.  Each consumes the      *)
(* frame, leaving `rest` of the input.                                     *)

(* setupPublisher / setupSubscriber: Publisher(msg) / Subscriber(msg)      *)
(* raise when the md5sum does not match, and nothing is bound.             *)
setupPublisher(t, rest) ==
    /\ handlers' = IF t \in Mismatched THEN handlers ELSE handlers \cup {t}
    /\ inbound' = rest
    /\ UNCHANGED <<queue, elapsed, subs>>

(* Mutation variants of setupSubscriber: the subscriber bound into        *)
(* self.callbacks as setupPublisher does, and the md5sum test inverted.    *)
setupSubscriberAsPublisher(t, rest) ==
    /\ handlers' = IF t \in Mismatched THEN handlers ELSE handlers \cup {t}
    /\ inbound' = rest
    /\ UNCHANGED <<queue, elapsed, subs>>

setupSubscriberMd5Inverted(t, rest) ==
    /\ subs' = IF t \in Mismatched THEN subs \cup {t} ELSE subs
    /\ inbound' = rest
    /\ UNCHANGED <<queue, elapsed, handlers>>

setupSubscriber(t, rest) ==
    /\ subs' = IF t \in Mismatched THEN subs ELSE subs \cup {t}
    /\ inbound' = rest
    /\ UNCHANGED <<queue, elapsed, handlers>>

(* handleTimeRequest: answer with the host time, lastsync = now.           *)
handleTimeRequest(rest) ==
    /\ send(TimeResp)
    /\ elapsed' = 0
    /\ inbound' = rest
    /\ UNCHANGED <<handlers, subs>>

(* handleParameterRequest: a request that deserializes is answered with   *)
(* send(ID_PARAMETER_REQUEST), whether the parameter exists or not; one    *)
(* that fails to deserialize is logged and dropped; a parameter that is an *)
(* empty list raises IndexError at param[0], which run() does not catch.   *)
handleParameterRequest(rest) ==
    /\ inbound' = rest
    /\ \/ send(ParamResp) /\ rpc' = "top"
       \/ UNCHANGED queue /\ rpc' = "top"
       \/ UNCHANGED queue /\ rpc' = "done"
    /\ UNCHANGED <<elapsed, handlers, subs>>

(* Publisher.handlePacket: deserialize and publish to the middleware.      *)
handlePacket(rest) ==
    /\ inbound' = rest
    /\ UNCHANGED <<queue, elapsed, handlers, subs>>

(* setupServiceClientPublisher: the ServiceClient is created (waiting for *)
(* the middleware service) and its handlePacket bound to the request topic *)
(* id; setupServiceClientSubscriber sets srv.id, the response topic id.   *)
setupServiceClientPublisher(rest) ==
    /\ svcBound' = TRUE
    /\ inbound' = rest
    /\ UNCHANGED <<queue, elapsed, handlers, subs, svcId>>

setupServiceClientSubscriber(rest) ==
    /\ svcId' = TRUE
    /\ inbound' = rest
    /\ UNCHANGED <<queue, elapsed, handlers, subs, svcBound>>

(* ServiceClient.handlePacket: deserialize the request and call            *)
(* self.proxy(req) on the reader thread; ReaderProxy is its return.        *)
ServiceClientHandlePacket(rest) ==
    /\ inbound' = rest
    /\ UNCHANGED <<queue, elapsed, handlers, subs>>

(* self.callbacks[topic_id](msg); KeyError: "Tried to publish before       *)
(* configured", requestTopics().                                           *)
dispatch(f, rest) ==
    \/ /\ f = SvcInfo("pub")
       /\ setupServiceClientPublisher(rest)
    \/ /\ f = SvcInfo("sub")
       /\ setupServiceClientSubscriber(rest)
    \/ /\ f.k # "svcinfo"
       /\ UNCHANGED <<svcBound, svcId>>
       /\ CASE f.k = "info" /\ f.role = "pub"   -> setupPublisher(f.t, rest)
            [] f.k = "info" /\ f.role = "sub"   -> setupSubscriber(f.t, rest)
            [] f = TimeFrame                    -> handleTimeRequest(rest)
            [] f.k = "data" /\ f.t \in handlers -> handlePacket(rest)
            [] f = CallFrame /\ svcBound        -> ServiceClientHandlePacket(rest)
            [] OTHER -> /\ requestTopics(rest)
                        /\ UNCHANGED <<elapsed, handlers, subs>>

(* The frame is read with tryRead(): a bad frame is dropped, a short one   *)
(* raises IOError and run() returns, a valid one sets synced and is        *)
(* dispatched.                                                             *)
ReaderRead ==
    /\ rpc = "read"
    /\ inbound # <<>>
    /\ LET f == Head(inbound) IN
       \/ /\ f \in {BadFrame, ShortFrame}
          /\ inbound' = Tail(inbound)
          /\ rpc' = IF f = BadFrame THEN "top" ELSE "done"
          /\ UNCHANGED <<queue, synced, elapsed, handlers, subs, svcBound, svcId>>
       \/ /\ f = ParamFrame
          /\ synced' = TRUE
          /\ handleParameterRequest(Tail(inbound))
          /\ UNCHANGED <<svcBound, svcId>>
       \/ /\ f \notin {BadFrame, ShortFrame, ParamFrame}
          /\ synced' = TRUE
          \* a request to the ServiceClient holds the reader in self.proxy(req)
          /\ rpc' = IF f = CallFrame /\ svcBound THEN "proxy" ELSE "top"
          /\ dispatch(f, Tail(inbound))
    /\ UNCHANGED <<wpc, witem, wire, lastWrite, shut, devConfigured, devElapsed,
                   budget, faults, lost, proxy>>

(* self.proxy(req) returns: the response goes on the write queue under    *)
(* self.id.  Without self.id, or when the middleware call raises, the      *)
(* exception is logged and nothing is sent.                                *)
ReaderProxy ==
    /\ rpc = "proxy"
    /\ \/ svcId /\ send(SvcResp)
       \/ UNCHANGED queue
    /\ rpc' = "top" /\ proxy' = 0
    /\ UNCHANGED <<wpc, witem, inbound, wire, lastWrite, synced, elapsed, handlers,
                   subs, shut, devConfigured, devElapsed, budget, faults, lost, svcBound, svcId>>

(* tryRead() finds no bytes within self.timeout: IOError, run() returns.   *)
ReaderReadTimeout ==
    /\ rpc = "read"
    /\ inbound = <<>>
    /\ rpc' = "done"
    /\ UNCHANGED <<wpc, witem, queue, inbound, wire, lastWrite, synced, elapsed,
                   handlers, subs, shut, devConfigured, devElapsed, budget,
                   faults, lost>>
    /\ UNCHANGED svcVars

(* After the loop: self.write_thread.join().                               *)
ReaderJoin ==
    /\ rpc = "join" /\ wpc = "done"
    /\ rpc' = "done"
    /\ UNCHANGED <<wpc, witem, queue, inbound, wire, lastWrite, synced, elapsed,
                   handlers, subs, shut, devConfigured, devElapsed, budget,
                   faults, lost>>
    /\ UNCHANGED svcVars

-----------------------------------------------------------------------------
(* Writer: processWriteQueue().                                            *)

(* while not rospy.is_shutdown()                                           *)
WriterTop ==
    /\ wpc = "top"
    /\ wpc' = IF shut = "done" THEN "done" ELSE "poll"
    /\ UNCHANGED <<rpc, witem, queue, inbound, wire, lastWrite, synced, elapsed,
                   handlers, subs, shut, devConfigured, devElapsed, budget,
                   faults, lost>>
    /\ UNCHANGED svcVars

(* if write_queue.empty(): sleep, else data = write_queue.get()            *)
WriterPoll ==
    /\ wpc = "poll"
    /\ IF queue = <<>>
       THEN /\ wpc' = "top"
            /\ UNCHANGED <<witem, queue>>
       ELSE /\ witem' = Head(queue)
            /\ queue' = Tail(queue)
            /\ wpc' = "write"
    /\ UNCHANGED <<rpc, inbound, wire, lastWrite, synced, elapsed, handlers, subs,
                   shut, devConfigured, devElapsed, budget, faults, lost>>
    /\ UNCHANGED svcVars

(* _send / _write of the item on a serial port and the handlers around    *)
(* it: SerialTimeoutException retries the same item after a pause, any    *)
(* other exception (SerialException) ends the thread.  The RuntimeError    *)
(* branch is taken on sockets only (module TcpServer).                     *)
WriterWrite ==
    /\ wpc = "write"
    /\ \/ /\ ~TooBig(witem)
          /\ wire' = Append(wire, witem)
          /\ lastWrite' = witem
          /\ witem' = NoItem /\ wpc' = "top"
          /\ UNCHANGED faults
       \/ /\ ~TooBig(witem) /\ faults < MaxWriteFaults  \* SerialTimeoutException
          /\ faults' = faults + 1
          /\ UNCHANGED <<wire, lastWrite, witem, wpc>>
       \/ /\ ~TooBig(witem) /\ faults < MaxWriteFaults  \* SerialException, socket.error
          /\ faults' = faults + 1
          /\ witem' = NoItem /\ wpc' = "done"
          /\ UNCHANGED <<wire, lastWrite>>
       \/ /\ TooBig(witem)   \* logerr("...%s" % msg): NameError, no handler catches it
          /\ witem' = NoItem /\ wpc' = "done"
          /\ UNCHANGED <<wire, lastWrite, faults>>
    /\ UNCHANGED <<rpc, queue, inbound, synced, elapsed, handlers, subs, shut,
                   devConfigured, devElapsed, budget, lost>>
    /\ UNCHANGED svcVars

-----------------------------------------------------------------------------
(* rospy.signal_shutdown() first runs the hooks registered with           *)
(* rospy.on_shutdown: txStopRequest() flushes the input under the read     *)
(* lock and queues the stop-tx frame.  is_shutdown() is still false.       *)
txStopRequest ==
    /\ shut = "no"
    /\ inbound' = Flushed(inbound)
    /\ queue' = Append(queue, StopTx)
    /\ shut' = "hook"
    /\ UNCHANGED <<rpc, wpc, witem, wire, lastWrite, synced, elapsed, handlers,
                   subs, devConfigured, devElapsed, budget, faults, lost>>
    /\ UNCHANGED svcVars

(* rospy.signal_shutdown() then sets _shutdown_flag: is_shutdown() is true *)
(* from here on (rospy, not this repository).                              *)
ShutdownFlag ==
    /\ shut = "hook"
    /\ shut' = "done"
    /\ UNCHANGED <<rpc, wpc, witem, queue, inbound, wire, lastWrite, synced,
                   elapsed, handlers, subs, devConfigured, devElapsed, budget,
                   faults, lost>>
    /\ UNCHANGED svcVars

(* Subscriber.callback: a middleware message on a bound subscriber topic.  *)
SubscriberCallback(t, big) ==
    /\ t \in subs /\ shut # "done" /\ budget > 0
    /\ send(SubMsg(t, big))
    /\ budget' = budget - 1
    /\ UNCHANGED <<rpc, wpc, witem, inbound, wire, lastWrite, synced, elapsed,
                   handlers, subs, shut, devConfigured, devElapsed, faults, lost>>
    /\ UNCHANGED svcVars

-----------------------------------------------------------------------------
(* The device (environment).  A request-topics frame makes it ask for the  *)
(* time and announce its topics; a configured device asks for the time    *)
(* every Period ticks; stop-tx or a reset leaves it unconfigured.          *)
SvcHalf(h) == IF SvcClient THEN <<SvcInfo(h)>> ELSE <<>>

Negotiation ==
    <<TimeFrame>>
      \o SetToSeq({InfoFrame("pub", t) : t \in DevicePubs}) \o SvcHalf("pub")
      \o SetToSeq({InfoFrame("sub", t) : t \in DeviceSubs}) \o SvcHalf("sub")

Room(n) == Len(inbound) + n <= MaxInbound

DeviceReceive ==
    /\ wire # <<>>
    /\ wire' = Tail(wire)
    /\ LET item == Head(wire) IN
       \/ /\ item = ReqTopics /\ Room(Len(Negotiation))
          /\ inbound' = inbound \o Negotiation
          /\ devConfigured' = TRUE /\ devElapsed' = 0
       \/ /\ item = StopTx
          /\ devConfigured' = FALSE
          /\ UNCHANGED <<inbound, devElapsed>>
       \/ /\ item \notin {ReqTopics, StopTx}
          /\ UNCHANGED <<inbound, devConfigured, devElapsed>>
    /\ UNCHANGED <<rpc, wpc, witem, queue, lastWrite, synced, elapsed, handlers,
                   subs, shut, budget, faults, lost>>
    /\ UNCHANGED svcVars

DeviceTimeSync ==
    /\ devConfigured /\ devElapsed = Period /\ Room(1)
    /\ inbound' = Append(inbound, TimeFrame)
    /\ devElapsed' = 0
    /\ UNCHANGED <<rpc, wpc, witem, queue, wire, lastWrite, synced, elapsed,
                   handlers, subs, shut, devConfigured, budget, faults, lost>>
    /\ UNCHANGED svcVars

(* A frame the device sends: data, a parameter request, line noise, or a   *)
(* frame cut short.                                                        *)
DeviceSend(f) ==
    /\ budget > 0 /\ Room(1)
    /\ f.k \in {"data", "param", "call"} => devConfigured
    /\ inbound' = Append(inbound, f)
    /\ budget' = budget - 1
    /\ UNCHANGED <<rpc, wpc, witem, queue, wire, lastWrite, synced, elapsed,
                   handlers, subs, shut, devConfigured, devElapsed, faults, lost>>
    /\ UNCHANGED svcVars

(* The device misses the next frame on the wire.                           *)
DeviceMiss ==
    /\ wire # <<>> /\ lost < MaxLoss
    /\ wire' = Tail(wire)
    /\ lost' = lost + 1
    /\ UNCHANGED <<rpc, wpc, witem, queue, inbound, lastWrite, synced, elapsed,
                   handlers, subs, shut, devConfigured, devElapsed, budget,
                   faults>>
    /\ UNCHANGED svcVars

DeviceReset ==
    /\ devConfigured /\ budget > 0
    /\ devConfigured' = FALSE
    /\ budget' = budget - 1
    /\ UNCHANGED <<rpc, wpc, witem, queue, inbound, wire, lastWrite, synced,
                   elapsed, handlers, subs, shut, devElapsed, faults, lost>>
    /\ UNCHANGED svcVars

(* Time passes only while nothing is in flight: the reader drains a frame  *)
(* and the writer a queued item in far less than a tick.  A configured     *)
(* device asks for the time before its Period is over.                     *)
(* While the reader is held in self.proxy(req), time passes with input     *)
(* waiting, for at most ProxyTicks ticks.                                  *)
Tick ==
    /\ queue = <<>> /\ wire = <<>>
    /\ inbound = <<>> \/ rpc = "proxy"
    /\ rpc = "proxy" => proxy < ProxyTicks
    /\ elapsed <= Window
    /\ devConfigured => devElapsed < Period
    /\ elapsed' = elapsed + 1
    /\ devElapsed' = IF devConfigured THEN devElapsed + 1 ELSE devElapsed
    /\ proxy' = IF rpc = "proxy" THEN proxy + 1 ELSE proxy
    /\ UNCHANGED <<rpc, wpc, witem, queue, inbound, wire, lastWrite, synced,
                   handlers, subs, shut, devConfigured, budget, faults, lost,
                   svcBound, svcId>>

-----------------------------------------------------------------------------
Reader ==
    ReaderTop \/ ReaderPoll \/ ReaderRead \/ ReaderProxy \/ ReaderReadTimeout \/ ReaderJoin
Writer == WriterTop \/ WriterPoll \/ WriterWrite
Device ==
    \/ DeviceReceive \/ DeviceTimeSync \/ DeviceReset \/ DeviceMiss
    \/ \E f \in {DataFrame(t) : t \in DevicePubs} \cup {ParamFrame, BadFrame, ShortFrame}
                \cup (IF SvcClient THEN {CallFrame} ELSE {}) :
          DeviceSend(f)

Next ==
    \/ Reader \/ Writer \/ Device \/ Tick
    \/ txStopRequest \/ ShutdownFlag
    \/ \E t \in DeviceSubs, big \in IF Oversize THEN BOOLEAN ELSE {FALSE} :
          SubscriberCallback(t, big)

(* The reader and writer threads run whenever they can; the device answers *)
(* what it receives and keeps its time-sync period; the clock advances.    *)
Fairness ==
    /\ WF_vars(Reader) /\ WF_vars(Writer)
    /\ WF_vars(DeviceReceive) /\ WF_vars(DeviceTimeSync) /\ WF_vars(Tick)
    /\ WF_vars(ShutdownFlag)   \* signal_shutdown sets the flag after the hooks

Spec == Init /\ [][Next]_vars /\ Fairness

-----------------------------------------------------------------------------
(* Properties.                                                             *)

(* Every topic the device announces with a matching md5sum is bound by     *)
(* setupPublisher / setupSubscriber, and both halves of its service client *)
(* by setupServiceClientPublisher / setupServiceClientSubscriber.          *)
Registered ==
    /\ handlers = DevicePubs \ Mismatched
    /\ subs = DeviceSubs \ Mismatched
    /\ SvcClient => svcBound /\ svcId

(* Spec 8 scenario 3 and 5 (i)-(iii): after a shutdown, the final frame    *)
(* the writer thread puts on the wire is stop-tx (txStopRequest queues it, *)
(* processWriteQueue is to drain it before it exits).                      *)
StopTxLast ==
    (shut = "done" /\ wpc = "done") => lastWrite = StopTx

(* Spec 4.D and 6 (OversizePayload): a middleware message longer than the  *)
(* device's buffer_in is dropped with an error and the writer thread goes  *)
(* on; processWriteQueue ends only once rospy is shut down or on a port    *)
(* error (SerialException).                                                *)
WriterEndsOnlyOnShutdownOrPortError ==
    [][(wpc # "done" /\ wpc' = "done") => (shut = "done" \/ faults' > faults)]_vars

(* Topic negotiation completes: a session that neither ends nor is shut    *)
(* down eventually binds every matching topic of the device, whether or    *)
(* not the device was configured when the session started, through the     *)
(* request-topics retries of run() and the re-request on an unknown id.    *)
NegotiationCompletes ==
    <>(Registered \/ rpc = "done" \/ shut # "no")


(* The same, on a link that loses no frame: when every frame the host      *)
(* writes reaches the device, the request-topics of __init__ and the       *)
(* retries of run() and of an unknown id bind every matching topic.        *)
NegotiationCompletesWithoutLoss ==
    [](lost = 0) => NegotiationCompletes

=============================================================================
