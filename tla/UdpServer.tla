------------------------------ MODULE UdpServer ------------------------------
(***************************************************************************)
(* RosSerialUDPServer (SerialClient.py) without fork_server: one UDP       *)
(* socket, a listener loop that pins the first sender as client_address    *)
(* and runs a SerialClient session over the server object, and the port    *)
(* calls of the session: inWaiting() and read() take datagrams off the     *)
(* socket into self.recv_buffer, write() sends to client_address.          *)
(*                                                                         *)
(* Hosts send datagrams from an (ip, port) address; a host may change its  *)
(* port (a NAT rebinding).  A datagram is a part of a frame, the last part *)
(* of one, or empty; its bytes are left out.  The session's reader is      *)
(* abstracted to taking parts until a frame is complete; its writer        *)
(* thread and callbacks to items on its write queue.                       *)
(***************************************************************************)
EXTENDS Naturals, Sequences, FiniteSets

CONSTANTS
    Hosts,         \* ip addresses of hosts that send to the server's port
    Dev,           \* the ip of the rosserial device
    MaxPort,       \* ports are 1..MaxPort; a host may rebind up to MaxPort - 1 times
    MaxDatagrams,  \* bound on datagrams the hosts send
    MaxSessions,   \* bound on sessions the listener starts
    MaxItems,      \* bound on items a session's callbacks queue
    Empty,         \* hosts may send empty datagrams
    None           \* Python's None

ASSUME /\ Dev \in Hosts /\ None \notin Hosts
       /\ MaxPort \in Nat \ {0} /\ MaxDatagrams \in Nat
       /\ MaxSessions \in Nat \ {0} /\ MaxItems \in Nat /\ Empty \in BOOLEAN

Addrs == Hosts \X (1..MaxPort)
Sessions == 1..MaxSessions
Kinds == {"part", "last"} \cup (IF Empty THEN {"empty"} ELSE {})
Datagrams == [from : Addrs, kind : Kinds]

VARIABLES
    lpc,          \* the listener: "peek" (in recvfrom(MSG_PEEK)) or "serve"
    client,       \* self.client_address; self.isConnected is client # None
    recvBuffer,   \* self.recv_buffer: the ip and kind of each buffered datagram
    sockq,        \* datagrams queued at the server socket
    port,         \* port[h]: the port host h sends from
    budget,       \* datagrams the hosts may still send
    cur,          \* sessions started
    rpc,          \* rpc[k]: session k's reader: "idle", "poll", "read", "ended"
    wpc,          \* wpc[k]: session k's writer thread: "none", "alive"
    q,            \* q[k]: items on session k's write_queue
    made,         \* made[k]: items session k's callbacks have queued
    pin,          \* pin[k]: the ip client_address had when session k started
    heard         \* heard[k]: ips whose datagrams session k's reader consumed

vars == <<lpc, client, recvBuffer, sockq, port, budget, cur, rpc, wpc, q,
          made, pin, heard>>

TypeOK ==
    /\ lpc \in {"peek", "serve"}
    /\ client \in Addrs \cup {None}
    /\ recvBuffer \in Seq([ip : Hosts, last : BOOLEAN])
    /\ sockq \in Seq(Datagrams)
    /\ port \in [Hosts -> 1..MaxPort]
    /\ budget \in 0..MaxDatagrams
    /\ cur \in 0..MaxSessions
    /\ rpc \in [Sessions -> {"idle", "poll", "read", "ended"}]
    /\ wpc \in [Sessions -> {"none", "alive"}]
    /\ q \in [Sessions -> 0..MaxItems + 1]
    /\ made \in [Sessions -> 0..MaxItems]
    /\ pin \in [Sessions -> Hosts \cup {None}]
    /\ heard \in [Sessions -> SUBSET Hosts]

Running(k) == rpc[k] \in {"poll", "read"}

(* Mutation variant of Repin: the client is never re-pinned.              *)
RepinNever(c, a) == c

(* The address test of inWaiting() and read(): a datagram from another     *)
(* port of the client's ip moves client_address to it; one from another    *)
(* ip leaves it.                                                           *)
Repin(c, a) == IF a # c /\ a[1] = c[1] THEN a ELSE c

Init ==
    /\ lpc = "peek" /\ client = None /\ recvBuffer = << >> /\ sockq = << >>
    /\ port = [h \in Hosts |-> 1] /\ budget = MaxDatagrams /\ cur = 0
    /\ rpc = [k \in Sessions |-> "idle"]
    /\ wpc = [k \in Sessions |-> "none"]
    /\ q = [k \in Sessions |-> 0]
    /\ made = [k \in Sessions |-> 0]
    /\ pin = [k \in Sessions |-> None]
    /\ heard = [k \in Sessions |-> {}]

-----------------------------------------------------------------------------
(* listen(): the peek returns a datagram, which stays queued.  The first   *)
(* sender becomes client_address (and isConnected is set); a client kept   *)
(* from a session that returned normally is kept, whoever sent.  Then      *)
(* startSerialClient(): SerialClient(self) queues request-topics after     *)
(* flushInput() has emptied recv_buffer, and run() starts the writer.      *)
listen ==
    /\ lpc = "peek" /\ sockq # << >> /\ cur < MaxSessions
    /\ LET c == IF client = None THEN Head(sockq).from ELSE client
           n == cur + 1
       IN /\ client' = c
          /\ cur' = n
          /\ pin' = [pin EXCEPT ![n] = c[1]]
          /\ rpc' = [rpc EXCEPT ![n] = "poll"]
          /\ wpc' = [wpc EXCEPT ![n] = "alive"]
          /\ q' = [q EXCEPT ![n] = 1]
    /\ lpc' = "serve"
    /\ recvBuffer' = << >>
    /\ UNCHANGED <<sockq, port, budget, made, heard>>

(* The peek times out after 5 s with nothing received: isConnected is      *)
(* cleared and client_address forgotten.                                   *)
listenTimeout ==
    /\ lpc = "peek" /\ sockq = << >> /\ client # None
    /\ client' = None
    /\ UNCHANGED <<lpc, recvBuffer, sockq, port, budget, cur, rpc, wpc, q,
                   made, pin, heard>>

(* The end of session k.  A RuntimeError out of run() makes                *)
(* startSerialClient() clear isConnected and client_address; a normal      *)
(* return leaves both.  run() does not join the writer thread, which keeps *)
(* writing through the server object; the listener peeks again.           *)
startSerialClient(k, runtimeError) ==
    /\ rpc' = [rpc EXCEPT ![k] = "ended"]
    /\ lpc' = "peek"
    /\ client' = IF runtimeError THEN None ELSE client

-----------------------------------------------------------------------------
(* inWaiting(), called by run() on every iteration: a non-blocking recvfrom *)
(* takes one datagram off the socket.  An empty one raises RuntimeError.    *)
(* Otherwise client_address is re-pinned, the datagram is appended to       *)
(* recv_buffer from whatever address it came (509), and with recv_buffer   *)
(* not empty run() goes on to read a frame.  With nothing queued it         *)
(* returns len(recv_buffer).                                               *)
inWaiting(k) ==
    /\ rpc[k] = "poll"
    /\ \/ /\ sockq # << >>
          /\ LET d == Head(sockq) IN
             /\ sockq' = Tail(sockq)
             /\ \/ /\ d.kind = "empty"
                   /\ startSerialClient(k, TRUE)
                   /\ UNCHANGED recvBuffer
                \/ /\ d.kind # "empty"
                   /\ client' = Repin(client, d.from)
                   /\ recvBuffer' = Append(recvBuffer, [ip |-> d.from[1], last |-> d.kind = "last"])
                   /\ rpc' = [rpc EXCEPT ![k] = "read"]
                   /\ UNCHANGED lpc
       \/ /\ sockq = << >> /\ recvBuffer # << >>
          /\ rpc' = [rpc EXCEPT ![k] = "read"]
          /\ UNCHANGED <<lpc, client, recvBuffer, sockq>>
    /\ UNCHANGED <<port, budget, cur, wpc, q, made, pin, heard>>

(* read(), through tryRead(): parts are taken from recv_buffer first, then *)
(* by a blocking recvfrom, which skips a datagram from another ip and      *)
(* re-pins on another port of the client's ip.  An empty datagram raises   *)
(* RuntimeError, which tryRead() turns into IOError: run() returns         *)
(* normally.  The last part of a frame completes it; the reader polls      *)
(* again.                                                                  *)
read(k) ==
    /\ rpc[k] = "read"
    /\ \/ /\ recvBuffer # << >>
          /\ recvBuffer' = Tail(recvBuffer)
          /\ heard' = [heard EXCEPT ![k] = @ \cup {Head(recvBuffer).ip}]
          /\ rpc' = [rpc EXCEPT ![k] = IF Head(recvBuffer).last THEN "poll" ELSE "read"]
          /\ UNCHANGED <<lpc, client, sockq>>
       \/ /\ recvBuffer = << >> /\ sockq # << >>
          /\ LET d == Head(sockq) IN
             /\ sockq' = Tail(sockq)
             /\ \/ /\ d.kind = "empty"
                   /\ startSerialClient(k, FALSE)
                   /\ UNCHANGED heard
                \/ /\ d.kind # "empty" /\ Repin(client, d.from) # d.from
                   /\ UNCHANGED <<lpc, client, rpc, heard>>
                \/ /\ d.kind # "empty" /\ Repin(client, d.from) = d.from
                   /\ client' = d.from
                   /\ heard' = [heard EXCEPT ![k] = @ \cup {d.from[1]}]
                   /\ rpc' = [rpc EXCEPT ![k] = IF d.kind = "last" THEN "poll" ELSE "read"]
                   /\ UNCHANGED lpc
          /\ UNCHANGED recvBuffer
    /\ UNCHANGED <<port, budget, cur, wpc, q, made, pin>>

(* run() returns normally: tryRead() timed out waiting for a part, or the  *)
(* watchdog found the device silent after sync ("Lost sync").              *)
RunReturns(k) ==
    /\ Running(k)
    /\ startSerialClient(k, FALSE)
    /\ UNCHANGED <<recvBuffer, sockq, port, budget, cur, wpc, q, made, pin,
                   heard>>

(* A callback of the running session k queues an item (send / put).        *)
Produce(k) ==
    /\ Running(k) /\ made[k] < MaxItems
    /\ q' = [q EXCEPT ![k] = @ + 1]
    /\ made' = [made EXCEPT ![k] = @ + 1]
    /\ UNCHANGED <<lpc, client, recvBuffer, sockq, port, budget, cur, rpc,
                   wpc, pin, heard>>

(* Mutation variant of write: the write_queue.empty() test dropped.       *)
writeNoEmptyCheck(k) ==
    /\ wpc[k] = "alive"
    /\ q' = [q EXCEPT ![k] = @ - 1]
    /\ UNCHANGED <<lpc, client, recvBuffer, sockq, port, budget, cur, rpc,
                   wpc, made, pin, heard>>

(* processWriteQueue() takes an item and write() sends it, in datagrams of *)
(* at most MAX_UDP_PACKET_SIZE bytes, to client_address; without a client *)
(* (isConnected false) write() returns and the item is gone.               *)
write(k) ==
    /\ wpc[k] = "alive" /\ q[k] > 0
    /\ q' = [q EXCEPT ![k] = @ - 1]
    /\ UNCHANGED <<lpc, client, recvBuffer, sockq, port, budget, cur, rpc,
                   wpc, made, pin, heard>>

-----------------------------------------------------------------------------
(* The network: host h sends a datagram to the server's port from its      *)
(* current address, or moves to its next port.                             *)
Send(h, kind) ==
    /\ budget > 0
    /\ sockq' = Append(sockq, [from |-> <<h, port[h]>>, kind |-> kind])
    /\ budget' = budget - 1
    /\ UNCHANGED <<lpc, client, recvBuffer, port, cur, rpc, wpc, q, made, pin,
                   heard>>

Rebind(h) ==
    /\ port[h] < MaxPort
    /\ port' = [port EXCEPT ![h] = @ + 1]
    /\ UNCHANGED <<lpc, client, recvBuffer, sockq, budget, cur, rpc, wpc, q,
                   made, pin, heard>>

Next ==
    \/ listen \/ listenTimeout
    \/ \E k \in Sessions : inWaiting(k) \/ read(k) \/ RunReturns(k)
                           \/ Produce(k) \/ write(k)
    \/ \E h \in Hosts : Rebind(h) \/ \E kind \in Kinds : Send(h, kind)

(* The reader and writer threads run whenever they can; hosts, timeouts   *)
(* and the errors that make run() return are not assumed to happen.       *)
Fairness ==
    \A k \in Sessions : WF_vars(inWaiting(k)) /\ WF_vars(read(k)) /\ WF_vars(write(k))

Spec == Init /\ [][Next]_vars /\ Fairness

-----------------------------------------------------------------------------
(* Properties.                                                             *)

(* A running session follows its device to a new port: once a datagram    *)
(* from the device's current address waits at the socket, client_address  *)
(* becomes that address (so writes reach the device), unless the session   *)
(* ends first.                                                             *)
SessionFollowsDevice ==
    \A k \in Sessions :
        (Running(k) /\ pin[k] = Dev
           /\ \E i \in 1..Len(sockq) : sockq[i].from = <<Dev, port[Dev]>>)
        ~> (client = <<Dev, port[Dev]>> \/ rpc[k] = "ended")

(* A session reads only what its client sent: read() skips datagrams from  *)
(* another ip ("Ignoring packet from unauthorized address").               *)
OnlyClientHeard ==
    \A k \in Sessions : heard[k] \subseteq {pin[k]}

=============================================================================
