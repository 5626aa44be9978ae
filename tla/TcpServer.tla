------------------------------ MODULE TcpServer ------------------------------
(***************************************************************************)
(* RosSerialServer (SerialClient.py): the TCP listener that accepts one    *)
(* device connection after another and runs a SerialClient session over    *)
(* each, either in the listener's own thread or, with fork_server, in a    *)
(* forked process.  The server object is the session's port: the writer    *)
(* thread's port.write() and the reader's inWaiting()/read() go through    *)
(* the server's self.socket and self.isConnected.                          *)
(*                                                                         *)
(* A session is abstracted to what reaches the socket: its reader loop     *)
(* (run()), which ends in one of the ways run() and startSerialClient()    *)
(* provide, and its writer thread (processWriteQueue()), which takes the   *)
(* session's write queue item by item.  Frame contents are left out; what  *)
(* is tracked is which session's items reach which connection.  Session    *)
(* k runs over the k-th accepted connection.                               *)
(***************************************************************************)
EXTENDS Naturals, FiniteSets

CONSTANTS
    MaxConns,   \* bound on connections the listener accepts
    MaxItems    \* bound on items a session's callbacks put on its write queue

ASSUME MaxConns \in Nat \ {0} /\ MaxItems \in Nat

Conns == 1..MaxConns
(* The processes whose `self` a session may use: the listener is 0, and    *)
(* with fork_server the k-th connection is served by child process k.      *)
Procs == 0..MaxConns

VARIABLES
    fork,         \* self.fork_server
    lpc,          \* the listener: "accept" (in accept()) or "serve" (in startSerialClient())
    cur,          \* connections accepted so far; the last one is the listener's self.socket
    socket,       \* socket[p]: the connection self.socket of process p refers to (0: none)
    isConnected,  \* isConnected[p]: self.isConnected of process p
    closed,       \* connections whose socket the host has closed (finally of startSerialClient)
    peerClosed,   \* connections the device has closed
    rpc,          \* rpc[k]: session k's reader: "idle", "run", "ended"
    wpc,          \* wpc[k]: session k's writer thread: "none", "alive", "dead"
    q,            \* q[k]: items on session k's write_queue
    made,         \* made[k]: items session k's callbacks have queued
    recv          \* recv[c]: the sessions whose items connection c has carried to its device

vars == <<fork, lpc, cur, socket, isConnected, closed, peerClosed,
          rpc, wpc, q, made, recv>>

TypeOK ==
    /\ fork \in BOOLEAN
    /\ lpc \in {"accept", "serve"}
    /\ cur \in 0..MaxConns
    /\ socket \in [Procs -> 0..MaxConns]
    /\ isConnected \in [Procs -> BOOLEAN]
    /\ closed \subseteq Conns /\ peerClosed \subseteq Conns
    /\ rpc \in [Conns -> {"idle", "run", "ended"}]
    /\ wpc \in [Conns -> {"none", "alive", "dead"}]
    /\ q \in [Conns -> 0..MaxItems + 1]
    /\ made \in [Conns -> 0..MaxItems]
    /\ recv \in [Conns -> SUBSET Conns]

(* The process whose server object session k uses: with fork_server the   *)
(* child process holds its own copy of self (multiprocessing.Process);     *)
(* otherwise the session runs on the listener's own self.                  *)
Proc(k) == IF fork THEN k ELSE 0

(* The connection session k's port calls go to, and its isConnected.       *)
SockOf(k) == socket[Proc(k)]
Connected(k) == isConnected[Proc(k)]

Init ==
    /\ fork \in BOOLEAN
    /\ lpc = "accept" /\ cur = 0
    /\ socket = [p \in Procs |-> 0]
    /\ isConnected = [p \in Procs |-> FALSE]
    /\ closed = {} /\ peerClosed = {}
    /\ rpc = [k \in Conns |-> "idle"]
    /\ wpc = [k \in Conns |-> "none"]
    /\ q = [k \in Conns |-> 0]
    /\ made = [k \in Conns |-> 0]
    /\ recv = [c \in Conns |-> {}]

-----------------------------------------------------------------------------
(* listen(): accept() returns a connection; self.socket and self.isConnected *)
(* are set on the listener, and a forked child starts with a copy of them.  *)
(* The session is SerialClient(self): __init__ queues the request-topics    *)
(* frame (requestTopics), run() starts the writer thread and the reader.   *)
(* Without fork_server the listener is inside startSerialClient() until     *)
(* the session ends.                                                        *)
listen ==
    /\ lpc = "accept" /\ cur < MaxConns
    /\ LET n == cur + 1 IN
       /\ cur' = n
       /\ socket' = [socket EXCEPT ![0] = n, ![Proc(n)] = n]
       /\ isConnected' = [isConnected EXCEPT ![0] = TRUE, ![Proc(n)] = TRUE]
       /\ lpc' = IF fork THEN "accept" ELSE "serve"
       /\ rpc' = [rpc EXCEPT ![n] = "run"]
       /\ wpc' = [wpc EXCEPT ![n] = "alive"]
       /\ q' = [q EXCEPT ![n] = 1]
    /\ UNCHANGED <<fork, closed, peerClosed, made, recv>>

(* A subscriber callback, a time response or a service response of the    *)
(* running session k puts an item on its write queue (send / put).         *)
Produce(k) ==
    /\ rpc[k] = "run" /\ made[k] < MaxItems
    /\ q' = [q EXCEPT ![k] = @ + 1]
    /\ made' = [made EXCEPT ![k] = @ + 1]
    /\ UNCHANGED <<fork, lpc, cur, socket, isConnected, closed, peerClosed,
                   rpc, wpc, recv>>

(* Mutation variant of WriterSend: the write_queue.empty() test dropped.  *)
WriterSendNoEmptyCheck(k) ==
    /\ wpc[k] = "alive"
    /\ q' = [q EXCEPT ![k] = @ - 1]
    /\ UNCHANGED <<fork, lpc, cur, socket, isConnected, closed, peerClosed,
                   rpc, wpc, made, recv>>

(* processWriteQueue() takes an item and _write()s it through write():     *)
(* with isConnected false write() returns at once and the item is gone; a  *)
(* send on a socket the host has closed raises OSError (EBADF), which      *)
(* processWriteQueue does not catch, so the thread ends; on a connection   *)
(* the device has closed, send succeeds into the kernel buffer or raises   *)
(* BrokenPipeError, turned into RuntimeError, which drops the item and     *)
(* goes on, or ConnectionResetError, an OSError that ends the thread;      *)
(* otherwise the connection carries the item to its device.                *)
WriterSend(k) ==
    /\ wpc[k] = "alive" /\ q[k] > 0
    /\ q' = [q EXCEPT ![k] = @ - 1]
    /\ LET s == SockOf(k) IN
       \/ /\ ~Connected(k)
          /\ UNCHANGED <<wpc, recv>>
       \/ /\ Connected(k) /\ s \in closed
          /\ wpc' = [wpc EXCEPT ![k] = "dead"]
          /\ UNCHANGED recv
       \/ /\ Connected(k) /\ s \notin closed /\ s \notin peerClosed
          /\ recv' = [recv EXCEPT ![s] = @ \cup {k}]
          /\ UNCHANGED wpc
       \/ /\ Connected(k) /\ s \notin closed /\ s \in peerClosed
          /\ \/ UNCHANGED <<wpc, recv>>
             \/ /\ wpc' = [wpc EXCEPT ![k] = "dead"]
                /\ UNCHANGED recv
    /\ UNCHANGED <<fork, lpc, cur, socket, isConnected, closed, peerClosed,
                   rpc, made>>

(* The device at the far end of a connection closes it.                    *)
PeerClose(c) ==
    /\ c \in 1..cur /\ c \notin peerClosed
    /\ peerClosed' = peerClosed \cup {c}
    /\ UNCHANGED <<fork, lpc, cur, socket, isConnected, closed, rpc, wpc, q,
                   made, recv>>

-----------------------------------------------------------------------------
(* The end of session k: the finally of startSerialClient() closes         *)
(* self.socket and unregisters the session's subscribers and services, so  *)
(* its callbacks queue nothing more.  run() returns without joining the    *)
(* writer thread (the returns at 666 and 758), which keeps running; a      *)
(* forked child exits after startSocketServer() and its daemon writer      *)
(* thread with it.  Without fork_server the listener goes back to accept().*)
(* `conn` is isConnected as the exception handlers of startSerialClient()  *)
(* leave it.                                                               *)
startSerialClient(k, conn) ==
    /\ isConnected' = [isConnected EXCEPT ![Proc(k)] = conn]
    /\ closed' = closed \cup {SockOf(k)}
    /\ rpc' = [rpc EXCEPT ![k] = "ended"]
    /\ wpc' = IF fork THEN [wpc EXCEPT ![k] = "dead"] ELSE wpc
    /\ lpc' = IF fork THEN lpc ELSE "accept"
    /\ UNCHANGED <<fork, cur, socket, peerClosed, q, made, recv>>

(* The reader polls inWaiting() every millisecond: on a connection the     *)
(* device has closed, the peek returns b'' and inWaiting() raises          *)
(* RuntimeError, which run()'s `except IOError` does not catch;            *)
(* startSerialClient() sets isConnected to False.                          *)
inWaitingEof(k) ==
    /\ rpc[k] = "run" /\ SockOf(k) \in peerClosed
    /\ startSerialClient(k, FALSE)

(* run() returns normally and isConnected stays True: tryRead() raised     *)
(* IOError (a frame cut short by a stall or by the device closing, or a    *)
(* connection reset), or the device fell silent after syncing ("Lost sync  *)
(* with device").                                                          *)
RunReturns(k) ==
    /\ rpc[k] = "run"
    /\ startSerialClient(k, Connected(k))

(* The writer thread has died: run()'s loop condition fails, the join      *)
(* returns at once, and run() returns normally.                            *)
WriterGone(k) ==
    /\ rpc[k] = "run" /\ wpc[k] = "dead"
    /\ startSerialClient(k, Connected(k))

Reader(k) == inWaitingEof(k) \/ RunReturns(k) \/ WriterGone(k)

Next ==
    \/ listen
    \/ \E k \in Conns : Produce(k) \/ WriterSend(k) \/ Reader(k)
    \/ \E c \in Conns : PeerClose(c)

(* The reader and writer threads of a session run whenever they can; the   *)
(* device's connecting, sending and closing, and the errors that make run()*)
(* return, are not assumed to happen.                                      *)
Fairness ==
    \A k \in Conns : /\ WF_vars(inWaitingEof(k)) /\ WF_vars(WriterGone(k))
                     /\ WF_vars(WriterSend(k))

Spec == Init /\ [][Next]_vars /\ Fairness

-----------------------------------------------------------------------------
(* Properties.                                                             *)

(* Spec 5 and 7: every session has its own Transport, and a session's      *)
(* frames go to its own device: a connection carries only the items of     *)
(* the session that was started for it.  The writer thread of an ended     *)
(* session survives (run() does not join it) and writes through the        *)
(* listener's self.socket, which the next accept() replaces.               *)
SessionIsolation ==
    \A c \in Conns : recv[c] \subseteq {c}

=============================================================================
