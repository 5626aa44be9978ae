---------------------------- MODULE ServiceServer ----------------------------
(***************************************************************************)
(* A service the device serves (rosserial_python's ServiceServer class and *)
(* the two setupServiceServer* handlers of SerialClient).  Middleware      *)
(* threads call ServiceServer.callback concurrently; each stores None in   *)
(* the one shared self.response, queues the request under self.id and    *)
(* spins until self.response is not None.  The reader thread's dispatch of *)
(* the device's reply calls handlePacket, which stores the response.       *)
(* The device announces the two halves of the service in either order;   *)
(* the first one creates the ServiceServer, which advertises the service. *)
(* A request or reply may be lost on the link (a checksum drop, a device *)
(* reset).  A reply is identified with the request it answers.           *)
(***************************************************************************)
EXTENDS Naturals, Sequences, FiniteSets

CONSTANTS
    Callers,     \* middleware threads calling the service
    MaxCalls,    \* calls per caller
    MaxLoss,     \* frames the link may lose plus device resets
    Mismatched,  \* halves whose md5sum does not match: a subset of Halves
    None,        \* Python's None
    Fail,        \* the AttributeError a call raises without srv.id
    PubFirst     \* the device announces the response half before the request half

Halves == {"pub", "sub"}   \* ID_SERVICE_SERVER + ID_PUBLISHER / + ID_SUBSCRIBER

ASSUME Mismatched \subseteq Halves /\ PubFirst \in BOOLEAN

\* the request a caller makes in its n-th call; the device's reply carries it
Req == Callers \X (1..MaxCalls)

VARIABLES
    srv,       \* a ServiceServer is in self.services (rospy.Service advertised)
    idSet,     \* srv.id has been assigned
    bound,     \* self.callbacks[topic_id] = srv.handlePacket
    pending,   \* halves the device has still to announce
    response,  \* srv.response
    cpc,       \* where each caller's thread is in callback()
    calls,     \* calls each caller has made
    asked,     \* the request of each caller's current call
    got,       \* what each caller's last call returned
    toDev,     \* requests queued and on the wire, in order
    fromDev,   \* replies from the device not yet dispatched, in order
    lost       \* frames lost and resets so far

vars == << srv, idSet, bound, pending, response, cpc, calls, asked, got,
           toDev, fromDev, lost >>

TypeOK ==
    /\ srv \in BOOLEAN /\ idSet \in BOOLEAN /\ bound \in BOOLEAN
    /\ pending \subseteq Halves
    /\ response \in Req \cup {None}
    /\ cpc \in [Callers -> {"idle", "send", "wait"}]
    /\ calls \in [Callers -> 0..MaxCalls]
    /\ asked \in [Callers -> Req \cup {None}]
    /\ got \in [Callers -> Req \cup {None, Fail}]
    /\ toDev \in Seq(Req) /\ fromDev \in Seq(Req)
    /\ lost \in 0..MaxLoss

\* __init__ has queued request-topics: the device will announce both halves.
Init ==
    /\ srv = FALSE /\ idSet = FALSE /\ bound = FALSE
    /\ pending = Halves
    /\ response = None
    /\ cpc = [c \in Callers |-> "idle"]
    /\ calls = [c \in Callers |-> 0]
    /\ asked = [c \in Callers |-> None]
    /\ got = [c \in Callers |-> None]
    /\ toDev = << >> /\ fromDev = << >>
    /\ lost = 0

-----------------------------------------------------------------------------
(* Negotiation.  Both handlers look the name up in self.services, create  *)
(* the ServiceServer (advertising the service) if it is missing, then test *)
(* the md5sum of their half: the publisher (response) half binds          *)
(* handlePacket to its topic id, the subscriber (request) half sets        *)
(* srv.id.  A mismatch raises after the ServiceServer was stored.  The    *)
(* order is the device's; rosserial_client announces publishers first.    *)
setupServiceServerPublisher ==
    /\ "pub" \in pending
    /\ pending' = pending \ {"pub"}
    /\ srv' = TRUE
    /\ bound' = (bound \/ "pub" \notin Mismatched)
    /\ UNCHANGED << idSet, response, cpc, calls, asked, got, toDev, fromDev, lost >>

setupServiceServerSubscriber ==
    /\ "sub" \in pending
    /\ PubFirst => "pub" \notin pending
    /\ pending' = pending \ {"sub"}
    /\ srv' = TRUE
    /\ idSet' = (idSet \/ "sub" \notin Mismatched)
    /\ UNCHANGED << bound, response, cpc, calls, asked, got, toDev, fromDev, lost >>

-----------------------------------------------------------------------------
(* ServiceServer.callback, run by a middleware thread per call.            *)

\* serialize the request; self.response = None
Call(c) ==
    /\ srv /\ cpc[c] = "idle" /\ calls[c] < MaxCalls
    /\ calls' = [calls EXCEPT ![c] = @ + 1]
    /\ asked' = [asked EXCEPT ![c] = << c, calls[c] + 1 >>]
    /\ got' = [got EXCEPT ![c] = None]
    /\ response' = None
    /\ cpc' = [cpc EXCEPT ![c] = "send"]
    /\ UNCHANGED << srv, idSet, bound, pending, toDev, fromDev, lost >>

\* self.parent.send(self.id, ...): without srv.id the AttributeError ends
\* the call with an error to the middleware caller.
CallSend(c) ==
    /\ cpc[c] = "send"
    /\ \/ /\ idSet
          /\ toDev' = Append(toDev, asked[c])
          /\ cpc' = [cpc EXCEPT ![c] = "wait"]
          /\ UNCHANGED got
       \/ /\ ~idSet
          /\ got' = [got EXCEPT ![c] = Fail]
          /\ cpc' = [cpc EXCEPT ![c] = "idle"]
          /\ UNCHANGED toDev
    /\ UNCHANGED << srv, idSet, bound, pending, response, calls, asked, fromDev, lost >>

\* Mutation variant: the caller waits for the reply to its own request.
CallReturnOwnOnly(c) ==
    /\ cpc[c] = "wait" /\ response = asked[c]
    /\ got' = [got EXCEPT ![c] = response]
    /\ cpc' = [cpc EXCEPT ![c] = "idle"]
    /\ UNCHANGED << srv, idSet, bound, pending, response, calls, asked, toDev,
                   fromDev, lost >>

\* while self.response is None: pass; return self.response.  The last test
\* of the loop and the return are one step: a reply stored between them is
\* returned either way, and `response` is only reset by Call.
CallReturn(c) ==
    /\ cpc[c] = "wait" /\ response # None
    /\ got' = [got EXCEPT ![c] = response]
    /\ cpc' = [cpc EXCEPT ![c] = "idle"]
    /\ UNCHANGED << srv, idSet, bound, pending, response, calls, asked, toDev,
                   fromDev, lost >>

-----------------------------------------------------------------------------
(* The reader thread dispatches the device's reply: handlePacket stores it *)
(* in self.response; with no handler bound to the topic id the KeyError    *)
(* branch re-requests the topics, and the device announces both halves.    *)
(* fromDev holds replies not yet received by the host, so the flush of     *)
(* requestTopics has nothing of them to discard.                           *)
handlePacket ==
    /\ fromDev # << >>
    /\ fromDev' = Tail(fromDev)
    /\ \/ /\ bound
          /\ response' = Head(fromDev)
          /\ UNCHANGED pending
       \/ /\ ~bound
          /\ pending' = Halves
          /\ UNCHANGED response
    /\ UNCHANGED << srv, idSet, bound, cpc, calls, asked, got, toDev, lost >>

\* The device serves the requests in the order they arrive.
DeviceServe ==
    /\ toDev # << >>
    /\ toDev' = Tail(toDev)
    /\ fromDev' = Append(fromDev, Head(toDev))
    /\ UNCHANGED << srv, idSet, bound, pending, response, cpc, calls, asked, got, lost >>

\* A request or a reply is lost on the link.
LoseRequest ==
    /\ toDev # << >> /\ lost < MaxLoss
    /\ toDev' = Tail(toDev) /\ lost' = lost + 1
    /\ UNCHANGED << srv, idSet, bound, pending, response, cpc, calls, asked, got, fromDev >>

LoseReply ==
    /\ fromDev # << >> /\ lost < MaxLoss
    /\ fromDev' = Tail(fromDev) /\ lost' = lost + 1
    /\ UNCHANGED << srv, idSet, bound, pending, response, cpc, calls, asked, got, toDev >>

\* The device resets: requests it had not served are gone; the watchdog of
\* run() re-requests the topics and the device announces both halves again.
DeviceReset ==
    /\ lost < MaxLoss
    /\ toDev' = << >> /\ pending' = Halves /\ lost' = lost + 1
    /\ UNCHANGED << srv, idSet, bound, response, cpc, calls, asked, got, fromDev >>

Negotiate == setupServiceServerPublisher \/ setupServiceServerSubscriber
Caller(c) == Call(c) \/ CallSend(c) \/ CallReturn(c)

Next ==
    \/ Negotiate \/ handlePacket \/ DeviceServe
    \/ LoseRequest \/ LoseReply \/ DeviceReset
    \/ \E c \in Callers : Caller(c)

(* The reader dispatches and the device answers whenever they can; a     *)
(* caller's thread, once in callback(), keeps running.  Calls themselves *)
(* are optional and losses are not forced.                               *)
Fairness ==
    /\ WF_vars(Negotiate) /\ WF_vars(handlePacket) /\ WF_vars(DeviceServe)
    /\ \A c \in Callers : WF_vars(CallSend(c)) /\ WF_vars(CallReturn(c))

Spec == Init /\ [][Next]_vars /\ Fairness

-----------------------------------------------------------------------------
(* A caller that returns from ServiceServer.callback with a response       *)
(* returns the device's reply to its own request (spec 4: the response-  *)
(* half handler completes the pending request), although every call       *)
(* shares the one self.response slot and resets it.                       *)
ResponseMatches ==
    \A c \in Callers : got[c] \in Req => got[c] = asked[c]

(* Every call into ServiceServer.callback returns (with the response or   *)
(* with an error): the busy wait on self.response ends (spec 4: the       *)
(* service-server handler must eventually produce a response).            *)
CallReturns ==
    \A c \in Callers : cpc[c] = "send" ~> cpc[c] = "idle"

(* The same on a link that loses no frame and a device that does not       *)
(* reset: callback() has no timeout, so a lost reply leaves its caller     *)
(* spinning for good, and only then is every call sure to return.          *)
CallReturnsWithoutLoss ==
    [](lost = 0) => CallReturns

=============================================================================
