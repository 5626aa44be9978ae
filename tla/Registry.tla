------------------------------ MODULE Registry ------------------------------
(***************************************************************************)
(* SerialClient's publisher and subscriber tables, as setupPublisher and  *)
(* setupSubscriber change them for each TopicInfo the device announces.   *)
(* A TopicInfo is a record of its kind (which reserved id it came on),     *)
(* name, type, id and md5sum; the host's md5sum of a type is the type      *)
(* itself, so Publisher(msg) and Subscriber(msg) raise exactly when        *)
(* md5 # type.  self.callbacks[id] is set together with self.publishers.  *)
(***************************************************************************)
CONSTANTS
    Names,     \* topic names
    Types,     \* message types
    Ids,       \* topic ids
    BadMd5,    \* types the device may announce with a wrong md5sum
    BadSum,    \* an md5sum that matches no type of the host
    None       \* an absent dictionary entry

\* The TopicInfos the device may send.
Infos ==
    { i \in [kind : {"pub", "sub"}, name : Names, type : Types, id : Ids,
              md5 : Types \cup {BadSum}] :
        i.md5 = i.type \/ (i.md5 = BadSum /\ i.type \in BadMd5) }

VARIABLES
    publishers,   \* self.publishers (and self.callbacks): id -> [name, type]
    subscribers,  \* self.subscribers: name -> [type, id, live]; live is FALSE
                  \* once Subscriber.unregister() was called on it
    last          \* history: the TopicInfo of the latest setup call

vars == << publishers, subscribers, last >>

\* Publisher.__init__ / Subscriber.__init__ compare message._md5sum with it.
Md5Ok(i) == i.md5 = i.type

TypeOK ==
    /\ publishers \in [Ids -> [name : Names, type : Types] \cup {None}]
    /\ subscribers \in [Names -> [type : Types, id : Ids, live : BOOLEAN] \cup {None}]
    /\ last \in Infos \cup {None}

Init ==
    /\ publishers = [d \in Ids |-> None]
    /\ subscribers = [n \in Names |-> None]
    /\ last = None

(* pub = Publisher(msg) raises on an md5sum mismatch before anything is   *)
(* stored; otherwise it replaces what self.publishers held for the id.     *)
setupPublisher(i) ==
    /\ i.kind = "pub"
    /\ publishers' = IF Md5Ok(i)
                     THEN [publishers EXCEPT ![i.id] = [name |-> i.name, type |-> i.type]]
                     ELSE publishers
    /\ UNCHANGED subscribers

\* The subscriber Subscriber(msg) creates, if its md5sum matches.
NewSub(i) == [type |-> i.type, id |-> i.id, live |-> TRUE]

(* A new name gets a Subscriber if its md5sum matches.  A known name with  *)
(* another message type is unregistered first and then replaced; if the   *)
(* new Subscriber raises, the unregistered one stays in the dictionary.    *)
(* A known name with the same type is left alone, id and all.             *)
setupSubscriber(i) ==
    /\ i.kind = "sub"
    /\ LET old == subscribers[i.name] IN
       subscribers' =
         CASE old = None ->
                IF Md5Ok(i) THEN [subscribers EXCEPT ![i.name] = NewSub(i)]
                ELSE subscribers
           [] old # None /\ i.type # old.type ->
                [subscribers EXCEPT ![i.name] =
                   IF Md5Ok(i) THEN NewSub(i) ELSE [old EXCEPT !.live = FALSE]]
           [] OTHER -> subscribers
    /\ UNCHANGED publishers

Next == \E i \in Infos : (setupPublisher(i) \/ setupSubscriber(i)) /\ last' = i

Spec == Init /\ [][Next]_vars

(* Spec 8: after an install whose md5sum matches, the binding exists: the  *)
(* publisher's id is bound to its name and type, or the subscriber's name *)
(* has a live Subscriber of the announced type.                           *)
InstallBinds ==
    last # None /\ Md5Ok(last) =>
        IF last.kind = "pub"
        THEN publishers[last.id] = [name |-> last.name, type |-> last.type]
        ELSE /\ subscribers[last.name] # None
             /\ subscribers[last.name].live
             /\ subscribers[last.name].type = last.type
=============================================================================
