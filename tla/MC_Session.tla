----------------------------- MODULE MC_Session -----------------------------
(* Instances of Session for TLC: two device publishers, one of them with a *)
(* md5sum the host does not accept, and one device subscriber.            *)
EXTENDS Session

CONSTANTS p1, p2, s1

MCDevicePubs == {p1, p2}
MCDeviceSubs == {s1}
MCMismatched == {p2}

(* A device that only subscribes (for example a motor controller).         *)
MCNoPubs == {}
MCNoneMismatched == {}
=============================================================================
