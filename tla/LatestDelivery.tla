--------------------------- MODULE LatestDelivery ---------------------------
(***************************************************************************)
(* What the push of messages promises (MessagePush implements it): every   *)
(* post of a key supersedes the ones before it, any of them may be         *)
(* delivered, in any order and more than once, none before it was posted,  *)
(* and the last one is delivered, unless the transport between the         *)
(* publisher and the hub has lost something.                               *)
(***************************************************************************)
EXTENDS Integers

CONSTANTS
    Key,
    MaxFrames   \* bound on the posts of a key

VARIABLES
    posted,     \* the number of posts of a key
    delivered,  \* those that were delivered
    lossy       \* the transport has lost something

deliveryVars == <<posted, delivered, lossy>>

Init ==
    /\ posted = [k \in Key |-> 0]
    /\ delivered = [k \in Key |-> {}]
    /\ lossy = FALSE

Post(k) ==
    /\ posted[k] < MaxFrames
    /\ posted' = [posted EXCEPT ![k] = @ + 1]
    /\ UNCHANGED <<delivered, lossy>>

Deliver(k, n) ==
    /\ n \in 1 .. posted[k]
    /\ delivered' = [delivered EXCEPT ![k] = @ \cup {n}]
    /\ UNCHANGED <<posted, lossy>>

DeliverLast(k) == ~lossy /\ Deliver(k, posted[k])

Lose ==
    /\ lossy' = TRUE
    /\ UNCHANGED <<posted, delivered>>

Next ==
    \/ \E k \in Key : Post(k)
    \/ \E k \in Key : \E n \in 1 .. posted[k] : Deliver(k, n)
    \/ Lose

Safety == Init /\ [][Next]_deliveryVars

Spec == Safety /\ \A k \in Key : WF_deliveryVars(DeliverLast(k))
=============================================================================
