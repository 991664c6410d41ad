-------------------------- MODULE AuthorisedDelivery --------------------------
(***************************************************************************)
(* What the message outbox promises, without leases, workers, retries or   *)
(* callbacks: every hand-over of a message to a provider uses up one       *)
(* permit, and a permit comes into being only when the message is queued   *)
(* for the first time or when an administrator asks for it again.          *)
(* A permit may be given up (cancellation, failure, doubt about whether a  *)
(* send happened); it is never given out again by the system itself.       *)
(***************************************************************************)
EXTENDS Integers

CONSTANT Messages

VARIABLES
    granted,    \* granted[m]: permits ever issued for m
    permits,    \* permits[m]: permits issued and neither used nor given up
    deliveries  \* deliveries[m]: times a provider accepted m

vars == <<granted, permits, deliveries>>

Init ==
    /\ granted \in [Messages -> {0, 1}]
    /\ permits = granted
    /\ deliveries = [m \in Messages |-> 0]

Grant(m) ==
    /\ granted' = [granted EXCEPT ![m] = @ + 1]
    /\ permits' = [permits EXCEPT ![m] = @ + 1]
    /\ UNCHANGED deliveries

Deliver(m) ==
    /\ permits[m] > 0
    /\ permits' = [permits EXCEPT ![m] = @ - 1]
    /\ deliveries' = [deliveries EXCEPT ![m] = @ + 1]
    /\ UNCHANGED granted

\* One transaction may cancel several messages at once.
Forfeit(group) ==
    /\ \A m \in group : permits[m] > 0
    /\ permits' = [m \in Messages |-> IF m \in group THEN permits[m] - 1 ELSE permits[m]]
    /\ UNCHANGED <<granted, deliveries>>

Next ==
    \/ \E m \in Messages : Grant(m) \/ Deliver(m)
    \/ \E group \in SUBSET Messages : Forfeit(group)

Spec == Init /\ [][Next]_vars
===============================================================================
