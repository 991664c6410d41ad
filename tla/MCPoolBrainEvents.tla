--------------------------- MODULE MCPoolBrainEvents ---------------------------
(***************************************************************************)
(* Three events: "both" names two alerts, "again" names one of them a      *)
(* second time together with a malformed one, "created" is a new customer. *)
(***************************************************************************)
EXTENDS PoolBrainEvents, TLC

CONSTANTS both, again, created, low1, low2, broken, run1, run2, run3, run4, phone

Payload ==
    [e \in Events |->
        CASE e = both -> <<low1, low2>>
          [] e = again -> <<broken, low1>>
          [] OTHER -> <<>>]

OnePhone == [a \in Alerts |-> phone]

RunSymmetry == Permutations(Runs)

\* Bound: one event in a behaviour; only the relayed one is delivered again.
OneEvent ==
    /\ Cardinality({e \in Events : status[e] # "absent" \/ purges[e] > 0}) <= 1
    /\ both \in Events => purges[both] = 0
================================================================================
