--------------------------- MODULE MCReviewCampaigns ---------------------------
(***************************************************************************)
(* Two jobs of one household, which share a phone and an email but not the *)
(* customer.  The review has the name of both.                             *)
(***************************************************************************)
EXTENDS ReviewCampaigns

CONSTANTS job1, job2, cust1, cust2, mail, phone, run1, run2, rev1

Recipient == [j \in Jobs |-> {IF j = job1 THEN cust1 ELSE cust2, mail, phone}]

\* Sorted as text: review-customer, review-email, review-phone.
SortedKeys == <<cust1, cust2, mail, phone>>
Rank == [k \in Keys |-> CHOOSE i \in 1..Len(SortedKeys) : SortedKeys[i] = k]

\* No two keys with one hash.
OwnSlot == [k \in Keys \cup Jobs |-> k]
OwnSlots == Keys \cup Jobs

Names == [r \in Reviews |-> [j \in Jobs |-> "exact"]]
================================================================================
