---------------------------- MODULE MCServiceNotices ---------------------------
(***************************************************************************)
(* One notice to one customer, who comes to have a phone.                  *)
(***************************************************************************)
EXTENDS ServiceNotices, TLC

CONSTANTS storm, toFirst, toSecond, phone1, phone2, alice, run1, run2

DestinationOf == [j \in Jobs |-> IF j = toFirst THEN phone1 ELSE phone2]
NoCampaign == [j \in Jobs |-> None]
NoticeOf == [j \in Jobs |-> storm]

RunSymmetry == Permutations(Runs)
================================================================================
